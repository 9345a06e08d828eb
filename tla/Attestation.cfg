SPECIFICATION FairSpec
CONSTANTS
  h1 = h1
  h2 = h2
  n1 = n1
  k1 = k1
  Handlers = {h1, h2}
  Boot = Boot
  Nobody = Nobody
  Nonces = {n1}
  BootNonce = BootNonce
  Keys = {k1}
  NoKey = NoKey
  Platforms <- SomePlatforms
INVARIANTS TypeOK DocumentIsBound EnrolledKeyIsAttested QuoteFitsPlatform
PROPERTY RequestIsAnswered
