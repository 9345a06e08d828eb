SPECIFICATION Spec
CONSTANTS
  n1 = n1  n2 = n2  n3 = n3  n4 = n4  k1 = k1  k2 = k2
  Nonces = {n1, n2, n3, n4}
  Keys = {k1, k2}
  NoKey = NoKey
  Signer <- TwoClients
  Enrolments = {n1, n2}
  Handlers = {h1, h2}
  NoRequest = NoRequest
  Skew = 1
  TTL = 2
  SweepGap = 1
  CacheSize = 2
  MaxTime = 3
SYMMETRY TwoClientSymmetry
INVARIANTS CacheIsBounded SingleKey
PROPERTY NoEarlyReacceptance
