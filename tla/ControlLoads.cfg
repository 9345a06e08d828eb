SPECIFICATION FairSpec
CONSTANTS
  h1 = h1
  h2 = h2
  m1 = m1
  m2 = m2
  Handlers = {h1, h2}
  Boot = Boot
  Nobody = Nobody
  Models = {m1, m2}
  NoModel = NoModel
  Requests <- LoadMix
  Slots = 1
  HasReport = FALSE
PROPERTIES SealSettles RequestIsAnswered
