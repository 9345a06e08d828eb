SPECIFICATION FairSpec
CONSTANTS
  m1 = m1
  m2 = m2
  Models = {m1, m2}
  NoModel = NoModel
  Requests <- OneModel
  MaxEngines = 2
  FailureLimit = 1
  GPULocked = FALSE
PROPERTY DeadEngineIsNotReady
