SPECIFICATION FairSpec
CONSTANTS
  i1 = i1
  i2 = i2
  n1 = n1
  k1 = k1
  k2 = k2
  Images = {i1, i2}
  NoImage = NoImage
  Machines <- SomeMachines
  MaxPolls = 2
  MaxFaults = 2
  UvmTries = 2
  Addresses = {"ip1", "ip2", "zero", "s1", "s2", "r1", "r2", "m1", "m2"}
  None = None
  Replies <- SomeReplies
  Discovers = 2
  Keys = {k1, k2}
  NoKey = NoKey
  Provisionings <- SomeProvisionings
  MaxAttempts = 2
  Deployments <- SomeDeployments
  Nics = {n1}
  NoNic = NoNic
  MaxRounds = 2
CHECK_DEADLOCK FALSE
INVARIANTS TypeOK OnlyMeasuredRootRuns HaltHasReason NodesLeadToHardware LeaseIsOfOneOffer
  ProvisionedKeyIsHonoured NodeIsHardened
PROPERTIES HeldForGood BootSettles
