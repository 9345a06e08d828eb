SPECIFICATION Spec
CONSTANTS
  h1 = h1
  h2 = h2
  m1 = m1
  m2 = m2
  Handlers = {h1, h2}
  Boot = Boot
  Nobody = Nobody
  Models = {m1}
  NoModel = NoModel
  Requests <- GuardMix
  Slots = 1
  HasReport = TRUE
SYMMETRY HandlerSymmetry
INVARIANTS TypeOK SealedIsBlocked ServedOnlyWhenOpen SlotsAreAccounted
