SPECIFICATION Spec
CHECK_DEADLOCK FALSE
CONSTANTS
  c1 = c1
  c2 = c2
  None = None
  Calls = {c1, c2}
  Deploys = {}
  MaxPolls = 2
  MaxHash = 1
SYMMETRY CallSymmetry
INVARIANTS
  TypeOK
  OutcomeTrue
  AloneHasNonce
PROPERTIES
  CancelStops
