SPECIFICATION FairSpec
CHECK_DEADLOCK FALSE
CONSTANTS
  c1 = c1
  c2 = c2
  None = None
  Calls = {c1, c2}
  Deploys = {c1}
  MaxPolls = 2
  MaxHash = 0
INVARIANTS
  OutcomeTrue
PROPERTIES
  CallReturns
  PromiseKept
