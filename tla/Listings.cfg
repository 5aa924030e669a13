SPECIFICATION FairSpec
CHECK_DEADLOCK FALSE
CONSTANTS
  MaxId = 7
  Initial = 5
  Limits = {0, 1, 2, 3}
  Default = 2
  Cap = 2
  Broken = {3}
  Windows <- WindowsOf
  Base = 1700000000
  Step = 35
  None = None
INVARIANTS
  TypeOK
  MissedAtMostRemoved
  RepeatedAtMostAdded
  OrdersComplete
  TradesOnceInOrder
  WindowNearlyKept
PROPERTIES
  WalkEnds
