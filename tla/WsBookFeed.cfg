SPECIFICATION Spec
CHECK_DEADLOCK FALSE
CONSTANTS
  t1 = t1
  t2 = t2
  None = None
  Tokens = {t1, t2}
  Cap = 2
  MaxBackoff = 30
  DumpNow = FALSE
  Anomalies = {"backwards", "duplicate", "noTimestamp"}
  MaxVersion = 2
  MaxClock = 3
  MaxFaults = 1
SYMMETRY TokenSymmetry
INVARIANTS
  TypeOK
  StreamOrdered
  ReconnectAnnounced
PROPERTIES
  FeedSpec
