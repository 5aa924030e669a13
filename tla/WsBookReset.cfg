SPECIFICATION FairSpec
CHECK_DEADLOCK FALSE
CONSTANTS
  t1 = t1
  t2 = t2
  None = None
  Tokens = {t1}
  Cap = 1
  MaxBackoff = 30
  DumpNow = TRUE
  Anomalies = {"backwards"}
  MaxVersion = 2
  MaxClock = 3
  MaxFaults = 0
PROPERTIES
  SnapshotAfterReset
