SPECIFICATION FairSpec
CHECK_DEADLOCK FALSE
CONSTANTS
  t1 = t1
  t2 = t2
  None = None
  Tokens = {t1, t2}
  Cap = 1
  MaxBackoff = 30
  DumpNow = TRUE
  Anomalies = {}
  MaxVersion = 2
  MaxClock = 2
  MaxFaults = 2
PROPERTIES
  CatchesUp
