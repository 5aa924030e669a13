SPECIFICATION SdkSpec
CHECK_DEADLOCK FALSE
CONSTANTS
  t1 = t1
  t2 = t2
  None = None
  Tokens = {t1}
  Cap = 1
  MaxBackoff = 30
  DumpNow = TRUE
  Anomalies = {"duplicate"}
  MaxVersion = 1
  MaxClock = 2
  MaxFaults = 8
INVARIANTS
  FirstOrWaited
PROPERTIES
  ClosedAfterCancel
  BackoffEscalates
