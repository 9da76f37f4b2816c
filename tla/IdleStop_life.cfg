SPECIFICATION FairSpec
CONSTANTS
  Timeouts = {2}
  MinWriteInterval = 1
  IdleCheckPeriod = 2
  Prompt = {"environment", "pod"}
  Patient = TRUE
  StartDelay = 0
  MaxTime = 5
  MaxWork = 2
  MaxOps = 1
  MaxFaults = 0
CHECK_DEADLOCK FALSE
PROPERTIES IdleStopNotEarly PowerTakesEffect
