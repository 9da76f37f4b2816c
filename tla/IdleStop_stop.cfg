SPECIFICATION Spec
CONSTANTS
  Timeouts = {0, 2}
  MinWriteInterval = 1
  IdleCheckPeriod = 1
  Prompt = {}
  Patient = TRUE
  StartDelay = 0
  MaxTime = 5
  MaxWork = 0
  MaxOps = 1
  MaxFaults = 1
CHECK_DEADLOCK FALSE
INVARIANTS NeverSleepsPastDeadline DerivedFollows
PROPERTIES StartStands
