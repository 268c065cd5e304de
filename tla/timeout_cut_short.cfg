CONSTANTS
  Durations = {0, 2}
  MaxTimers = 3
  MaxTime = 5
SPECIFICATION Spec
PROPERTIES
  NotCutShort
CHECK_DEADLOCK FALSE
