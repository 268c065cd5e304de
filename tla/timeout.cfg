CONSTANTS
  Durations = {0, 1}
  MaxTimers = 2
  MaxTime = 3
SPECIFICATION FairSpec
INVARIANTS
  NotHaltedInTick
  ThreadIsRunning
PROPERTIES
  CallsReturn
  ExpiryStops
  TimeoutSurfaces
CHECK_DEADLOCK FALSE
