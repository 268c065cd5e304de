CONSTANTS
  Client = {c1}
  Owner = owner
  Worker = m_th
  Delays = {1, 2}
  MaxTimers = 3
  MaxTime = 3
  MaxSignals = 2
  HandlersCall = FALSE
SPECIFICATION FairSpec
INVARIANTS
  QueueEmptyAtExit
PROPERTIES
  EveryHandlerRuns
  DestructorReturns
CHECK_DEADLOCK FALSE
