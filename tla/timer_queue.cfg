CONSTANTS
  Client = {c1, c2}
  Owner = owner
  Worker = m_th
  Delays = {0, 2}
  MaxTimers = 3
  MaxTime = 3
  MaxSignals = 2
  HandlersCall = TRUE
SYMMETRY ClientSymmetry
SPECIFICATION Spec
INVARIANTS
  RunsOnce
  AbortsKept
  NoOversleep
PROPERTIES
  KeepsPromises
CHECK_DEADLOCK FALSE
