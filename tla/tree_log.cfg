SPECIFICATION Spec
CONSTANTS
  log1 = log1
  log2 = log2
  NumNodes = 3
  Class <- MCClass
  Name <- MCName
  Registration <- MCRegistration
  Children <- MCChildren
  InputPorts <- MCInputPorts
  OutputPorts <- MCOutputPorts
  Async <- MCAsync
  Manifests <- MCManifests
  Text <- MCText
  Backwards = TRUE
  FirstUid = 65534
  Loggers = {log1, log2}
  MaxChanges = 2
  MaxSettings = 1
  Lapse = 1500000
  InitialSize = 16
SYMMETRY Either
INVARIANTS
  Sound
  ReadsBack
  ReplayTells
  
CHECK_DEADLOCK FALSE
