CONSTANTS
  NoNode = "none"
  Root = "r"
  Node <- ShapeNode
  Children <- ShapeChildren
  Parent <- ShapeParent
  DefaultNamed = {"r", "a"}
  Trees <- AllControl
SPECIFICATION FairSpec
INVARIANTS
  NoOrphans
  OneRunningChild
  SkippedAreDone
  HaltStops
  HaltForgets
  ThreadIsRunning
PROPERTIES
  Verdicts
  CallsReturn
  RootDecides
