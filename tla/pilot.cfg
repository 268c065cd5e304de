CONSTANTS
  NoAxes = "none"
  HistorySize = 2
  Normalized <- MCNormalized
  TurnThreshold = 5
  RuleRoot = "root"
  Place <- MCPlace
  Attitude <- MCAttitude
  DistanceOf <- MCDistance
  LosOf <- MCLos
  AspectOf <- MCAspect
  AngleOffOf <- MCAngleOff
  AltitudeOf <- MCAltitude
  YawOf <- MCYaw
  NoseUp <- MCNoseUp
  RuleNode <- MCRuleNode
  RuleKids <- MCRuleKids
  RuleParent <- MCRuleParent
  Opens <- FirstLine
  Closes <- LastLine
  Shipped = "Rule.xml"
  Files <- MCFiles
  Class <- MCClass
  Ports <- MCPorts
  Start <- MCStart
  Mine <- MCMine
  Others <- MCOthers
  DeltaTimes = {1250}
SPECIFICATION Spec
INVARIANTS
  PictureFresh
  ActsInWindow
  SteersByNow
  StickMatches
