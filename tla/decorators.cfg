CONSTANTS
  NoNode = "none"
  Root = "r"
  Node <- ChainNode
  Children <- ChainChildren
  Parent <- ChainParent
  DefaultNamed = {"r", "d", "e"}
  Trees <- AllDecorators
SPECIFICATION FairSpec
INVARIANTS
  NothingLeft
PROPERTIES
  CallsReturn
