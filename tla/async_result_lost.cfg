CONSTANTS
  NoNode = "none"
  Root = "r"
  Node <- ChainNode
  Children <- ChainChildren
  Parent <- ChainParent
  DefaultNamed = {"r", "d", "e"}
  Trees <- AsyncInverted
SPECIFICATION Spec
PROPERTIES
  ResultDelivered
