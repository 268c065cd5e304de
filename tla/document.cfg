SPECIFICATION Spec
CONSTANTS
  MaxNodes = 3
  MaxDepth = 3
  Makes <- MCMakes
  Names <- MCNames
  Values <- MCValues
  Samples <- MCSamples
  Bits <- MCBits
  Texts <- MCTexts
INVARIANTS
  LinksAgree
  PoolsBalance
  RoundTrip
  TypedReads
PROPERTY
  KeepsForest
