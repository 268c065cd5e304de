SPECIFICATION Spec
CONSTANTS
  Size <- MCSize
  Mantissa <- MCMantissa
  Element <- MCElement
  NameOf <- MCNameOf
  Attr <- MCAttr
  Kids <- MCKids
  Paths <- MCPaths
  Files <- MCFiles
  RootOf <- MCRootOf
  Manifest <- MCManifest
  Builtin <- MCBuiltin
  MaxOpened = 2
  Writes <- MCWrites
  OwnKeys = {"x"}
VIEW WithoutAnswers
INVARIANTS Whole TypesAgree TypeLocked ReadsExact
