SPECIFICATION RefSpec
CONSTANT
  ArrayTypes <- Shapes
INVARIANTS
  TypeOK
  ElementsFound
  WordsInPlace
  StoresInPlace
  ElementsAddressed
