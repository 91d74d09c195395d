SPECIFICATION Spec
CONSTANTS
  g = g
  a = a
  NumParams = 1
  Globals = {g, a}
  Dims <- Matrices
  GlobalDims <- OneArray
  RegOps = {"add", "div", "rem"}
  ImmOps = {"sub"}
  UseSpilled = FALSE
  UseElements = FALSE
  MaxNames = 6
INVARIANTS
  TypeOK
  SpMatchesTable
  RegistersAgree
  TopInRegister
  RegistersHold
  MemoryHolds
PROPERTIES
  ImplementsBlock
