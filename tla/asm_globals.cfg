SPECIFICATION Spec
CONSTANTS
  g = g
  a = a
  NumParams = 0
  Globals = {a}
  Dims <- Vectors
  GlobalDims <- OneArray
  RegOps = {"add"}
  ImmOps = {}
  UseSpilled = FALSE
  UseElements = TRUE
  MaxNames = 4
INVARIANTS
  GlobalsHold
