SPECIFICATION Spec
CONSTANTS
  g = g
  a = a
  NumParams = 0
  Globals = {g}
  Dims = {}
  GlobalDims <- NoArrays
  RegOps = {"add"}
  ImmOps = {}
  UseSpilled = TRUE
  UseElements = FALSE
  MaxNames = 6
INVARIANTS
  PushedWhereRecorded
