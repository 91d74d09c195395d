SPECIFICATION Spec
CONSTANTS
  NumParams = 0
  StmtVals = {1}
  Kinds = {"null", "assign", "compound", "while", "i1", "break"}
  MaxNodes = 5
  DeadCode = TRUE
INVARIANTS
  NoStrayRet
