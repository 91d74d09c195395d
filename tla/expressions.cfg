SPECIFICATION Spec
CONSTANTS
  Half = 4
  Literals <- IntLiterals
  Vars = {"x"}
  Start = 2
  Table <- TableElements
  Ops = {"add", "sub", "div", "rem", "lt", "or", "and"}
  UnaryOps = {"plus", "minus", "not", "paren"}
  Contexts = {"assign", "return", "cond", "stmt"}
  MaxNodes = 5
INVARIANTS
  TypeOK
  FoldingExact
  CrashMeansTrap
  OperandsTyped
  LoweringExact
