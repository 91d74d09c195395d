SPECIFICATION CFSpec
CONSTANTS
  NumParams = 1
  StmtVals = {1}
  Kinds = {"call", "if", "while", "i1", "i32", "and", "or", "decided"}
  MaxNodes = 5
  DeadCode = FALSE
INVARIANTS
  Numbering
  NoLostJump
  OpenJumpIsLast
  CodeFollowsSource
PROPERTIES
  ResolvedJumpsStay
