SPECIFICATION CFSpec
CONSTANTS
  NumParams = 0
  StmtVals = {0}
  Kinds = {"null", "assign", "compound", "if", "whileconst", "while", "i1",
           "break", "continue"}
  MaxNodes = 6
  DeadCode = FALSE
INVARIANTS
  NoLostJump
  OpenJumpIsLast
  WellFormedBlocks
  CodeFollowsSource
PROPERTIES
  ResolvedJumpsStay
