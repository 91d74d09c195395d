SPECIFICATION FairCFSpec
CONSTANTS
  NumParams = 1
  StmtVals = {1}
  Kinds = {"null", "decl", "return", "break", "continue", "compound", "ifconst",
           "if", "ifelse", "while", "i32", "and", "neutral", "decided"}
  MaxNodes = 4
  DeadCode = TRUE
INVARIANTS
  TypeOK
  StackDiscipline
  Numbering
  EveryBlockTerminated
  CodeFollowsSource
PROPERTIES
  NeitherIsStuck
