SPECIFICATION FairSpec
CONSTANTS
  Names = {x, y, lib}
  Builtin = lib
  NoUse = NoUse
  MaxNodes = 9
INVARIANTS
  TypeOK
  RefIsLexical
PROPERTIES
  InitialiserReady
  SearchEnds
