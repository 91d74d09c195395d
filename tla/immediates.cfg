SPECIFICATION Spec
CONSTANTS
  Values <- Constants
  Sizes <- Bytes
INVARIANTS
  TypeOK
  ClassIsExact
  ThrownOnlyForImm16
