SPECIFICATION Spec
CONSTANTS
  Values <- Constants
  Sizes <- Bytes
INVARIANT
  EncodableIsImm8m
