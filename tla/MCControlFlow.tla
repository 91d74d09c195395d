--------------------------- MODULE MCControlFlow ---------------------------
(* Instances of ControlFlow for TLC.                                       *)
EXTENDS ControlFlow
=============================================================================
