--------------------------- MODULE MCExpressions ---------------------------
(* Values of the constants of Expressions for TLC.                         *)
EXTENDS Expressions

(* The second is the least int, as 0x80000000 is for 32 bits.              *)
IntLiterals == {0, -4, 1}
TableElements == <<2, 0>>
=============================================================================
