----------------------------- MODULE MCAstToIR -----------------------------
(* Instances of AstToIR for TLC.                                           *)
EXTENDS AstToIR
=============================================================================
