----------------------------- MODULE MCIRToAsm -----------------------------
(* Instances of IRToAsm for TLC.                                           *)
EXTENDS IRToAsm

CONSTANTS g, a      (* global variables *)

Vectors  == {<<2>>}
Matrices == {<<2, 2>>}

NoArrays == [x \in Globals |-> <<>>]
OneArray == [x \in Globals |-> IF x = a THEN <<2>> ELSE <<>>]
=============================================================================
