---------------------------- MODULE MCArrayRefs ----------------------------
(* Instances of ArrayRefs, and of Initialisers, for TLC.                   *)
EXTENDS ArrayRefs

Shapes == {<<3>>, <<2, 2>>, <<3, 2>>, <<2, 3>>, <<2, 2, 2>>, <<2, 1, 2>>}
=============================================================================
