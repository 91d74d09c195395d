-------------------------- MODULE MCNameResolution --------------------------
(* Instances of NameResolution for TLC.                                    *)
EXTENDS NameResolution
=============================================================================
