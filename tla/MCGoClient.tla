------------------------------ MODULE MCGoClient ------------------------------
(* Instances of GoClient for TLC. *)
EXTENDS GoClient

CONSTANTS g1, g2
=============================================================================
