----------------------------- MODULE MCGoChannel -----------------------------
(* Instances of GoChannel for TLC. *)
EXTENDS GoChannel

CONSTANTS g1, g2
=============================================================================
