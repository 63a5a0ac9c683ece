------------------------------ MODULE MCKonetCli ------------------------------
(* Instances of KonetCli for TLC. *)
EXTENDS KonetCli, TLC

CONSTANTS t1, t2

Symmetry == Permutations(Shell)
=============================================================================
