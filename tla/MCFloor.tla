------------------------------- MODULE MCFloor -------------------------------
(* Instances of Floor for TLC. *)
EXTENDS Floor

CONSTANTS p1, p2, alice, bob, room

\* Everybody in one room, each member its own user.
InRoom == [p \in Pid |-> room]
OwnUser == [p \in Pid |-> IF p = p1 THEN alice ELSE bob]
=============================================================================
