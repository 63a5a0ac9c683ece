----------------------------- MODULE MCBinaryMode ----------------------------
(* Instances of BinaryMode for TLC. *)
EXTENDS BinaryMode

CONSTANTS p1, p2, p3, p4, room, lobby

\* Everybody in one room, except that p4 is alone in the lobby.
Rooms == [p \in Pid |-> IF p = p4 THEN lobby ELSE room]
=============================================================================
