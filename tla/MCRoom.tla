-------------------------------- MODULE MCRoom -------------------------------
(* Instances of Room for TLC. *)
EXTENDS Room

CONSTANTS p1, p2, api, room

\* Everybody in one room.
InRoom == [s \in Sender |-> room]

\* p1 speaks twice, the API once, p2 only listens.
P1Twice == [s \in Sender |-> CASE s = p1 -> 2 [] s = api -> 1 [] OTHER -> 0]
=============================================================================
