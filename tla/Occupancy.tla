------------------------------ MODULE Occupancy ------------------------------
(***************************************************************************)
(* What Konet.ChannelRegistry promises a backend that follows a room by    *)
(* channel_occupied and channel_vacated alone: every change between empty  *)
(* and occupied is told before the next member is counted in or out.  A    *)
(* room about which something was lost is out of the promise.              *)
(***************************************************************************)
CONSTANTS Room, Pid

VARIABLES
  inside,   \* inside[r]: the members of room r that count
  told,     \* told[r]: what the backend was told last
  lost      \* the rooms about which nothing is promised any more

vars == <<inside, told, lost>>

Truth(r) == IF inside[r] = {} THEN "vacated" ELSE "occupied"

Init ==
  /\ inside = [r \in Room |-> {}]
  /\ told = [r \in Room |-> "vacated"]
  /\ lost = {}

Enter(r, p) ==
  /\ r \notin lost /\ told[r] = Truth(r) /\ p \notin inside[r]
  /\ inside' = [inside EXCEPT ![r] = @ \union {p}]
  /\ UNCHANGED <<told, lost>>

Leave(r, p) ==
  /\ r \notin lost /\ told[r] = Truth(r) /\ p \in inside[r]
  /\ inside' = [inside EXCEPT ![r] = @ \ {p}]
  /\ UNCHANGED <<told, lost>>

Tell(r) ==
  /\ r \notin lost /\ told[r] # Truth(r)
  /\ told' = [told EXCEPT ![r] = Truth(r)]
  /\ UNCHANGED <<inside, lost>>

Lose(R) ==
  /\ lost' = lost \union R
  /\ inside' = [r \in Room |-> IF r \in R THEN {} ELSE inside[r]]
  /\ told' = [r \in Room |-> IF r \in R THEN "vacated" ELSE told[r]]

Next ==
  \/ \E r \in Room : Tell(r) \/ \E p \in Pid : Enter(r, p) \/ Leave(r, p)
  \/ \E R \in SUBSET Room : Lose(R)

Spec == Init /\ [][Next]_vars
=============================================================================
