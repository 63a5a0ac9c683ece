------------------------------ MODULE FloorLock ------------------------------
(***************************************************************************)
(* What Konet.Floor promises the members of a topic: at most one user holds *)
(* the floor, it passes from one user to another only through being free,   *)
(* and whoever takes it loses it eventually, by whatever means.             *)
(***************************************************************************)
CONSTANTS Topic, User, NoUser

VARIABLE holder   \* holder[t]: the user holding topic t, or NoUser

Init == holder = [t \in Topic |-> NoUser]

Take(t, u) ==
  /\ holder[t] = NoUser
  /\ holder' = [holder EXCEPT ![t] = u]

Free(t) ==
  /\ holder[t] # NoUser
  /\ holder' = [holder EXCEPT ![t] = NoUser]

Next == \E t \in Topic : Free(t) \/ \E u \in User : Take(t, u)

Safety == Init /\ [][Next]_holder
Fairness == \A t \in Topic : WF_holder(Free(t))

Spec == Safety /\ Fairness
=============================================================================
