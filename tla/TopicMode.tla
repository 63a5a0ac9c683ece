------------------------------ MODULE TopicMode ------------------------------
(***************************************************************************)
(* What Konet.BinaryMode promises the members of a topic: the first to     *)
(* enter fixes the mode, all who enter later run the same one, it does not *)
(* change while anybody is in, it is forgotten when the last one leaves,   *)
(* and a multiplex topic admits nobody beyond its ceiling.  There are no   *)
(* rows, no monitors and no crashes here.                                  *)
(***************************************************************************)
EXTENDS Naturals, FiniteSets

CONSTANTS Topic, Pid, MaxMembers

Mode == {"exclusive", "multiplex"}

VARIABLES
  member,   \* member[t]: who is in topic t
  mode      \* mode[t]: its mode, or "none"

vars == <<member, mode>>

Init ==
  /\ member = [t \in Topic |-> {}]
  /\ mode = [t \in Topic |-> "none"]

HasRoom(t, m) == m = "multiplex" /\ MaxMembers > 0 => Cardinality(member[t]) < MaxMembers

Enter(t, p, m) ==
  /\ \A s \in Topic : p \notin member[s]
  /\ mode[t] \in {"none", m}
  /\ HasRoom(t, m)
  /\ member' = [member EXCEPT ![t] = @ \union {p}]
  /\ mode' = [mode EXCEPT ![t] = m]

Leave(t, p) ==
  /\ p \in member[t]
  /\ member' = [member EXCEPT ![t] = @ \ {p}]
  /\ mode' = IF member[t] = {p} THEN [mode EXCEPT ![t] = "none"] ELSE mode

Next == \E t \in Topic, p \in Pid : Leave(t, p) \/ \E m \in Mode : Enter(t, p, m)

Spec == Init /\ [][Next]_vars
=============================================================================
