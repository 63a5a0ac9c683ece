------------------------------- MODULE Delivery ------------------------------
(***************************************************************************)
(* What Konet.Webhooks promises of an event: the receiver gets copies of   *)
(* it, each attempt at most once and perhaps after the outcome is settled; *)
(* it counts as delivered only if a copy was processed, as failed for any  *)
(* reason at any time; and a settled outcome is final.                     *)
(***************************************************************************)
EXTENDS Naturals

CONSTANTS Event, Retries

VARIABLES
  outcome,   \* outcome[e]: none, pending, delivered or failed
  copies     \* copies[e]: the attempts whose copy the receiver has processed

vars == <<outcome, copies>>

Init ==
  /\ outcome = [e \in Event |-> "none"]
  /\ copies = [e \in Event |-> {}]

Offer(e) ==
  /\ outcome[e] = "none"
  /\ \E o \in {"pending", "failed"} : outcome' = [outcome EXCEPT ![e] = o]
  /\ UNCHANGED copies

Arrive(e, n) ==
  /\ outcome[e] # "none" /\ n \notin copies[e]
  /\ copies' = [copies EXCEPT ![e] = @ \union {n}]
  /\ UNCHANGED outcome

Confirm(e) ==
  /\ outcome[e] = "pending" /\ copies[e] # {}
  /\ outcome' = [outcome EXCEPT ![e] = "delivered"]
  /\ UNCHANGED copies

\* Several at once, in a crash.
Fail(F) ==
  /\ \A e \in F : outcome[e] = "pending"
  /\ outcome' = [e \in Event |-> IF e \in F THEN "failed" ELSE outcome[e]]
  /\ UNCHANGED copies

Next ==
  \/ \E e \in Event : Offer(e) \/ Confirm(e) \/ \E n \in 1 .. Retries : Arrive(e, n)
  \/ \E F \in SUBSET Event : Fail(F)

Spec == Init /\ [][Next]_vars
=============================================================================
