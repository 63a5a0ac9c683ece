------------------------------- MODULE Webhooks ------------------------------
(***************************************************************************)
(* Konet.Webhooks: delivery of the events the other components emit.        *)
(*                                                                          *)
(* Each attempt is a task of a bounded pool (Konet.WebhookSupervisor).  A   *)
(* failed attempt ends its task and sets a timer that sends a :retry to the *)
(* name Konet.Webhooks; whoever owns that name when it fires starts the     *)
(* next attempt.  An event is therefore in one place at a time, `at`.       *)
(***************************************************************************)
EXTENDS Naturals, FiniteSets

CONSTANTS
  Event,       \* webhook events, each with its id
  Retries,     \* webhook_retries: attempts in all
  Concurrency, \* webhook_concurrency: the size of the pool
  MaxCrashes   \* bound: crashes of the process and of the pool

ASSUME ConstAssumption ==
  /\ IsFiniteSet(Event)
  /\ Retries \in Nat \ {0} /\ Concurrency \in Nat \ {0} /\ MaxCrashes \in Nat

Place == {"new", "task", "timer", "mailbox", "delivered", "refused", "gave_up", "dropped", "lost"}
Settled == {"delivered", "refused", "gave_up", "dropped", "lost"}

VARIABLES
  at,         \* at[e]: where the event is
  attempt,    \* attempt[e]: its last attempt, 0 before the first
  onWire,     \* requests the receiver has not processed: [event, attempt]
  processed,  \* requests it has
  process,    \* whether the Konet.Webhooks process is up
  pool,       \* whether the task supervisor is up
  crashes

vars == <<at, attempt, onWire, processed, process, pool, crashes>>

Request == [event : Event, attempt : 1 .. Retries]
Last(e) == [event |-> e, attempt |-> attempt[e]]
InFlight == {e \in Event : at[e] = "task"}

Init ==
  /\ at = [e \in Event |-> "new"] /\ attempt = [e \in Event |-> 0]
  /\ onWire = {} /\ processed = {}
  /\ process = "up" /\ pool = "up" /\ crashes = 0

Put(e, place) == at' = [at EXCEPT ![e] = place]

\* dispatch/4: a task with its request, or, when the pool is full, nothing.
Dispatch(e) ==
  \/ /\ Cardinality(InFlight) < Concurrency
     /\ Put(e, "task")
     /\ attempt' = [attempt EXCEPT ![e] = @ + 1]
     /\ onWire' = onWire \union {[event |-> e, attempt |-> attempt[e] + 1]}
  \/ /\ Cardinality(InFlight) >= Concurrency
     /\ Put(e, "dropped")
     /\ UNCHANGED <<attempt, onWire>>

-----------------------------------------------------------------------------
\* emit/2, in the process of the emitter.  It exits when there is no pool.
Emit(e) ==
  /\ at[e] = "new"
  /\ \/ pool = "up" /\ Dispatch(e)
     \/ pool = "down" /\ Put(e, "lost") /\ UNCHANGED <<attempt, onWire>>
  /\ UNCHANGED <<processed, process, pool, crashes>>

\* The receiver processes a request, perhaps after the task has given it up.
Process(q) ==
  /\ q \in onWire
  /\ onWire' = onWire \ {q} /\ processed' = processed \union {q}
  /\ UNCHANGED <<at, attempt, process, pool, crashes>>

\* ... or the request never gets that far.
Lose(q) ==
  /\ q \in onWire
  /\ onWire' = onWire \ {q}
  /\ UNCHANGED <<at, attempt, processed, process, pool, crashes>>

\* A 2xx answer.
Succeed(e) ==
  /\ at[e] = "task" /\ Last(e) \in processed
  /\ Put(e, "delivered")
  /\ UNCHANGED <<attempt, onWire, processed, process, pool, crashes>>

\* A 4xx answer other than 408 and 429, instead of processing the request.
Reject(e) ==
  /\ at[e] = "task" /\ Last(e) \in onWire
  /\ onWire' = onWire \ {Last(e)}
  /\ Put(e, "refused")
  /\ UNCHANGED <<attempt, processed, process, pool, crashes>>

\* Any other answer, an error or a timeout: retry_or_give_up/5.
MutExhausted(e) == attempt[e] > Retries     \* mutant: > for >=
Exhausted(e) == attempt[e] >= Retries

MutFail(e) ==                               \* mutant: a timeout after the answer counts too
  /\ at[e] \in {"task", "delivered"}
  /\ Put(e, IF Exhausted(e) THEN "gave_up" ELSE "timer")
  /\ UNCHANGED <<attempt, onWire, processed, process, pool, crashes>>

Fail(e) ==
  /\ at[e] = "task"
  /\ Put(e, IF Exhausted(e) THEN "gave_up" ELSE "timer")
  /\ UNCHANGED <<attempt, onWire, processed, process, pool, crashes>>

\* The name is looked up when the timer fires.
TimerFires(e) ==
  /\ at[e] = "timer"
  /\ Put(e, IF process = "up" THEN "mailbox" ELSE "lost")
  /\ UNCHANGED <<attempt, onWire, processed, process, pool, crashes>>

MutHandleRetry(e) == FALSE                  \* mutant: a catch-all clause takes the message

HandleRetry(e) ==
  /\ process = "up" /\ at[e] = "mailbox"
  /\ pool = "up" /\ Dispatch(e)
  /\ UNCHANGED <<processed, process, pool, crashes>>

\* The process goes down, with its mailbox but not with the timers.
ProcessDown ==
  /\ process' = "down"
  /\ at' = [e \in Event |-> IF at[e] = "mailbox" THEN "lost" ELSE at[e]]
  /\ UNCHANGED <<attempt, onWire, processed, pool>>

ProcessCrash == process = "up" /\ crashes < MaxCrashes /\ crashes' = crashes + 1 /\ ProcessDown

\* handle_info :retry exits when there is no pool.
RetryExits(e) ==
  /\ process = "up" /\ pool = "down" /\ at[e] = "mailbox"
  /\ ProcessDown
  /\ UNCHANGED crashes

\* The pool goes down with its tasks.
PoolCrash ==
  /\ pool = "up" /\ crashes < MaxCrashes
  /\ pool' = "down" /\ crashes' = crashes + 1
  /\ at' = [e \in Event |-> IF at[e] = "task" THEN "lost" ELSE at[e]]
  /\ UNCHANGED <<attempt, onWire, processed, process>>

Restart ==
  /\ \/ process = "down" /\ process' = "up" /\ UNCHANGED pool
     \/ pool = "down" /\ pool' = "up" /\ UNCHANGED process
  /\ UNCHANGED <<at, attempt, onWire, processed, crashes>>

-----------------------------------------------------------------------------
Progress(e) == TimerFires(e) \/ HandleRetry(e) \/ RetryExits(e) \/ Succeed(e) \/ Reject(e) \/ Fail(e)

Next ==
  \/ \E e \in Event : Emit(e) \/ Progress(e)
  \/ \E q \in onWire : Process(q) \/ Lose(q)
  \/ ProcessCrash \/ PoolCrash \/ Restart

Spec == Init /\ [][Next]_vars

\* Timers fire, the process works, a request ends at the latest when it times
\* out, and the supervisor restarts what crashed.
FairSpec == Spec /\ WF_vars(Restart) /\ \A e \in Event : WF_vars(Progress(e))

-----------------------------------------------------------------------------
TypeOK ==
  /\ at \in [Event -> Place] /\ attempt \in [Event -> 0 .. Retries]
  /\ onWire \subseteq Request /\ processed \subseteq Request
  /\ process \in {"up", "down"} /\ pool \in {"up", "down"} /\ crashes \in 0 .. MaxCrashes

\* What counts as delivered was processed by the receiver (webhooks.ex 116).
\* The runs check it as part of DeliverySafe below.
DeliveredWasProcessed ==
  \A e \in Event : at[e] = "delivered" => \E q \in processed : q.event = e

\* An event that nobody dropped, refused or lost was tried as often as
\* configured before it was given up, and no event oftener: a receiver that
\* deduplicates sees at most that many copies (webhooks.ex 17).
TriedAsConfigured ==
  \A e \in Event :
    /\ at[e] = "gave_up" => attempt[e] = Retries
    /\ Cardinality({q \in processed : q.event = e}) <= Retries

\* To its emitter and its receiver an event is one of Delivery: no crash, retry
\* or late answer changes a settled outcome, and no attempt is processed twice
\* (webhooks.ex 16-19, 42-44).
Outcome(e) ==
  CASE at[e] = "new" -> "none"
    [] at[e] \in {"task", "timer", "mailbox"} -> "pending"
    [] at[e] = "delivered" -> "delivered"
    [] OTHER -> "failed"
Copies(e) == {q.attempt : q \in {r \in processed : r.event = e}}
Delivered == INSTANCE Delivery WITH
  outcome <- [e \in Event |-> Outcome(e)], copies <- [e \in Event |-> Copies(e)]
DeliverySafe == Delivered!Spec

\* No event stays pending for ever, whatever crashes.
EveryEventSettles == \A e \in Event : (at[e] # "new") ~> (at[e] \in Settled)
=============================================================================
