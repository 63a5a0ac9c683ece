---------------------------- MODULE Webhooks_proofs ---------------------------
(***************************************************************************)
(* Proofs about Webhooks: types, what counts as delivered, and how often an *)
(* event is tried.                                                          *)
(***************************************************************************)
EXTENDS Webhooks, FiniteSetTheorems, TLAPS

\* An event has been tried once if it is under way, oftener before it is given
\* up, and every request is one of its attempts.
AttemptsOK ==
  /\ \A e \in Event : /\ at[e] = "new" => attempt[e] = 0
                      /\ at[e] = "task" => attempt[e] >= 1
                      /\ at[e] \in {"timer", "mailbox"} => attempt[e] < Retries
                      /\ at[e] = "gave_up" => attempt[e] = Retries

WInv == TypeOK /\ AttemptsOK /\ DeliveredWasProcessed

LEMMA WInit == Init => WInv
  BY ConstAssumption DEF Init, WInv, TypeOK, AttemptsOK, DeliveredWasProcessed, Place

\* A dispatch either tries an event once more or drops it.
LEMMA DispatchStep ==
  ASSUME WInv, NEW e \in Event, attempt[e] < Retries, at[e] \in {"new", "mailbox"},
         Dispatch(e), UNCHANGED <<processed, process, pool, crashes>>
  PROVE  WInv'
<1>1. CASE /\ Put(e, "task")
           /\ attempt' = [attempt EXCEPT ![e] = @ + 1]
           /\ onWire' = onWire \union {[event |-> e, attempt |-> attempt[e] + 1]}
  <2>1. attempt[e] + 1 \in 1 .. Retries
    BY ConstAssumption DEF WInv, TypeOK
  <2>2. onWire' \subseteq Request
    BY <1>1, <2>1 DEF WInv, TypeOK, Request
  <2>3. attempt' \in [Event -> 0 .. Retries] /\ attempt'[e] >= 1
    BY <1>1, <2>1, ConstAssumption DEF WInv, TypeOK
  <2>4. TypeOK'
    BY <1>1, <2>2, <2>3 DEF WInv, TypeOK, Put, Place
  <2>5. AttemptsOK'
    BY <1>1, <2>3 DEF WInv, TypeOK, AttemptsOK, Put
  <2>6. DeliveredWasProcessed'
    BY <1>1 DEF WInv, TypeOK, DeliveredWasProcessed, Put
  <2> QED
    BY <2>4, <2>5, <2>6 DEF WInv
<1>2. CASE Put(e, "dropped") /\ UNCHANGED <<attempt, onWire>>
  BY <1>2 DEF WInv, TypeOK, AttemptsOK, DeliveredWasProcessed, Put, Place
<1> QED
  BY <1>1, <1>2 DEF Dispatch

LEMMA ProcessDownStep == ASSUME WInv, ProcessDown, crashes' \in 0 .. MaxCrashes PROVE WInv'
  BY DEF WInv, TypeOK, AttemptsOK, DeliveredWasProcessed, ProcessDown, Place

LEMMA WEvent == ASSUME WInv, NEW e \in Event, Emit(e) \/ Progress(e) PROVE WInv'
<1>1. CASE Emit(e)
  <2>1. CASE Dispatch(e)
    <3>1. attempt[e] < Retries
      BY <1>1, ConstAssumption DEF Emit, WInv, AttemptsOK
    <3> QED
      BY <1>1, <2>1, <3>1, DispatchStep DEF Emit
  <2>2. CASE Put(e, "lost") /\ UNCHANGED <<attempt, onWire>>
    BY <1>1, <2>2 DEF Emit, WInv, TypeOK, AttemptsOK, DeliveredWasProcessed, Put, Place
  <2> QED
    BY <1>1, <2>1, <2>2 DEF Emit
<1>2. CASE TimerFires(e)
  BY <1>2 DEF TimerFires, WInv, TypeOK, AttemptsOK, DeliveredWasProcessed, Put, Place
<1>3. CASE HandleRetry(e)
  <2>1. attempt[e] < Retries
    BY <1>3 DEF HandleRetry, WInv, AttemptsOK
  <2> QED
    BY <1>3, <2>1, DispatchStep DEF HandleRetry
<1>4. CASE RetryExits(e)
  BY <1>4, ProcessDownStep DEF RetryExits, WInv, TypeOK
<1>5. CASE Succeed(e)
  <2>1. \E q \in processed : q.event = e
    BY <1>5 DEF Succeed, Last
  <2> QED
    BY <1>5, <2>1 DEF Succeed, WInv, TypeOK, AttemptsOK, DeliveredWasProcessed, Put, Place
<1>6. CASE Reject(e)
  BY <1>6 DEF Reject, WInv, TypeOK, AttemptsOK, DeliveredWasProcessed, Put, Place
<1>7. CASE Fail(e)
  <2>1. attempt[e] \in 0 .. Retries /\ Retries \in Nat
    BY ConstAssumption DEF WInv, TypeOK
  <2>2. IF Exhausted(e) THEN attempt[e] = Retries ELSE attempt[e] < Retries
    BY <2>1 DEF Exhausted
  <2> QED
    BY <1>7, <2>2 DEF Fail, WInv, TypeOK, AttemptsOK, DeliveredWasProcessed, Put, Place
<1> QED
  BY <1>1, <1>2, <1>3, <1>4, <1>5, <1>6, <1>7 DEF Progress

LEMMA WStep == WInv /\ [Next]_vars => WInv'
<1> SUFFICES ASSUME WInv, [Next]_vars PROVE WInv'
  OBVIOUS
<1>1. CASE UNCHANGED vars
  BY <1>1 DEF vars, WInv, TypeOK, AttemptsOK, DeliveredWasProcessed
<1>2. ASSUME NEW q \in onWire, Process(q) \/ Lose(q) PROVE WInv'
  BY <1>2 DEF Process, Lose, WInv, TypeOK, AttemptsOK, DeliveredWasProcessed
<1>3. CASE ProcessCrash
  <2>1. crashes' \in 0 .. MaxCrashes
    BY <1>3, ConstAssumption DEF ProcessCrash, WInv, TypeOK
  <2> QED
    BY <1>3, <2>1, ProcessDownStep DEF ProcessCrash
<1>4. CASE PoolCrash
  <2>1. crashes' \in 0 .. MaxCrashes
    BY <1>4, ConstAssumption DEF PoolCrash, WInv, TypeOK
  <2> QED
    BY <1>4, <2>1 DEF PoolCrash, WInv, TypeOK, AttemptsOK, DeliveredWasProcessed, Place
<1>5. CASE Restart
  BY <1>5 DEF Restart, WInv, TypeOK, AttemptsOK, DeliveredWasProcessed
<1> QED
  BY <1>1, <1>2, <1>3, <1>4, <1>5, WEvent DEF Next

\* The requests of one event are told apart by their attempt.
LEMMA RequestsOfEvent ==
  ASSUME TypeOK, NEW e \in Event
  PROVE  Cardinality({q \in processed : q.event = e}) <= Retries
<1> DEFINE Q == {q \in processed : q.event = e}
           f == [q \in Q |-> q.attempt]
<1>1. IsFiniteSet(1 .. Retries) /\ Cardinality(1 .. Retries) = Retries
  BY FS_Interval, ConstAssumption
<1>2. \A q \in Q : q \in Request /\ q.event = e
  BY DEF TypeOK
<1>3. f \in [Q -> 1 .. Retries]
  BY <1>2 DEF Request
<1>4. \A q, o \in Q : f[q] = f[o] => q = o
  BY <1>2 DEF Request
<1>5. f \in Injection(Q, 1 .. Retries)
  BY <1>3, <1>4 DEF Injection, IsInjective
<1> HIDE DEF f, Q
<1>6. Cardinality(Q) <= Cardinality(1 .. Retries)
  BY <1>1, <1>5, FS_Injection
<1> QED
  BY <1>1, <1>6 DEF Q

LEMMA WInvariant == Spec => []WInv
  BY WInit, WStep, PTL DEF Spec

\* Every variable keeps its type: in particular no event is tried oftener than
\* webhook_retries.
THEOREM TypeCorrect == Spec => []TypeOK
  BY WInvariant, PTL DEF WInv

\* An event that counts as delivered was processed by the receiver, whatever
\* was lost, answered late or crashed.
THEOREM DeliveryCorrect == Spec => []DeliveredWasProcessed
  BY WInvariant, PTL DEF WInv

\* An event is given up only after webhook_retries attempts, and a receiver
\* processes it at most that often.
THEOREM RetriesCorrect == Spec => []TriedAsConfigured
<1>1. WInv => TriedAsConfigured
  BY RequestsOfEvent DEF WInv, AttemptsOK, TriedAsConfigured
<1> QED
  BY <1>1, WInvariant, PTL
-----------------------------------------------------------------------------
(* Refinement of Delivery *)

\* A request under way has not been processed, and is of an attempt that began.
RequestsOK ==
  /\ onWire \intersect processed = {}
  /\ \A q \in onWire \union processed : q.attempt <= attempt[q.event]

LEMMA RequestsInit == Init => RequestsOK
  BY DEF Init, RequestsOK

\* A dispatch uses an attempt that no request has yet.
LEMMA RequestsDispatch ==
  ASSUME TypeOK, RequestsOK, NEW e \in Event, Dispatch(e), processed' = processed
  PROVE  RequestsOK'
<1>0. /\ \A d \in Event : attempt[d] \in Nat
      /\ \A q \in onWire \union processed : q.event \in Event /\ q.attempt \in Nat
  BY ConstAssumption DEF TypeOK, Request
<1>1. CASE UNCHANGED <<attempt, onWire>>
  BY <1>1 DEF RequestsOK
<1>2. CASE /\ attempt' = [attempt EXCEPT ![e] = @ + 1]
           /\ onWire' = onWire \union {[event |-> e, attempt |-> attempt[e] + 1]}
  <2>1. /\ attempt'[e] = attempt[e] + 1
        /\ \A d \in Event \ {e} : attempt'[d] = attempt[d]
    BY <1>2 DEF TypeOK
  <2>2. [event |-> e, attempt |-> attempt[e] + 1] \notin processed
    BY <1>0 DEF RequestsOK
  <2>3. onWire' \intersect processed' = {}
    BY <1>2, <2>2 DEF RequestsOK
  <2>4. ASSUME NEW q \in onWire' \union processed' PROVE q.attempt <= attempt'[q.event]
    <3>1. CASE q = [event |-> e, attempt |-> attempt[e] + 1]
      BY <1>0, <2>1, <3>1
    <3>2. CASE q \in onWire \union processed
      <4>1. q.event \in Event /\ q.attempt \in Nat /\ q.attempt <= attempt[q.event]
        BY <1>0, <3>2 DEF RequestsOK
      <4> QED
        BY <1>0, <2>1, <4>1
    <3> QED
      BY <1>2, <2>4, <3>1, <3>2
  <2> QED
    BY <2>3, <2>4 DEF RequestsOK
<1> QED
  BY <1>1, <1>2 DEF Dispatch

LEMMA RequestsStep == WInv /\ RequestsOK /\ [Next]_vars => RequestsOK'
<1> SUFFICES ASSUME WInv, RequestsOK, [Next]_vars PROVE RequestsOK'
  OBVIOUS
<1>1. ASSUME NEW e \in Event, Dispatch(e), processed' = processed PROVE RequestsOK'
  BY <1>1, RequestsDispatch DEF WInv
<1>2. ASSUME onWire' \subseteq onWire, processed' = processed, attempt' = attempt PROVE RequestsOK'
  BY <1>2 DEF RequestsOK
<1>3. ASSUME NEW q \in onWire, Process(q) PROVE RequestsOK'
  BY <1>3 DEF Process, RequestsOK
<1>4. ASSUME NEW e \in Event, Emit(e) \/ HandleRetry(e) PROVE RequestsOK'
  BY <1>1, <1>2, <1>4 DEF Emit, HandleRetry
<1>5. ASSUME NEW e \in Event, TimerFires(e) \/ RetryExits(e) \/ Succeed(e) \/ Reject(e) \/ Fail(e) PROVE RequestsOK'
  BY <1>2, <1>5 DEF TimerFires, RetryExits, ProcessDown, Succeed, Reject, Fail
<1>6. ASSUME NEW q \in onWire, Lose(q) PROVE RequestsOK'
  BY <1>2, <1>6 DEF Lose
<1>7. CASE ProcessCrash \/ PoolCrash \/ Restart \/ UNCHANGED vars
  BY <1>2, <1>7 DEF ProcessCrash, ProcessDown, PoolCrash, Restart, vars
<1> QED
  BY <1>3, <1>4, <1>5, <1>6, <1>7 DEF Next, Progress

OutcomeMap == [e \in Event |-> Outcome(e)]
CopiesMap == [e \in Event |-> Copies(e)]

LEMMA OutcomeIs ==
  ASSUME NEW e
  PROVE  /\ at[e] = "new" => Outcome(e) = "none"
         /\ at[e] \in {"task", "timer", "mailbox"} => Outcome(e) = "pending"
         /\ at[e] = "delivered" => Outcome(e) = "delivered"
         /\ at[e] \in {"refused", "gave_up", "dropped", "lost"} => Outcome(e) = "failed"
  BY DEF Outcome

\* What becomes of an event's outcome when the event moves from place to place.
LEMMA Moved ==
  ASSUME TypeOK, NEW e \in Event, NEW x \in Place, at' = [at EXCEPT ![e] = x]
  PROVE  /\ \A d \in Event \ {e} : OutcomeMap'[d] = OutcomeMap[d]
         /\ x \in {"task", "timer", "mailbox"} => OutcomeMap' = [OutcomeMap EXCEPT ![e] = "pending"]
         /\ x = "delivered" => OutcomeMap' = [OutcomeMap EXCEPT ![e] = "delivered"]
         /\ x \in {"refused", "gave_up", "dropped", "lost"} => OutcomeMap' = [OutcomeMap EXCEPT ![e] = "failed"]
<1>1. at'[e] = x /\ \A d \in Event \ {e} : at'[d] = at[d]
  BY DEF TypeOK
<1>2. \A d \in Event \ {e} : Outcome(d)' = Outcome(d)
  BY <1>1 DEF Outcome
<1>3. /\ x \in {"task", "timer", "mailbox"} => Outcome(e)' = "pending"
      /\ x = "delivered" => Outcome(e)' = "delivered"
      /\ x \in {"refused", "gave_up", "dropped", "lost"} => Outcome(e)' = "failed"
  BY <1>1 DEF Outcome
<1> QED
  BY <1>2, <1>3 DEF OutcomeMap

LEMMA SameCopies == ASSUME processed' = processed PROVE CopiesMap' = CopiesMap
  BY DEF CopiesMap, Copies

\* An event that is under way fails, and so do those that a crash takes along.
LEMMA Fails ==
  ASSUME TypeOK, NEW F \in SUBSET Event, CopiesMap' = CopiesMap,
         \A e \in F : at[e] \in {"task", "timer", "mailbox"} /\ at'[e] \in {"refused", "gave_up", "dropped", "lost"},
         \A e \in Event \ F : at'[e] = at[e]
  PROVE  Delivered!Next
<1>1. \A e \in F : Outcome(e) = "pending" /\ Outcome(e)' = "failed"
  BY DEF Outcome
<1>2. \A e \in Event \ F : Outcome(e)' = Outcome(e)
  BY DEF Outcome
<1>3. OutcomeMap' = [e \in Event |-> IF e \in F THEN "failed" ELSE OutcomeMap[e]]
  BY <1>1, <1>2 DEF OutcomeMap
<1>4. Delivered!Fail(F)
  BY <1>1, <1>3 DEF Delivered!Fail, OutcomeMap, CopiesMap
<1> QED
  BY <1>4 DEF Delivered!Next

\* An event moves on between its task, its timer and the mailbox.
LEMMA StillPending ==
  ASSUME TypeOK, NEW e \in Event, NEW x \in {"task", "timer", "mailbox"}, Put(e, x),
         at[e] \in {"task", "timer", "mailbox"}, processed' = processed
  PROVE  OutcomeMap' = OutcomeMap /\ CopiesMap' = CopiesMap
<1>1. OutcomeMap' = [OutcomeMap EXCEPT ![e] = "pending"]
  BY Moved DEF Put, Place
<1>2. OutcomeMap[e] = "pending"
  BY OutcomeIs DEF OutcomeMap
<1> QED
  BY <1>1, <1>2, SameCopies DEF OutcomeMap

LEMMA OneFails ==
  ASSUME TypeOK, NEW e \in Event, NEW x \in {"refused", "gave_up", "dropped", "lost"}, Put(e, x),
         at[e] \in {"task", "timer", "mailbox"}, processed' = processed
  PROVE  Delivered!Next
<1>1. at'[e] = x /\ \A d \in Event \ {e} : at'[d] = at[d]
  BY DEF TypeOK, Put
<1> QED
  BY <1>1, Fails, SameCopies

LEMMA Offered ==
  ASSUME TypeOK, NEW e \in Event, Emit(e)
  PROVE  Delivered!Next
<1>1. PICK x \in {"task", "dropped", "lost"} : at' = [at EXCEPT ![e] = x]
  BY DEF Emit, Dispatch, Put
<1>2. OutcomeMap[e] = "none"
  BY OutcomeIs DEF Emit, OutcomeMap
<1>3. \E o \in {"pending", "failed"} : OutcomeMap' = [OutcomeMap EXCEPT ![e] = o]
  BY <1>1, Moved DEF Place
<1>4. CopiesMap' = CopiesMap
  BY SameCopies DEF Emit
<1>5. Delivered!Offer(e)
  BY <1>2, <1>3, <1>4 DEF Delivered!Offer, OutcomeMap, CopiesMap
<1> QED
  BY <1>5 DEF Delivered!Next

LEMMA Confirmed ==
  ASSUME TypeOK, NEW e \in Event, Succeed(e)
  PROVE  Delivered!Next
<1>1. OutcomeMap[e] = "pending"
  BY OutcomeIs DEF Succeed, OutcomeMap
<1>2. OutcomeMap' = [OutcomeMap EXCEPT ![e] = "delivered"]
  BY Moved DEF Succeed, Put, Place
<1>3. CopiesMap[e] # {}
  BY DEF Succeed, Last, CopiesMap, Copies
<1>4. CopiesMap' = CopiesMap
  BY SameCopies DEF Succeed
<1>5. Delivered!Confirm(e)
  BY <1>1, <1>2, <1>3, <1>4 DEF Delivered!Confirm, OutcomeMap, CopiesMap
<1> QED
  BY <1>5 DEF Delivered!Next

LEMMA Arrived ==
  ASSUME WInv, RequestsOK, NEW q \in onWire, Process(q)
  PROVE  Delivered!Next
<1> DEFINE e == q.event
           n == q.attempt
<1>1. /\ e \in Event /\ n \in 1 .. Retries /\ q = [event |-> e, attempt |-> n]
      /\ n <= attempt[e] /\ q \notin processed
  BY DEF WInv, TypeOK, RequestsOK, Request
<1>2. OutcomeMap[e] # "none"
  <2>1. at[e] # "new" /\ at[e] \in Place
    <3>1. attempt[e] # 0
      BY <1>1, ConstAssumption
    <3> QED
      BY <1>1, <3>1 DEF WInv, TypeOK, AttemptsOK
  <2> QED
    BY <1>1, <2>1 DEF OutcomeMap, Outcome, Place
<1>3. \A r \in processed : r = [event |-> r.event, attempt |-> r.attempt]
  BY DEF WInv, TypeOK, Request
<1>4. n \notin Copies(e)
  BY <1>1, <1>3 DEF Copies
<1>5. CopiesMap' = [CopiesMap EXCEPT ![e] = @ \union {n}]
  <2>1. Copies(e)' = Copies(e) \union {n}
    BY DEF Process, Copies
  <2>2. \A d \in Event \ {e} : Copies(d)' = Copies(d)
    BY DEF Process, Copies
  <2> QED
    BY <1>1, <2>1, <2>2 DEF CopiesMap
<1>6. OutcomeMap' = OutcomeMap
  BY DEF Process, OutcomeMap, Outcome
<1>7. Delivered!Arrive(e, n)
  BY <1>1, <1>2, <1>4, <1>5, <1>6 DEF Delivered!Arrive, OutcomeMap, CopiesMap
<1> QED
  BY <1>1, <1>7 DEF Delivered!Next

\* Every step is a step of Delivery or leaves outcomes and copies alone: a
\* settled outcome is final, and no attempt is processed twice, whatever is
\* lost, late or down.
THEOREM ImplementsDelivery == Spec => DeliverySafe
<1>1. Init => Delivered!Init
  BY DEF Init, Delivered!Init, Outcome, Copies
<1>2. ASSUME WInv, RequestsOK, [Next]_vars
      PROVE  Delivered!Next \/ (OutcomeMap' = OutcomeMap /\ CopiesMap' = CopiesMap)
  <2>0. TypeOK
    BY <1>2 DEF WInv
  <2>1. ASSUME NEW e \in Event, TimerFires(e)
        PROVE  Delivered!Next \/ (OutcomeMap' = OutcomeMap /\ CopiesMap' = CopiesMap)
    BY <2>0, <2>1, StillPending, OneFails DEF TimerFires
  <2>2. ASSUME NEW e \in Event, HandleRetry(e)
        PROVE  Delivered!Next \/ (OutcomeMap' = OutcomeMap /\ CopiesMap' = CopiesMap)
    BY <2>0, <2>2, StillPending, OneFails DEF HandleRetry, Dispatch
  <2>3. ASSUME NEW e \in Event, Reject(e) \/ Fail(e)
        PROVE  Delivered!Next \/ (OutcomeMap' = OutcomeMap /\ CopiesMap' = CopiesMap)
    BY <2>0, <2>3, StillPending, OneFails DEF Reject, Fail
  <2>4. ASSUME ProcessDown PROVE Delivered!Next
    <3> DEFINE F == {e \in Event : at[e] = "mailbox"}
    <3>1. /\ \A e \in F : at[e] = "mailbox" /\ at'[e] = "lost"
          /\ \A e \in Event \ F : at'[e] = at[e]
          /\ CopiesMap' = CopiesMap /\ F \in SUBSET Event
      BY <2>4, SameCopies DEF ProcessDown
    <3> HIDE DEF F
    <3> QED
      BY <2>0, <3>1, Fails
  <2>5. ASSUME PoolCrash PROVE Delivered!Next
    <3> DEFINE F == {e \in Event : at[e] = "task"}
    <3>1. /\ \A e \in F : at[e] = "task" /\ at'[e] = "lost"
          /\ \A e \in Event \ F : at'[e] = at[e]
          /\ CopiesMap' = CopiesMap /\ F \in SUBSET Event
      BY <2>5, SameCopies DEF PoolCrash
    <3> HIDE DEF F
    <3> QED
      BY <2>0, <3>1, Fails
  <2>6. ASSUME at' = at, processed' = processed PROVE OutcomeMap' = OutcomeMap /\ CopiesMap' = CopiesMap
    BY <2>6, SameCopies DEF OutcomeMap, Outcome
  <2>7. ASSUME (\E q \in onWire : Lose(q)) \/ Restart \/ UNCHANGED vars
        PROVE  OutcomeMap' = OutcomeMap /\ CopiesMap' = CopiesMap
    BY <2>6, <2>7 DEF Lose, Restart, vars
  <2>8. ASSUME NEW e \in Event, Emit(e) \/ Succeed(e) \/ RetryExits(e) PROVE Delivered!Next
    BY <2>0, <2>4, <2>8, Offered, Confirmed DEF RetryExits
  <2> QED
    BY <1>2, <2>1, <2>2, <2>3, <2>4, <2>5, <2>7, <2>8, Arrived DEF Next, Progress, ProcessCrash
<1>3. WInv /\ RequestsOK /\ [Next]_vars => [Delivered!Next]_(Delivered!vars)
  BY <1>2 DEF Delivered!vars, OutcomeMap, CopiesMap
<1>4. Spec => []RequestsOK
  BY RequestsInit, RequestsStep, WInvariant, PTL DEF Spec
<1>5. DeliverySafe <=> Delivered!Init /\ [][Delivered!Next]_(Delivered!vars)
  BY DEF DeliverySafe, Delivered!Spec
<1> QED
  BY <1>1, <1>3, <1>4, <1>5, WInvariant, PTL DEF Spec
=============================================================================
