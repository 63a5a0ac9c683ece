------------------------------ MODULE Room_proofs ----------------------------
(***************************************************************************)
(* Proofs about Room: every variable keeps its type, the registry counts    *)
(* right, the backend is told of every change between empty and occupied,   *)
(* and a member misses no message, and is replayed none out of order.       *)
(***************************************************************************)
EXTENDS Room, FiniteSetTheorems, SequenceTheorems, TLAPS

-----------------------------------------------------------------------------
(* Types *)

LEMMA MsgType == ASSUME NEW s \in Sender, NEW n \in 1 .. Sends[s] PROVE Msg(s, n) \in Message
  BY DEF Msg, Message

LEMMA MessageFrom == ASSUME NEW m \in Message PROVE m.from \in Sender
  BY DEF Message

LEMMA MessageNth == ASSUME NEW m \in Message PROVE m.nth \in Nat
  BY ConstAssumption DEF Message

LEMMA TakeType ==
  ASSUME NEW S, NEW seq \in Seq(S), NEW n \in Nat
  PROVE  Take(n, seq) \in Seq(S)
  BY SubSeqProperties, LenProperties DEF Take

LEMMA TypeInit == Init => TypeOK
  BY ConstAssumption DEF Init, TypeOK

\* Telling the registry, and telling the replay buffer.
LEMMA RegistryCastType ==
  ASSUME TypeOK, NEW p \in Pid, NEW c \in {Joined(p), Left(p)}, CastToRegistry(c)
  PROVE  /\ casts' \subseteq [kind : {"joined", "left"}, pid : Pid]
         /\ disturbed' \subseteq Room
  BY ConstAssumption DEF TypeOK, CastToRegistry, Joined, Left, Sender

LEMMA RecordType ==
  ASSUME TypeOK, NEW m \in Message, RecordMessage(m)
  PROVE  /\ records' \subseteq Message
         /\ gone' \subseteq Message
  BY DEF TypeOK, RecordMessage

LEMMA DeliverType ==
  ASSUME TypeOK, NEW m \in Message, Deliver(m)
  PROVE  /\ said' \subseteq Message
         /\ heard' \in [Pid -> SUBSET Message]
  BY DEF TypeOK, Deliver

LEMMA TypeMember == ASSUME TypeOK, NEW p \in Pid, Member(p) PROVE TypeOK'
<1> p \in Sender
  BY DEF Sender
<1>1. CASE Refuse(p)
  BY <1>1 DEF TypeOK, Refuse, Goto, registryVars, historyVars
<1>2. CASE Join(p)
  BY <1>2, RegistryCastType DEF TypeOK, Join, Goto, CastToRegistry, historyVars
<1>3. CASE Subscribe(p)
  BY <1>3 DEF TypeOK, Subscribe, Goto, registryVars, historyVars
<1>4. CASE Replay(p)
  <2> DEFINE r == RoomOf[p]
  <2>1. r \in Room
    BY ConstAssumption
  <2>2. [i \in 1 .. Len(buffers[r]) |-> buffers[r][Len(buffers[r]) + 1 - i]] \in Seq(Message)
    <3>1. buffers[r] \in Seq(Message) /\ Len(buffers[r]) \in Nat
      BY <2>1 DEF TypeOK
    <3>2. \A i \in 1 .. Len(buffers[r]) : buffers[r][Len(buffers[r]) + 1 - i] \in Message
      BY <3>1, ElementOfSeq
    <3> QED
      BY <3>1, <3>2, IsASeq
  <2>3. replay' \in [Pid -> Seq(Message)]
    BY <1>4, <2>2 DEF TypeOK, Replay
  <2>4. late' \in [Pid -> SUBSET Message]
    BY <1>4 DEF TypeOK, Replay
  <2> QED
    BY <1>4, <2>3, <2>4 DEF TypeOK, Replay, Goto, registryVars, historyVars
<1>5. CASE Record(p)
  <2>a. sent[p] \in Nat /\ Sends[p] \in Nat /\ sent[p] < Sends[p]
    BY <1>5, ConstAssumption DEF TypeOK, Record
  <2>b. sent[p] + 1 \in 1 .. Sends[p]
    BY <2>a
  <2>1. Msg(p, sent[p] + 1) \in Message
    BY <2>b, MsgType
  <2>2. records' \subseteq Message /\ gone' \subseteq Message
    BY <1>5, <2>1, RecordType DEF Record
  <2>3. sent' \in [Sender -> Nat] /\ \A s \in Sender : sent'[s] <= Sends[s]
    <3>1. sent' = [sent EXCEPT ![p] = sent[p] + 1]
      BY <1>5 DEF Record
    <3> QED
      BY <2>b, <3>1 DEF TypeOK
  <2>4. \A s \in Sender : pc'[s] = "saying" => sent'[s] > 0
    BY <1>5 DEF TypeOK, Record, Goto
  <2> QED
    BY <1>5, <2>2, <2>3, <2>4 DEF TypeOK, Record, RecordMessage, Goto, registryVars
<1>6. CASE Say(p)
  <2>1. Msg(p, sent[p]) \in Message
    BY <1>6, MsgType, ConstAssumption DEF TypeOK, Say
  <2>2. said' \subseteq Message /\ heard' \in [Pid -> SUBSET Message]
    BY <1>6, <2>1, DeliverType DEF Say
  <2> QED
    BY <1>6, <2>2 DEF TypeOK, Say, Deliver, Goto, registryVars, historyVars
<1>7. CASE Terminate(p)
  <2>1. replay' \in [Pid -> Seq(Message)]
    BY <1>7 DEF TypeOK, Terminate, Forget
  <2> QED
    BY <1>7, <2>1, RegistryCastType DEF TypeOK, Terminate, Forget, Goto, CastToRegistry, historyVars
<1>8. CASE Kill(p)
  <2>1. replay' \in [Pid -> Seq(Message)]
    BY <1>8 DEF TypeOK, Kill, Forget
  <2> QED
    BY <1>8, <2>1, ConstAssumption DEF TypeOK, Kill, Forget, Goto, historyVars
<1> QED
  BY <1>1, <1>2, <1>3, <1>4, <1>5, <1>6, <1>7, <1>8 DEF Member

LEMMA TypeApi == ASSUME TypeOK, NEW a \in Api, ApiSay(a) \/ ApiRecord(a) PROVE TypeOK'
<1> a \in Sender
  BY DEF Sender
<1>1. CASE ApiSay(a)
  <2>a. sent[a] \in Nat /\ Sends[a] \in Nat /\ sent[a] < Sends[a]
    BY <1>1, ConstAssumption DEF TypeOK, ApiSay
  <2>b. sent[a] + 1 \in 1 .. Sends[a]
    BY <2>a
  <2>1. Msg(a, sent[a] + 1) \in Message
    BY <2>b, MsgType
  <2>2. said' \subseteq Message /\ heard' \in [Pid -> SUBSET Message]
    BY <1>1, <2>1, DeliverType DEF ApiSay
  <2>3. sent' \in [Sender -> Nat] /\ \A s \in Sender : sent'[s] <= Sends[s]
    <3>1. sent' = [sent EXCEPT ![a] = sent[a] + 1]
      BY <1>1 DEF ApiSay
    <3> QED
      BY <2>b, <3>1 DEF TypeOK
  <2>4. \A s \in Sender : pc'[s] = "saying" => sent'[s] > 0
    BY <1>1 DEF TypeOK, ApiSay, Goto
  <2> QED
    BY <1>1, <2>2, <2>3, <2>4 DEF TypeOK, ApiSay, Deliver, Goto, registryVars, historyVars
<1>2. CASE ApiRecord(a)
  <2>1. Msg(a, sent[a]) \in Message
    BY <1>2, MsgType, ConstAssumption DEF TypeOK, ApiRecord
  <2>2. records' \subseteq Message /\ gone' \subseteq Message
    BY <1>2, <2>1, RecordType DEF ApiRecord
  <2> QED
    BY <1>2, <2>2 DEF TypeOK, ApiRecord, RecordMessage, Goto, registryVars
<1> QED
  BY <1>1, <1>2

LEMMA TypeRegistry == ASSUME TypeOK, Registry \/ RegistryCrash PROVE TypeOK'
<1>1. CASE Emit
  BY <1>1 DEF TypeOK, Emit, RoomEvent, channelVars, historyVars
<1>2. CASE RegistryRestart
  BY <1>2 DEF TypeOK, RegistryRestart, channelVars, historyVars
<1>3. ASSUME NEW p \in Pid, HandleJoined(p) PROVE TypeOK'
  <2>1. RoomOf[p] \in Room
    BY ConstAssumption DEF Sender
  <2> QED
    BY <1>3, <2>1 DEF TypeOK, HandleJoined, RoomEvent, channelVars, historyVars
<1>4. ASSUME NEW p \in Pid, HandleLeft(p) PROVE TypeOK'
  <2>1. RoomOf[p] \in Room
    BY ConstAssumption DEF Sender
  <2>2. \A n \in Nat : CountOut(n) \in Nat
    BY DEF CountOut
  <2>3. counts' \in [Room -> Nat]
    BY <1>4, <2>1, <2>2 DEF TypeOK, HandleLeft
  <2> QED
    BY <1>4, <2>1, <2>3 DEF TypeOK, HandleLeft, RoomEvent, channelVars, historyVars
<1>5. CASE RegistryCrash
  <2>1. \A c \in casts : RoomOf[c.pid] \in Room
    BY ConstAssumption DEF TypeOK, Sender
  <2>2. toEmit # NoEvent => toEmit.room \in Room
    BY DEF TypeOK, RoomEvent
  <2>3. disturbed' \subseteq Room
    BY <1>5, <2>1, <2>2 DEF TypeOK, RegistryCrash
  <2>4. crashes' \in 0 .. MaxCrashes
    BY <1>5, ConstAssumption DEF TypeOK, RegistryCrash
  <2> QED
    BY <1>5, <2>3, <2>4 DEF TypeOK, RegistryCrash, channelVars, historyVars
<1> QED
  BY <1>1, <1>2, <1>3, <1>4, <1>5 DEF Registry

LEMMA TypeHistory == ASSUME TypeOK, History \/ HistoryCrash \/ (\E r \in Room : Age(r)) PROVE TypeOK'
<1>1. CASE Sweep
  <2>1. \A r \in Room : Handled(r) \subseteq Message
    BY DEF Handled
  <2>2. gone' \subseteq Message
    BY <1>1, <2>1 DEF TypeOK, Sweep
  <2>3. buffers' \in [Room -> Seq(Message)]
    BY <1>1 DEF TypeOK, Sweep
  <2> QED
    BY <1>1, <2>2, <2>3 DEF TypeOK, Sweep, channelVars, registryVars
<1>2. CASE HistoryRestart
  BY <1>2 DEF TypeOK, HistoryRestart, channelVars, registryVars
<1>3. ASSUME NEW m \in records, HandleRecord(m) PROVE TypeOK'
  <2>1. m \in Message /\ MessageRoom(m) \in Room
    BY <1>3, MessageFrom, ConstAssumption DEF TypeOK, MessageRoom
  <2>2. \A b \in Seq(Message) : <<m>> \o b \in Seq(Message)
    BY <2>1, ConcatProperties
  <2>3. \A b \in Seq(Message) : Prepend(m, b) \in Seq(Message)
    BY <2>2, TakeType, ConstAssumption DEF Prepend
  <2>4. buffers' \in [Room -> Seq(Message)]
    BY <1>3, <2>1, <2>3 DEF TypeOK, HandleRecord
  <2> QED
    BY <1>3, <2>1, <2>4 DEF TypeOK, HandleRecord, channelVars, registryVars
<1>4. CASE HistoryCrash
  <2>1. crashes' \in 0 .. MaxCrashes
    BY <1>4, ConstAssumption DEF TypeOK, HistoryCrash
  <2> QED
    BY <1>4, <2>1 DEF TypeOK, HistoryCrash, channelVars, registryVars
<1>5. ASSUME NEW r \in Room, Age(r) PROVE TypeOK'
  BY <1>5 DEF TypeOK, Age, channelVars, registryVars
<1> QED
  BY <1>1, <1>2, <1>3, <1>4, <1>5 DEF History

LEMMA TypeStep == TypeOK /\ [Next]_vars => TypeOK'
<1> SUFFICES ASSUME TypeOK, [Next]_vars PROVE TypeOK'
  OBVIOUS
<1>1. CASE UNCHANGED vars
  BY <1>1 DEF TypeOK, vars, channelVars, registryVars, historyVars
<1> QED
  BY <1>1, TypeMember, TypeApi, TypeRegistry, TypeHistory DEF Next

\* Every variable keeps its type, whatever the processes, the requests and the
\* two workers do.
THEOREM TypeCorrect == Spec => []TypeOK
  BY TypeInit, TypeStep, PTL DEF Spec

-----------------------------------------------------------------------------
(* Counts *)

\* Casts come from processes that have got so far, and a mailbox nobody owns is
\* empty.
CastsOK ==
  /\ \A p \in Pid : Joined(p) \in casts => pc[p] \notin {"new", "refused"}
  /\ \A p \in Pid : Left(p) \in casts => pc[p] = "dead"
  /\ registry = "down" => casts = {} /\ toEmit = NoEvent

\* Whoever leaves before it is counted in is going to be counted out.
LeavesFollow ==
  \A p \in Pid : RoomOf[p] \notin disturbed /\ pc[p] = "dead" /\ Joined(p) \in casts
                  => Left(p) \in casts

\* An event to emit says what the table says.
EmitOK == toEmit # NoEvent => toEmit.is = IF counts[toEmit.room] > 0 THEN "occupied" ELSE "vacated"

CInv == TypeOK /\ CastsOK /\ LeavesFollow /\ EmitOK /\ CountsRight /\ BackendKnowsOccupied

LEMMA CastsDiffer ==
  /\ \A p, q \in Pid : Joined(p) # Left(q)
  /\ \A p, q \in Pid : p # q => Joined(p) # Joined(q) /\ Left(p) # Left(q)
  BY DEF Joined, Left

LEMMA CountedFinite == \A r \in Room : IsFiniteSet(CountedIn(r)) /\ Cardinality(CountedIn(r)) \in Nat
  <1>1. \A r \in Room : CountedIn(r) \subseteq Pid
    BY DEF CountedIn
  <1> QED
    BY <1>1, ConstAssumption, FS_Subset, FS_CardinalityType

\* A step that counts nobody in or out of the rooms that stay undisturbed, and
\* emits nothing, leaves the counts and the backend right.
LEMMA CountsFrame ==
  ASSUME CInv, TypeOK', disturbed \subseteq disturbed', counts' = counts, announced' = announced,
         toEmit' = toEmit,
         \A p \in Pid : RoomOf[p] \notin disturbed' => (Counted(p)' <=> Counted(p))
  PROVE  CountsRight' /\ BackendKnowsOccupied' /\ EmitOK'
<1>1. \A r \in Room \ disturbed' : CountedIn(r)' = CountedIn(r)
  BY DEF CountedIn
<1>2. CountsRight'
  BY <1>1 DEF CInv, CountsRight
<1>3. BackendKnowsOccupied'
  BY DEF CInv, BackendKnowsOccupied
<1> QED
  BY <1>2, <1>3 DEF CInv, EmitOK

LEMMA CountsInit == Init => CInv
<1> SUFFICES ASSUME Init PROVE CInv
  OBVIOUS
<1>1. TypeOK
  BY TypeInit
<1>2. CastsOK /\ LeavesFollow /\ EmitOK
  BY DEF Init, CastsOK, LeavesFollow, EmitOK
<1>3. \A r \in Room : CountedIn(r) = {}
  BY DEF Init, CountedIn, Counted, Sender
<1>4. CountsRight
  BY <1>3, FS_EmptySet DEF Init, CountsRight
<1>5. BackendKnowsOccupied
  BY DEF Init, BackendKnowsOccupied
<1> QED
  BY <1>1, <1>2, <1>4, <1>5 DEF CInv

\* Nobody is counted in or out of the rooms that stay undisturbed, and nothing
\* is emitted.
NobodyMoves ==
  /\ announced' = announced /\ disturbed \subseteq disturbed'
  /\ \A q \in Pid : RoomOf[q] \notin disturbed' => (Counted(q)' <=> Counted(q))

\* Steps in which the registry is told nothing and nobody joins or dies.
SamePart(q) ==
  /\ pc'[q] \in {"new", "refused"} <=> pc[q] \in {"new", "refused"}
  /\ pc'[q] = "dead" <=> pc[q] = "dead"

LEMMA CountsSilent ==
  ASSUME CInv, TypeOK', UNCHANGED registryVars, \A q \in Pid : SamePart(q)
  PROVE  CInv' /\ NobodyMoves
<1>1. casts' = casts /\ counts' = counts /\ toEmit' = toEmit /\ announced' = announced
      /\ registry' = registry /\ disturbed' = disturbed
  BY DEF registryVars
<1>2. \A q \in Pid : Counted(q)' <=> Counted(q)
  BY <1>1 DEF Counted, SamePart
<1>3. CastsOK'
  BY <1>1 DEF CInv, CastsOK, SamePart
<1>4. LeavesFollow'
  BY <1>1 DEF CInv, LeavesFollow, SamePart
<1> QED
  BY <1>1, <1>2, <1>3, <1>4, CountsFrame DEF CInv, NobodyMoves

LEMMA CountsMember ==
  ASSUME CInv, TypeOK', NEW p \in Pid, Member(p)
  PROVE  CInv' /\ NobodyMoves
<1>a. p \in Sender /\ Pid \subseteq Sender /\ pc \in
        [Sender -> {"new", "refused", "joining", "replay", "joined", "saying", "dead"}]
  BY DEF Sender, CInv, TypeOK
<1>1. CASE Refuse(p)
  BY <1>1, <1>a, CountsSilent DEF Refuse, Goto, SamePart
<1>2. CASE Join(p)
  <2>1. \A q \in Pid : pc'[q] = IF q = p THEN "joining" ELSE pc[q]
    BY <1>2, <1>a DEF Join, Goto
  <2>2. pc[p] = "new" /\ Left(p) \notin casts /\ Joined(p) \notin casts
    BY <1>2 DEF Join, CInv, CastsOK
  <2>3. /\ casts' = IF registry = "up" THEN casts \union {Joined(p)} ELSE casts
        /\ disturbed' = IF registry = "up" THEN disturbed ELSE disturbed \union {RoomOf[p]}
        /\ counts' = counts /\ toEmit' = toEmit /\ announced' = announced /\ registry' = registry
    BY <1>2 DEF Join, CastToRegistry, Joined
  <2>4. \A q \in Pid : /\ Left(q) \in casts' <=> Left(q) \in casts
                       /\ q # p => (Joined(q) \in casts' <=> Joined(q) \in casts)
    BY <2>3 DEF Joined, Left
  <2>5. CastsOK'
    BY <2>1, <2>2, <2>3, <2>4, CastsDiffer DEF CInv, CastsOK, TypeOK
  <2>6. LeavesFollow'
    BY <2>1, <2>3, <2>4 DEF CInv, LeavesFollow
  <2>7. \A q \in Pid : RoomOf[q] \notin disturbed' => (Counted(q)' <=> Counted(q))
    BY <2>1, <2>2, <2>3, <2>4 DEF Counted, CInv, TypeOK
  <2> QED
    BY <2>3, <2>5, <2>6, <2>7, CountsFrame DEF CInv, NobodyMoves
<1>3. CASE Subscribe(p)
  BY <1>3, <1>a, CountsSilent DEF Subscribe, Goto, SamePart
<1>4. CASE Replay(p)
  BY <1>4, <1>a, CountsSilent DEF Replay, Goto, SamePart
<1>5. CASE Record(p)
  BY <1>5, <1>a, CountsSilent DEF Record, Goto, SamePart
<1>6. CASE Say(p)
  BY <1>6, <1>a, CountsSilent DEF Say, Goto, SamePart
<1>7. CASE Terminate(p)
  <2>1. \A q \in Pid : pc'[q] = IF q = p THEN "dead" ELSE pc[q]
    BY <1>7, <1>a DEF Terminate, Forget, Goto
  <2>2. pc[p] \in {"replay", "joined", "saying"} /\ Left(p) \notin casts
    BY <1>7 DEF Terminate, CInv, CastsOK
  <2>3. /\ casts' = IF registry = "up" THEN casts \union {Left(p)} ELSE casts
        /\ disturbed' = IF registry = "up" THEN disturbed ELSE disturbed \union {RoomOf[p]}
        /\ counts' = counts /\ toEmit' = toEmit /\ announced' = announced /\ registry' = registry
    BY <1>7 DEF Terminate, CastToRegistry, Left
  <2>4. \A q \in Pid : /\ Joined(q) \in casts' <=> Joined(q) \in casts
                       /\ q # p => (Left(q) \in casts' <=> Left(q) \in casts)
    BY <2>3 DEF Joined, Left
  <2>5. CastsOK'
    BY <2>1, <2>2, <2>3, <2>4, CastsDiffer DEF CInv, CastsOK, TypeOK
  <2>6. LeavesFollow'
    BY <2>1, <2>3, <2>4 DEF CInv, LeavesFollow
  <2>7. \A q \in Pid : RoomOf[q] \notin disturbed' => (Counted(q)' <=> Counted(q))
    BY <2>1, <2>2, <2>3, <2>4 DEF Counted, CInv, TypeOK
  <2> QED
    BY <2>3, <2>5, <2>6, <2>7, CountsFrame DEF CInv, NobodyMoves
<1>8. CASE Kill(p)
  <2>1. \A q \in Pid : pc'[q] = IF q = p THEN "dead" ELSE pc[q]
    BY <1>8, <1>a DEF Kill, Forget, Goto
  <2>2. /\ pc[p] \in {"joining", "replay", "joined", "saying"}
        /\ casts' = casts /\ disturbed' = disturbed \union {RoomOf[p]}
        /\ counts' = counts /\ toEmit' = toEmit /\ announced' = announced /\ registry' = registry
    BY <1>8 DEF Kill
  <2>3. CastsOK'
    BY <2>1, <2>2 DEF CInv, CastsOK
  <2>4. LeavesFollow'
    BY <2>1, <2>2 DEF CInv, LeavesFollow
  <2>5. \A q \in Pid : RoomOf[q] \notin disturbed' => (Counted(q)' <=> Counted(q))
    BY <2>1, <2>2 DEF Counted
  <2> QED
    BY <2>2, <2>3, <2>4, <2>5, CountsFrame DEF CInv, NobodyMoves
<1> QED
  BY <1>1, <1>2, <1>3, <1>4, <1>5, <1>6, <1>7, <1>8 DEF Member

LEMMA CountsApi ==
  ASSUME CInv, TypeOK', NEW a \in Api, ApiSay(a) \/ ApiRecord(a)
  PROVE  CInv' /\ NobodyMoves
<1>1. \A q \in Pid : q # a
  BY ConstAssumption
<1>2. \A q \in Pid : pc'[q] = pc[q]
  BY <1>1 DEF ApiSay, ApiRecord, Goto, CInv, TypeOK, Sender
<1>3. UNCHANGED registryVars
  BY DEF ApiSay, ApiRecord
<1> QED
  BY <1>2, <1>3, CountsSilent DEF SamePart

\* The callbacks that count somebody in or out.
LEMMA CountsJoined == ASSUME CInv, TypeOK', NEW p \in Pid, HandleJoined(p) PROVE CInv'
<1> DEFINE r == RoomOf[p]
<1>1. r \in Room /\ registry = "up" /\ toEmit = NoEvent /\ Joined(p) \in casts
  BY ConstAssumption DEF HandleJoined, Sender
<1>2. /\ casts' = casts \ {Joined(p)}
      /\ counts' = [counts EXCEPT ![r] = counts[r] + 1]
      /\ toEmit' = IF counts[r] = 0 THEN [room |-> r, is |-> "occupied"] ELSE NoEvent
      /\ pc' = pc /\ announced' = announced /\ registry' = registry /\ disturbed' = disturbed
  BY DEF HandleJoined, channelVars
<1>3. \A q \in Pid : /\ Left(q) \in casts' <=> Left(q) \in casts
                     /\ q # p => (Joined(q) \in casts' <=> Joined(q) \in casts)
  BY <1>2 DEF Joined, Left
<1>4. CastsOK'
  BY <1>1, <1>2, <1>3 DEF CInv, CastsOK
<1>5. LeavesFollow'
  BY <1>2, <1>3 DEF CInv, LeavesFollow
<1>6. counts[r] \in Nat /\ \A t \in Room : counts'[t] = IF t = r THEN counts[r] + 1 ELSE counts[t]
  BY <1>1, <1>2 DEF CInv, TypeOK
<1>7. NoEvent \notin RoomEvent /\ [room |-> r, is |-> "occupied"] \in RoomEvent
  BY <1>1, ConstAssumption DEF RoomEvent
<1>8. EmitOK'
  BY <1>1, <1>2, <1>6 DEF EmitOK
<1>9. BackendKnowsOccupied'
  <2> SUFFICES ASSUME NEW t \in Room \ disturbed
               PROVE announced[t] = IF (counts'[t] > 0) = (toEmit' = NoEvent \/ toEmit'.room # t)
                                    THEN "occupied" ELSE "vacated"
    BY <1>2 DEF BackendKnowsOccupied
  <2>1. announced[t] = IF counts[t] > 0 THEN "occupied" ELSE "vacated"
    BY <1>1 DEF CInv, BackendKnowsOccupied
  <2>2. CASE t # r
    <3>1. counts'[t] = counts[t] /\ (toEmit' = NoEvent \/ toEmit'.room # t)
      BY <1>2, <1>6, <2>2
    <3> QED
      BY <2>1, <3>1
  <2>3. CASE t = r /\ counts[r] = 0
    <3>1. counts'[t] > 0 /\ ~(toEmit' = NoEvent \/ toEmit'.room # t) /\ ~(counts[t] > 0)
      BY <1>2, <1>6, <1>7, <2>3
    <3> QED
      BY <2>1, <3>1
  <2>4. CASE t = r /\ counts[r] # 0
    <3>1. counts'[t] > 0 /\ (toEmit' = NoEvent \/ toEmit'.room # t) /\ counts[t] > 0
      BY <1>2, <1>6, <2>4
    <3> QED
      BY <2>1, <3>1
  <2> QED
    BY <2>2, <2>3, <2>4
<1>10. CountsRight'
  <2> SUFFICES ASSUME NEW t \in Room \ disturbed
               PROVE counts'[t] = Cardinality(CountedIn(t)')
    BY <1>2 DEF CountsRight
  <2>1. \A q \in Pid : q # p => (Counted(q)' <=> Counted(q))
    BY <1>2, <1>3 DEF Counted
  <2>2. counts[t] = Cardinality(CountedIn(t)) /\ IsFiniteSet(CountedIn(t))
    BY CountedFinite DEF CInv, CountsRight
  <2>3. CASE t # r
    <3>1. CountedIn(t)' = CountedIn(t)
      BY <2>1, <2>3 DEF CountedIn
    <3> QED
      BY <1>6, <2>2, <2>3, <3>1
  <2>4. CASE t = r
    <3>1. ~Counted(p)
      BY <1>1 DEF Counted
    <3>2. Counted(p)'
      BY <1>1, <1>2, <1>3, <2>4 DEF Counted, CInv, CastsOK, LeavesFollow
    <3>3. CountedIn(t)' = CountedIn(t) \union {p} /\ p \notin CountedIn(t)
      BY <2>1, <2>4, <3>1, <3>2 DEF CountedIn
    <3>4. Cardinality(CountedIn(t) \union {p}) = Cardinality(CountedIn(t)) + 1
      BY <2>2, <3>3, FS_AddElement
    <3>5. counts'[t] = counts[t] + 1
      BY <1>6, <2>4
    <3> QED
      BY <2>2, <3>3, <3>4, <3>5
  <2> QED
    BY <2>3, <2>4
<1> QED
  BY <1>4, <1>5, <1>8, <1>9, <1>10 DEF CInv

LEMMA CountsLeft == ASSUME CInv, TypeOK', NEW p \in Pid, HandleLeft(p) PROVE CInv'
<1> DEFINE r == RoomOf[p]
<1>1. r \in Room /\ registry = "up" /\ toEmit = NoEvent /\ Left(p) \in casts /\ Joined(p) \notin casts
  BY ConstAssumption DEF HandleLeft, Sender
<1>2. /\ casts' = casts \ {Left(p)}
      /\ counts' = [counts EXCEPT ![r] = CountOut(counts[r])]
      /\ toEmit' = IF counts[r] = 1 THEN [room |-> r, is |-> "vacated"] ELSE NoEvent
      /\ pc' = pc /\ announced' = announced /\ registry' = registry /\ disturbed' = disturbed
  BY DEF HandleLeft, Vacates, channelVars
<1>3. \A q \in Pid : /\ Joined(q) \in casts' <=> Joined(q) \in casts
                     /\ q # p => (Left(q) \in casts' <=> Left(q) \in casts)
  BY <1>2 DEF Joined, Left
<1>4. CastsOK'
  BY <1>1, <1>2, <1>3 DEF CInv, CastsOK
<1>5. LeavesFollow'
  BY <1>1, <1>2, <1>3 DEF CInv, LeavesFollow
<1>6. counts[r] \in Nat /\ \A t \in Room : counts'[t] = IF t = r THEN CountOut(counts[r]) ELSE counts[t]
  BY <1>1, <1>2 DEF CInv, TypeOK
<1>7. NoEvent \notin RoomEvent /\ [room |-> r, is |-> "vacated"] \in RoomEvent
  BY <1>1, ConstAssumption DEF RoomEvent
<1>8. EmitOK'
  BY <1>1, <1>2, <1>6 DEF EmitOK, CountOut
<1>9. BackendKnowsOccupied'
  <2> SUFFICES ASSUME NEW t \in Room \ disturbed
               PROVE announced[t] = IF (counts'[t] > 0) = (toEmit' = NoEvent \/ toEmit'.room # t)
                                    THEN "occupied" ELSE "vacated"
    BY <1>2 DEF BackendKnowsOccupied
  <2>1. announced[t] = IF counts[t] > 0 THEN "occupied" ELSE "vacated"
    BY <1>1 DEF CInv, BackendKnowsOccupied
  <2>2. CASE t # r
    <3>1. counts'[t] = counts[t] /\ (toEmit' = NoEvent \/ toEmit'.room # t)
      BY <1>2, <1>6, <2>2
    <3> QED
      BY <2>1, <3>1
  <2>3. CASE t = r /\ counts[r] = 1
    <3>1. ~(counts'[t] > 0) /\ ~(toEmit' = NoEvent \/ toEmit'.room # t) /\ counts[t] > 0
      BY <1>2, <1>6, <1>7, <2>3 DEF CountOut
    <3> QED
      BY <2>1, <3>1
  <2>4. CASE t = r /\ counts[r] # 1
    <3>1. (counts'[t] > 0 <=> counts[t] > 0) /\ (toEmit' = NoEvent \/ toEmit'.room # t)
      BY <1>2, <1>6, <2>4 DEF CountOut
    <3> QED
      BY <2>1, <3>1
  <2> QED
    BY <2>2, <2>3, <2>4
<1>10. CountsRight'
  <2> SUFFICES ASSUME NEW t \in Room \ disturbed
               PROVE counts'[t] = Cardinality(CountedIn(t)')
    BY <1>2 DEF CountsRight
  <2>1. \A q \in Pid : q # p => (Counted(q)' <=> Counted(q))
    BY <1>2, <1>3 DEF Counted
  <2>2. counts[t] = Cardinality(CountedIn(t)) /\ IsFiniteSet(CountedIn(t))
    BY CountedFinite DEF CInv, CountsRight
  <2>3. CASE t # r
    <3>1. CountedIn(t)' = CountedIn(t)
      BY <2>1, <2>3 DEF CountedIn
    <3> QED
      BY <1>6, <2>2, <2>3, <3>1
  <2>4. CASE t = r
    <3>1. Counted(p)
      BY <1>1 DEF Counted, CInv, CastsOK
    <3>2. ~Counted(p)'
      BY <1>1, <1>2 DEF Counted, CInv, CastsOK
    <3>3. CountedIn(t)' = CountedIn(t) \ {p} /\ p \in CountedIn(t)
      BY <2>1, <2>4, <3>1, <3>2 DEF CountedIn
    <3>4. Cardinality(CountedIn(t) \ {p}) = Cardinality(CountedIn(t)) - 1
      BY <2>2, <3>3, FS_RemoveElement
    <3>5. counts[t] # 0
      BY <2>2, <3>3, FS_EmptySet
    <3>6. counts'[t] = counts[t] - 1
      BY <1>6, <2>4, <3>5 DEF CountOut
    <3> QED
      BY <2>2, <3>3, <3>4, <3>6
  <2> QED
    BY <2>3, <2>4
<1> QED
  BY <1>4, <1>5, <1>8, <1>9, <1>10 DEF CInv

LEMMA CountsEmit == ASSUME CInv, TypeOK', Emit PROVE CInv'
<1>1. /\ toEmit \in RoomEvent /\ toEmit # NoEvent /\ toEmit' = NoEvent
      /\ announced' = [announced EXCEPT ![toEmit.room] = toEmit.is]
      /\ casts' = casts /\ counts' = counts /\ pc' = pc /\ registry' = registry /\ disturbed' = disturbed
  BY DEF Emit, channelVars, CInv, TypeOK
<1>2. toEmit.room \in Room
  BY <1>1 DEF RoomEvent
<1>3. CastsOK' /\ LeavesFollow' /\ EmitOK'
  BY <1>1 DEF CInv, CastsOK, LeavesFollow, EmitOK
<1>4. CountsRight'
  BY <1>1 DEF CInv, CountsRight, CountedIn, Counted
<1>5. BackendKnowsOccupied'
  <2> SUFFICES ASSUME NEW t \in Room \ disturbed
               PROVE announced'[t] = IF counts[t] > 0 THEN "occupied" ELSE "vacated"
    BY <1>1 DEF BackendKnowsOccupied
  <2>1. CASE t = toEmit.room
    BY <1>1, <1>2, <2>1 DEF CInv, TypeOK, EmitOK
  <2>2. CASE t # toEmit.room
    <3>1. announced'[t] = announced[t]
      BY <1>1, <1>2, <2>2 DEF CInv, TypeOK
    <3> QED
      BY <2>2, <3>1 DEF CInv, BackendKnowsOccupied
  <2> QED
    BY <2>1, <2>2
<1> QED
  BY <1>3, <1>4, <1>5 DEF CInv

LEMMA CountsCrash == ASSUME CInv, TypeOK', RegistryCrash PROVE CInv' /\ NobodyMoves
<1>1. /\ casts' = {} /\ toEmit' = NoEvent /\ registry' = "down"
      /\ counts' = counts /\ pc' = pc /\ announced' = announced /\ disturbed \subseteq disturbed'
      /\ \A c \in casts : RoomOf[c.pid] \in disturbed'
      /\ toEmit # NoEvent => toEmit.room \in disturbed'
  BY DEF RegistryCrash, channelVars
<1>2. CastsOK' /\ LeavesFollow' /\ EmitOK'
  BY <1>1 DEF CastsOK, LeavesFollow, EmitOK
<1>3. \A q \in Pid : RoomOf[q] \notin disturbed' => Joined(q) \notin casts /\ Left(q) \notin casts
  BY <1>1 DEF Joined, Left
<1>4. \A q \in Pid : RoomOf[q] \notin disturbed' => (Counted(q)' <=> Counted(q))
  BY <1>1, <1>3 DEF Counted
<1>5. \A t \in Room \ disturbed' : CountedIn(t)' = CountedIn(t)
  BY <1>4 DEF CountedIn
<1>6. CountsRight'
  BY <1>1, <1>5 DEF CInv, CountsRight
<1>7. BackendKnowsOccupied'
  BY <1>1 DEF CInv, BackendKnowsOccupied
<1> QED
  BY <1>1, <1>2, <1>4, <1>6, <1>7 DEF CInv, NobodyMoves

LEMMA CountsRestart == ASSUME CInv, TypeOK', RegistryRestart PROVE CInv' /\ NobodyMoves
<1>1. /\ casts' = casts /\ toEmit' = toEmit /\ counts' = counts /\ pc' = pc
      /\ announced' = announced /\ disturbed' = disturbed /\ registry' = "up"
  BY DEF RegistryRestart, channelVars
<1>2. CastsOK' /\ LeavesFollow'
  BY <1>1 DEF CInv, CastsOK, LeavesFollow
<1>3. \A q \in Pid : Counted(q)' <=> Counted(q)
  BY <1>1 DEF Counted
<1> QED
  BY <1>1, <1>2, <1>3, CountsFrame DEF CInv, NobodyMoves

LEMMA CountsStep == CInv /\ [Next]_vars => CInv'
<1> SUFFICES ASSUME CInv, [Next]_vars PROVE CInv'
  OBVIOUS
<1>1. TypeOK'
  BY TypeStep DEF CInv
<1>2. CASE UNCHANGED vars
  BY <1>1, <1>2, CountsSilent DEF vars, channelVars, SamePart
<1>3. CASE Registry \/ RegistryCrash
  BY <1>1, <1>3, CountsJoined, CountsLeft, CountsEmit, CountsCrash, CountsRestart DEF Registry
<1>4. CASE History \/ HistoryCrash \/ \E r \in Room : Age(r)
  <2>1. pc' = pc /\ UNCHANGED registryVars
    BY <1>4 DEF History, Sweep, HistoryRestart, HandleRecord, HistoryCrash, Age, channelVars
  <2> QED
    BY <1>1, <2>1, CountsSilent DEF SamePart
<1> QED
  BY <1>1, <1>2, <1>3, <1>4, CountsMember, CountsApi DEF Next

LEMMA CountsInvariant == Spec => []CInv
  BY CountsInit, CountsStep, PTL DEF Spec

\* The registry counts the members of every room of which it has lost no cast,
\* for any number of rooms, processes and crashes.
THEOREM CountsCorrect == Spec => []CountsRight
  BY CountsInvariant, PTL DEF CInv

\* The last of channel_occupied and channel_vacated the backend was sent for
\* such a room is what the table says, up to the one being sent.
THEOREM BackendCorrect == Spec => []BackendKnowsOccupied
  BY CountsInvariant, PTL DEF CInv

-----------------------------------------------------------------------------
(* Refinement of Occupancy *)

InsideMap == [r \in Room |-> Inside(r)]
ReportedMap == [r \in Room |-> Reported(r)]

\* What was last told of a room is true, unless its next event is being sent.
LEMMA ReportedTruth ==
  ASSUME CInv, NEW r \in Room \ disturbed
  PROVE  /\ toEmit = NoEvent => announced[r] = IF CountedIn(r) = {} THEN "vacated" ELSE "occupied"
         /\ toEmit # NoEvent /\ toEmit.room = r =>
              /\ toEmit.is = IF CountedIn(r) = {} THEN "vacated" ELSE "occupied"
              /\ announced[r] # toEmit.is
<1>1. IsFiniteSet(CountedIn(r)) /\ counts[r] = Cardinality(CountedIn(r)) /\ counts[r] \in Nat
  BY CountedFinite DEF CInv, CountsRight
<1>2. counts[r] = 0 <=> CountedIn(r) = {}
  BY <1>1, FS_EmptySet
<1>3. counts[r] > 0 <=> CountedIn(r) # {}
  BY <1>1, <1>2
<1>4. announced[r] = IF (counts[r] > 0) = (toEmit = NoEvent \/ toEmit.room # r) THEN "occupied" ELSE "vacated"
  BY DEF CInv, BackendKnowsOccupied
<1>5. toEmit # NoEvent => toEmit.is = IF counts[toEmit.room] > 0 THEN "occupied" ELSE "vacated"
  BY DEF CInv, EmitOK
<1>6. CASE toEmit = NoEvent
  BY <1>3, <1>4, <1>6
<1>7. CASE toEmit # NoEvent /\ toEmit.room = r
  BY <1>3, <1>4, <1>5, <1>7
<1> QED
  BY <1>6, <1>7

LEMMA Unmoved ==
  ASSUME TypeOK', NobodyMoves
  PROVE  Backend!Next
<1> DEFINE R == disturbed' \ disturbed
<1>1. R \in SUBSET Room /\ disturbed' = disturbed \union R
  BY DEF NobodyMoves, TypeOK
<1>2. ASSUME NEW r \in Room, r \in R PROVE Inside(r)' = {} /\ Reported(r)' = "vacated"
  BY <1>2 DEF Inside, Reported
<1>3. ASSUME NEW r \in Room, r \notin R PROVE Inside(r)' = Inside(r) /\ Reported(r)' = Reported(r)
  <2>1. CASE r \in disturbed
    BY <1>1, <2>1 DEF Inside, Reported
  <2>2. CASE r \notin disturbed
    <3>1. r \notin disturbed'
      BY <1>3, <2>2
    <3>2. CountedIn(r)' = CountedIn(r) /\ announced'[r] = announced[r]
      BY <3>1 DEF NobodyMoves, CountedIn
    <3> QED
      BY <2>2, <3>1, <3>2 DEF Inside, Reported
  <2> QED
    BY <2>1, <2>2
<1> HIDE DEF R
<1>4. /\ InsideMap' = [r \in Room |-> IF r \in R THEN {} ELSE InsideMap[r]]
      /\ ReportedMap' = [r \in Room |-> IF r \in R THEN "vacated" ELSE ReportedMap[r]]
  BY <1>2, <1>3 DEF InsideMap, ReportedMap
<1>5. Backend!Lose(R)
  BY <1>1, <1>4 DEF Backend!Lose, InsideMap, ReportedMap
<1> QED
  BY <1>1, <1>5 DEF Backend!Next

\* A cast that is handled moves its process in or out, in its room only.
LEMMA HandledMoves ==
  ASSUME CInv, NEW p \in Pid, HandleJoined(p) \/ HandleLeft(p)
  PROVE  /\ toEmit = NoEvent /\ disturbed' = disturbed /\ announced' = announced
         /\ \A q \in Pid : q # p => (Counted(q)' <=> Counted(q))
         /\ RoomOf[p] \notin disturbed => (Counted(p)' <=> ~Counted(p))
<1>1. CASE HandleJoined(p)
  <2>1. /\ Joined(p) \in casts /\ casts' = casts \ {Joined(p)} /\ toEmit = NoEvent
        /\ pc' = pc /\ announced' = announced /\ disturbed' = disturbed
    BY <1>1 DEF HandleJoined, channelVars
  <2>2. \A q \in Pid : /\ Left(q) \in casts' <=> Left(q) \in casts
                       /\ q # p => (Joined(q) \in casts' <=> Joined(q) \in casts)
    BY <2>1 DEF Joined, Left
  <2>3. ~Counted(p) /\ \A q \in Pid : q # p => (Counted(q)' <=> Counted(q))
    BY <2>1, <2>2 DEF Counted
  <2>4. RoomOf[p] \notin disturbed => Counted(p)'
    BY <2>1, <2>2 DEF Counted, CInv, CastsOK, LeavesFollow
  <2> QED
    BY <2>1, <2>3, <2>4
<1>2. CASE HandleLeft(p)
  <2>1. /\ Left(p) \in casts /\ Joined(p) \notin casts /\ casts' = casts \ {Left(p)} /\ toEmit = NoEvent
        /\ pc' = pc /\ announced' = announced /\ disturbed' = disturbed
    BY <1>2 DEF HandleLeft, channelVars
  <2>2. \A q \in Pid : /\ Joined(q) \in casts' <=> Joined(q) \in casts
                       /\ q # p => (Left(q) \in casts' <=> Left(q) \in casts)
    BY <2>1 DEF Joined, Left
  <2>3. Counted(p) /\ ~Counted(p)' /\ \A q \in Pid : q # p => (Counted(q)' <=> Counted(q))
    BY <2>1, <2>2 DEF Counted, CInv, CastsOK
  <2> QED
    BY <2>1, <2>3
<1> QED
  BY <1>1, <1>2

LEMMA HandledImplements ==
  ASSUME CInv, TypeOK', NEW p \in Pid, HandleJoined(p) \/ HandleLeft(p)
  PROVE  Backend!Next
<1> DEFINE r == RoomOf[p]
<1>0. r \in Room
  BY ConstAssumption DEF Sender
<1>1. /\ toEmit = NoEvent /\ disturbed' = disturbed /\ announced' = announced
      /\ \A q \in Pid : q # p => (Counted(q)' <=> Counted(q))
      /\ r \notin disturbed => (Counted(p)' <=> ~Counted(p))
  BY HandledMoves
<1>2. CASE r \in disturbed
  <2>1. NobodyMoves
    BY <1>1, <1>2 DEF NobodyMoves
  <2> QED
    BY <2>1, Unmoved
<1>3. CASE r \notin disturbed
  <2>1. announced[r] = IF CountedIn(r) = {} THEN "vacated" ELSE "occupied"
    BY <1>0, <1>1, <1>3, ReportedTruth
  <2>2. \A t \in Room \ {r} : Inside(t)' = Inside(t)
    BY <1>1 DEF Inside, CountedIn
  <2>3. ReportedMap' = ReportedMap
    BY <1>1 DEF ReportedMap, Reported
  <2>4. InsideMap[r] = CountedIn(r) /\ Inside(r)' = CountedIn(r)' /\ ReportedMap[r] = announced[r]
    BY <1>0, <1>1, <1>3 DEF InsideMap, ReportedMap, Inside, Reported
  <2>5. CASE ~Counted(p)
    <3>1. CountedIn(r)' = CountedIn(r) \union {p} /\ p \notin CountedIn(r)
      BY <1>1, <1>3, <2>5 DEF CountedIn
    <3>2. InsideMap' = [InsideMap EXCEPT ![r] = @ \union {p}]
      BY <1>0, <2>2, <2>4, <3>1 DEF InsideMap
    <3>3. Backend!Enter(r, p)
      BY <1>1, <1>3, <2>1, <2>3, <2>4, <3>1, <3>2 DEF Backend!Enter, Backend!Truth, InsideMap, ReportedMap
    <3> QED
      BY <1>0, <3>3 DEF Backend!Next
  <2>6. CASE Counted(p)
    <3>1. CountedIn(r)' = CountedIn(r) \ {p} /\ p \in CountedIn(r)
      BY <1>1, <1>3, <2>6 DEF CountedIn
    <3>2. InsideMap' = [InsideMap EXCEPT ![r] = @ \ {p}]
      BY <1>0, <2>2, <2>4, <3>1 DEF InsideMap
    <3>3. Backend!Leave(r, p)
      BY <1>1, <1>3, <2>1, <2>3, <2>4, <3>1, <3>2 DEF Backend!Leave, Backend!Truth, InsideMap, ReportedMap
    <3> QED
      BY <1>0, <3>3 DEF Backend!Next
  <2> QED
    BY <2>5, <2>6
<1> QED
  BY <1>2, <1>3

LEMMA EmitImplements ==
  ASSUME CInv, TypeOK', Emit
  PROVE  Backend!Next
<1>1. PICK r \in Room : r = toEmit.room
  BY DEF Emit, CInv, TypeOK, RoomEvent
<1>2. /\ toEmit # NoEvent /\ announced' = [announced EXCEPT ![r] = toEmit.is]
      /\ casts' = casts /\ pc' = pc /\ disturbed' = disturbed
      /\ announced \in [Room -> {"occupied", "vacated"}]
  BY <1>1 DEF Emit, channelVars, CInv, TypeOK
<1>3. InsideMap' = InsideMap
  BY <1>2 DEF InsideMap, Inside, CountedIn, Counted
<1>4. CASE r \in disturbed
  <2>1. ReportedMap' = ReportedMap
    BY <1>2, <1>4 DEF ReportedMap, Reported
  <2>2. Backend!Lose({})
    BY <1>2, <1>3, <2>1 DEF Backend!Lose, InsideMap, ReportedMap
  <2> QED
    BY <2>2 DEF Backend!Next
<1>5. CASE r \notin disturbed
  <2>1. /\ toEmit.is = IF CountedIn(r) = {} THEN "vacated" ELSE "occupied"
        /\ announced[r] # toEmit.is
    BY <1>1, <1>2, <1>5, ReportedTruth
  <2>2. ReportedMap' = [ReportedMap EXCEPT ![r] = toEmit.is]
    BY <1>2, <1>5 DEF ReportedMap, Reported
  <2>3. InsideMap[r] = CountedIn(r) /\ ReportedMap[r] = announced[r]
    BY <1>5 DEF InsideMap, ReportedMap, Inside, Reported
  <2>4. Backend!Tell(r)
    BY <1>2, <1>3, <1>5, <2>1, <2>2, <2>3 DEF Backend!Tell, Backend!Truth, InsideMap, ReportedMap
  <2> QED
    BY <2>4 DEF Backend!Next
<1> QED
  BY <1>4, <1>5

\* The members and the registry implement Occupancy: a backend sees a room go
\* from empty to occupied and back whenever it does, and in that order.
THEOREM ImplementsOccupancy == Spec => OccupancySafe
<1>1. Init => Backend!Init
  <2> SUFFICES ASSUME Init PROVE Backend!Init
    OBVIOUS
  <2>1. \A r \in Room : Inside(r) = {} /\ Reported(r) = "vacated"
    BY DEF Init, Inside, Reported, CountedIn, Counted, Sender
  <2>2. disturbed = {}
    BY DEF Init
  <2> QED
    BY <2>1, <2>2 DEF Backend!Init
<1>2. CInv /\ TypeOK' /\ [Next]_vars => [Backend!Next]_(Backend!vars)
  <2> SUFFICES ASSUME CInv, TypeOK', [Next]_vars PROVE Backend!Next
    OBVIOUS
  <2>1. CASE UNCHANGED vars
    <3>1. NobodyMoves
      BY <2>1, CountsSilent DEF vars, channelVars, SamePart
    <3> QED
      BY <3>1, Unmoved
  <2>2. CASE History \/ HistoryCrash \/ \E r \in Room : Age(r)
    <3>1. pc' = pc /\ UNCHANGED registryVars
      BY <2>2 DEF History, Sweep, HistoryRestart, HandleRecord, HistoryCrash, Age, channelVars
    <3>2. NobodyMoves
      BY <3>1, CountsSilent DEF SamePart
    <3> QED
      BY <3>2, Unmoved
  <2>3. CASE RegistryCrash \/ RegistryRestart
    BY <2>3, CountsCrash, CountsRestart, Unmoved
  <2>4. ASSUME NEW p \in Pid, Member(p) PROVE Backend!Next
    BY <2>4, CountsMember, Unmoved
  <2>5. ASSUME NEW a \in Api, ApiSay(a) \/ ApiRecord(a) PROVE Backend!Next
    BY <2>5, CountsApi, Unmoved
  <2> QED
    BY <2>1, <2>2, <2>3, <2>4, <2>5, HandledImplements, EmitImplements DEF Next, Registry
<1>3. OccupancySafe <=> Backend!Init /\ [][Backend!Next]_(Backend!vars)
  BY DEF OccupancySafe, Backend!Spec
<1> QED
  BY <1>1, <1>2, <1>3, CountsInvariant, TypeCorrect, PTL DEF Spec

-----------------------------------------------------------------------------
(* Replay *)

\* The messages Konet.History has been told of: every message a process started
\* to broadcast, and every message of a request but the one it is delivering.
Due(m) ==
  /\ m.nth <= sent[m.from]
  /\ m.from \in Api /\ m.nth = sent[m.from] => pc[m.from] # "saying"

Newer(m, seq) == \A o \in Elems(seq) : o.from = m.from => o.nth > m.nth

\* What is in the mailbox comes after all that has left it.
RecordsOK ==
  \A o \in records : /\ Due(o)
                     /\ \A n \in Message : Due(n) /\ n.from = o.from /\ n \notin records \union gone
                                              => n.nth < o.nth

\* A buffer holds at most the limit, newest first, and nothing newer than what
\* is still in the mailbox.
BufferOK(r) ==
  /\ Len(buffers[r]) <= Limit
  /\ \A b \in Elems(buffers[r]) : /\ Due(b)
                                  /\ \A o \in records : o.from = b.from => o.nth > b.nth
  /\ \A i, j \in 1 .. Len(buffers[r]) :
       i < j /\ buffers[r][i].from = buffers[r][j].from => buffers[r][i].nth > buffers[r][j].nth

\* What was handled is in the buffer, unless newer messages filled it.
KeptIn(m, seq) == m \in Elems(seq) \/ (Len(seq) = Limit /\ Newer(m, seq))

Kept ==
  \A m \in Message : Due(m) => m \in records \union gone \/ KeptIn(m, buffers[MessageRoom(m)])

HistoryOK ==
  /\ RecordsOK /\ Kept
  /\ \A r \in Room : BufferOK(r)
  /\ Limit = 0 => records = {}

SaidOK == \A m \in said : m.nth <= sent[m.from]

\* NoGap, also of a member that is broadcasting.
HeardAll ==
  \A p \in Pid : pc[p] \in {"joined", "saying"} =>
    \A m \in said : RoomOf[p] = MessageRoom(m) =>
      m \in heard[p] \union gone \union late[p] \/ KeptIn(m, replay[p])

\* What a cast prepends, and what it drops at the other end.
LEMMA PrependProperties ==
  ASSUME NEW m \in Message, NEW seq \in Seq(Message), Limit > 0, Len(seq) <= Limit
  PROVE  LET new == Prepend(m, seq) IN
         /\ new \in Seq(Message)
         /\ Len(new) = IF Len(seq) < Limit THEN Len(seq) + 1 ELSE Limit
         /\ new[1] = m
         /\ \A i \in 2 .. Len(new) : new[i] = seq[i - 1]
<1> DEFINE long == <<m>> \o seq
           n == IF Len(long) < Limit THEN Len(long) ELSE Limit
<1>1. Limit \in Nat /\ Len(seq) \in Nat
  BY ConstAssumption, LenProperties
<1>2. long \in Seq(Message) /\ Len(long) = Len(seq) + 1 /\ long[1] = m
  BY ConcatProperties
<1>3. \A i \in 2 .. Len(long) : long[i] = seq[i - 1]
  BY <1>1, <1>2, ConcatProperties
<1>4. n \in 1 .. Len(long)
  BY <1>1, <1>2
<1>5. Prepend(m, seq) = SubSeq(long, 1, n)
  BY DEF Prepend, Take
<1>6. /\ SubSeq(long, 1, n) \in Seq(Message)
      /\ Len(SubSeq(long, 1, n)) = n
      /\ \A i \in 1 .. n : SubSeq(long, 1, n)[i] = long[i]
  <2> HIDE DEF long, n
  <2> QED
    BY <1>2, <1>4, LenProperties
<1>7. n = IF Len(seq) < Limit THEN Len(seq) + 1 ELSE Limit
  BY <1>1, <1>2
<1> HIDE DEF long, n
<1> QED
  BY <1>1, <1>2, <1>3, <1>4, <1>5, <1>6, <1>7

\* A step of which Konet.History learns nothing.
LEMMA Untold ==
  ASSUME HistoryOK, UNCHANGED historyVars, \A m \in Message : Due(m)' <=> Due(m), TypeOK
  PROVE  HistoryOK'
<1>1. records' = records /\ buffers' = buffers /\ gone' = gone
  BY DEF historyVars
<1>2. \A r \in Room : Elems(buffers[r]) \subseteq Message
  BY DEF TypeOK, Elems
<1>3. RecordsOK'
  BY <1>1 DEF HistoryOK, RecordsOK, TypeOK
<1>4. Kept'
  BY <1>1 DEF HistoryOK, Kept, KeptIn, Newer
<1>5. \A r \in Room : BufferOK(r)'
  BY <1>1, <1>2 DEF HistoryOK, BufferOK
<1> QED
  BY <1>1, <1>3, <1>4, <1>5 DEF HistoryOK

\* A step that tells it of the next message of a sender.
LEMMA Told ==
  ASSUME HistoryOK, TypeOK, NEW m \in Message, RecordMessage(m), ~Due(m),
         \A n \in Message : Due(n)' <=> Due(n) \/ n = m,
         \A n \in Message : Due(n) /\ n.from = m.from => n.nth < m.nth
  PROVE  HistoryOK'
<1>1. /\ buffers' = buffers
      /\ \/ records' = records \union {m} /\ gone' = gone /\ Limit > 0
         \/ records' = records /\ gone' = gone \union {m}
  BY DEF RecordMessage
<1>2. \A r \in Room : Elems(buffers[r]) \subseteq Message
  BY DEF TypeOK, Elems
<1>3. RecordsOK'
  <2> SUFFICES ASSUME NEW o \in records'
               PROVE  /\ Due(o)'
                      /\ \A n \in Message : Due(n)' /\ n.from = o.from /\ n \notin records' \union gone'
                                               => n.nth < o.nth
    BY DEF RecordsOK
  <2>1. o \in Message /\ (o \in records \/ o = m)
    BY <1>1 DEF TypeOK
  <2>2. Due(o)'
    BY <2>1 DEF HistoryOK, RecordsOK
  <2>3. ASSUME NEW n \in Message, Due(n)', n.from = o.from, n \notin records' \union gone'
        PROVE  n.nth < o.nth
    <3>1. Due(n) /\ n \notin records \union gone
      BY <1>1, <2>3
    <3> QED
      BY <2>1, <2>3, <3>1 DEF HistoryOK, RecordsOK
  <2> QED
    BY <2>2, <2>3
<1>4. Kept'
  BY <1>1 DEF HistoryOK, Kept, KeptIn, Newer
<1>5. \A r \in Room : BufferOK(r)'
  BY <1>1, <1>2 DEF HistoryOK, BufferOK
<1>6. Limit = 0 => records' = {}
  BY <1>1 DEF HistoryOK
<1> QED
  BY <1>3, <1>4, <1>5, <1>6 DEF HistoryOK

LEMMA RecordHandled ==
  ASSUME HistoryOK, TypeOK, NEW m \in records, HandleRecord(m)
  PROVE  HistoryOK'
<1> DEFINE r == MessageRoom(m)
           seq == buffers[r]
           new == Prepend(m, seq)
<1>1. m \in Message /\ r \in Room /\ seq \in Seq(Message) /\ Len(seq) \in Nat
  BY MessageFrom, ConstAssumption DEF TypeOK, MessageRoom
<1>2. Limit \in Nat /\ Limit > 0 /\ Len(seq) <= Limit
  BY <1>1, ConstAssumption DEF HistoryOK, BufferOK
<1>3. /\ new \in Seq(Message)
      /\ Len(new) = IF Len(seq) < Limit THEN Len(seq) + 1 ELSE Limit
      /\ new[1] = m
      /\ \A i \in 2 .. Len(new) : new[i] = seq[i - 1]
  BY <1>1, <1>2, PrependProperties
<1>4. /\ records' = records \ {m} /\ gone' = gone
      /\ \A t \in Room : buffers'[t] = IF t = r THEN new ELSE buffers[t]
      /\ \A o \in records : o.from = m.from => o.nth >= m.nth
      /\ \A n \in Message : Due(n)' <=> Due(n)
  BY <1>1 DEF HandleRecord, TypeOK, Due, channelVars
<1>5. \A n \in Message : n.nth \in Nat
  BY MessageNth
<1>6. records \subseteq Message /\ \A t \in Room : Elems(buffers[t]) \subseteq Message
  BY DEF TypeOK, Elems
<1>7. Elems(new) \subseteq Elems(seq) \union {m} /\ m \in Elems(new)
  <2>1. Len(new) \in Nat /\ Len(new) >= 1
    BY <1>1, <1>2, <1>3
  <2>2. ASSUME NEW i \in 1 .. Len(new), i # 1 PROVE new[i] \in Elems(seq)
    <3>1. i \in 2 .. Len(new) /\ i - 1 \in 1 .. Len(seq)
      BY <1>1, <1>2, <1>3, <2>2
    <3> QED
      BY <1>3, <3>1 DEF Elems
  <2> HIDE DEF new, seq
  <2> QED
    BY <1>3, <2>1, <2>2 DEF Elems
<1> HIDE DEF new
\* The others of its sender that are still in the mailbox are newer.
<1>8. \A o \in records' : o.from = m.from => o.nth > m.nth
  <2>1. \A o \in records : o.from = m.from /\ o.nth = m.nth => o = m
    BY <1>1, <1>6 DEF Message
  <2> QED
    BY <1>1, <1>4, <1>5, <1>6, <2>1
<1>9. RecordsOK'
  <2> SUFFICES ASSUME NEW o \in records'
               PROVE  /\ Due(o)'
                      /\ \A n \in Message : Due(n)' /\ n.from = o.from /\ n \notin records' \union gone'
                                               => n.nth < o.nth
    BY DEF RecordsOK
  <2>1. o \in records /\ o \in Message
    BY <1>4, <1>6
  <2>2. ASSUME NEW n \in Message, Due(n), n.from = o.from, n \notin records' \union gone PROVE n.nth < o.nth
    BY <1>4, <1>8, <2>1, <2>2 DEF HistoryOK, RecordsOK
  <2> QED
    BY <1>4, <2>1, <2>2 DEF HistoryOK, RecordsOK
<1>10. Kept'
  <2> SUFFICES ASSUME NEW n \in Message, Due(n), n \notin records', n \notin gone
               PROVE  KeptIn(n, buffers'[MessageRoom(n)])
    BY <1>4 DEF Kept, KeptIn, Newer, MessageRoom
  <2>1. MessageRoom(n) \in Room
    BY MessageFrom, ConstAssumption DEF MessageRoom
  <2>2. CASE n = m
    BY <1>1, <1>4, <1>7, <2>2 DEF KeptIn
  <2>3. CASE n # m
    <3>1. n \notin records /\ KeptIn(n, buffers[MessageRoom(n)])
      BY <1>4, <2>3 DEF HistoryOK, Kept
    <3>2. CASE MessageRoom(n) # r
      BY <1>4, <2>1, <3>1, <3>2
    <3>3. CASE MessageRoom(n) = r
      <4>1. m.from = n.from => m.nth > n.nth
        BY <1>1, <1>5, <3>1 DEF HistoryOK, RecordsOK
      <4>2. CASE ~(n \in Elems(seq))
        <5>1. Len(seq) = Limit /\ Newer(n, seq)
          BY <3>1, <3>3, <4>2 DEF KeptIn
        <5>2. Len(new) = Limit /\ Newer(n, new)
          BY <1>2, <1>3, <1>7, <4>1, <5>1 DEF Newer
        <5> QED
          BY <1>1, <1>4, <3>3, <5>2 DEF KeptIn
      <4>3. CASE n \in Elems(seq)
        <5>1. PICK j \in 1 .. Len(seq) : seq[j] = n
          BY <4>3 DEF Elems
        <5>2. CASE j < Len(new)
          <6>1. j + 1 \in 2 .. Len(new) /\ j + 1 \in 1 .. Len(new) /\ (j + 1) - 1 = j
            BY <1>1, <1>2, <1>3, <5>2
          <6>2. new[j + 1] = n
            BY <1>3, <5>1, <6>1
          <6> QED
            BY <1>1, <1>4, <3>3, <6>1, <6>2 DEF KeptIn, Elems
        <5>3. CASE ~(j < Len(new))
          <6>1. Len(new) = Limit /\ j = Limit /\ Len(seq) = Limit
            BY <1>1, <1>2, <1>3, <5>3
          <6>2. ASSUME NEW i \in 1 .. Len(new), new[i].from = n.from PROVE new[i].nth > n.nth
            <7>1. CASE i = 1
              BY <1>3, <4>1, <6>2, <7>1
            <7>2. CASE i # 1
              <8>1. i \in 2 .. Len(new) /\ i - 1 \in 1 .. Len(seq) /\ i - 1 < j
                BY <1>1, <1>2, <6>1, <7>2
              <8>2. new[i] = seq[i - 1]
                BY <1>3, <8>1
              <8> QED
                BY <1>1, <5>1, <6>2, <8>1, <8>2 DEF HistoryOK, BufferOK
            <7> QED
              BY <7>1, <7>2
          <6>3. Newer(n, new)
            BY <6>2 DEF Newer, Elems
          <6> QED
            BY <1>1, <1>4, <3>3, <6>1, <6>3 DEF KeptIn
        <5> QED
          BY <5>2, <5>3
      <4> QED
        BY <4>2, <4>3
    <3> QED
      BY <3>2, <3>3
  <2> QED
    BY <2>2, <2>3
<1>11. \A t \in Room : BufferOK(t)'
  <2> SUFFICES ASSUME NEW t \in Room PROVE BufferOK(t)'
    OBVIOUS
  <2>1. BufferOK(t)
    BY DEF HistoryOK
  <2>2. CASE t # r
    <3>1. buffers'[t] = buffers[t] /\ records' \subseteq records
      BY <1>4, <2>2
    <3> QED
      BY <1>4, <1>6, <2>1, <3>1 DEF BufferOK
  <2>3. CASE t = r
    <3>1. buffers'[t] = new
      BY <1>1, <1>4, <2>3
    <3>2. Len(new) <= Limit
      BY <1>1, <1>2, <1>3
    <3>3. \A b \in Elems(seq) : Due(b) /\ b.from = m.from => b.nth < m.nth
      BY <2>1, <2>3 DEF BufferOK
    <3>4. \A b \in Elems(new) : Due(b)' /\ \A o \in records' : o.from = b.from => o.nth > b.nth
      <4> SUFFICES ASSUME NEW b \in Elems(new)
                   PROVE  Due(b)' /\ \A o \in records' : o.from = b.from => o.nth > b.nth
        OBVIOUS
      <4>1. CASE b = m
        BY <1>1, <1>4, <1>8, <4>1 DEF HistoryOK, RecordsOK
      <4>2. CASE b # m
        <5>1. b \in Elems(seq) /\ b \in Message
          BY <1>1, <1>6, <1>7, <4>2
        <5> QED
          BY <1>4, <2>1, <2>3, <5>1 DEF BufferOK
      <4> QED
        BY <4>1, <4>2
    <3>5. ASSUME NEW i \in 1 .. Len(new), NEW j \in 1 .. Len(new), i < j, new[i].from = new[j].from
          PROVE  new[i].nth > new[j].nth
      <4>1. j \in 2 .. Len(new) /\ j - 1 \in 1 .. Len(seq) /\ new[j] = seq[j - 1]
        BY <1>1, <1>2, <1>3, <3>5
      <4>2. CASE i = 1
        <5>1. seq[j - 1] \in Elems(seq) /\ new[i] = m
          BY <1>3, <4>1, <4>2 DEF Elems
        <5> QED
          BY <2>1, <2>3, <3>5, <4>1, <5>1 DEF BufferOK
      <4>3. CASE i # 1
        <5>1. i \in 2 .. Len(new) /\ i - 1 \in 1 .. Len(seq) /\ i - 1 < j - 1
          BY <1>1, <1>2, <1>3, <3>5, <4>3
        <5>2. new[i] = seq[i - 1]
          BY <1>3, <5>1
        <5> QED
          BY <2>1, <2>3, <3>5, <4>1, <5>1, <5>2 DEF BufferOK
      <4> QED
        BY <4>2, <4>3
    <3> QED
      BY <3>1, <3>2, <3>4, <3>5 DEF BufferOK
  <2> QED
    BY <2>2, <2>3
<1>12. Limit = 0 => records' = {}
  BY <1>2
<1> QED
  BY <1>9, <1>10, <1>11, <1>12 DEF HistoryOK

LEMMA Swept == ASSUME HistoryOK, TypeOK, Sweep PROVE HistoryOK'
<1>1. /\ records' = records /\ pc' = pc /\ sent' = sent
      /\ gone' = gone \union UNION {Handled(r) : r \in stale}
      /\ \A r \in Room : buffers'[r] = IF r \in stale THEN <<>> ELSE buffers[r]
  BY DEF Sweep, channelVars
<1>2. \A m \in Message : Due(m)' <=> Due(m)
  BY <1>1 DEF Due
<1>3. RecordsOK'
  BY <1>1, <1>2 DEF HistoryOK, RecordsOK, TypeOK
<1>4. Kept'
  <2> SUFFICES ASSUME NEW m \in Message, Due(m), m \notin records, m \notin gone'
               PROVE  KeptIn(m, buffers'[MessageRoom(m)])
    BY <1>1, <1>2 DEF Kept, KeptIn, Newer, MessageRoom
  <2>1. MessageRoom(m) \in Room
    BY MessageFrom, ConstAssumption DEF MessageRoom
  <2>2. m \in Handled(MessageRoom(m))
    BY DEF Handled, Due
  <2>3. MessageRoom(m) \notin stale /\ m \notin gone
    BY <1>1, <2>2
  <2> QED
    BY <1>1, <2>1, <2>3 DEF HistoryOK, Kept
<1>5. \A r \in Room : BufferOK(r)'
  <2> SUFFICES ASSUME NEW r \in Room PROVE BufferOK(r)'
    OBVIOUS
  <2>1. CASE r \in stale
    BY <1>1, <2>1, ConstAssumption DEF BufferOK, Elems
  <2>2. CASE r \notin stale
    <3>1. Elems(buffers[r]) \subseteq Message
      BY DEF TypeOK, Elems
    <3> QED
      BY <1>1, <1>2, <2>2, <3>1 DEF HistoryOK, BufferOK
  <2> QED
    BY <2>1, <2>2
<1> QED
  BY <1>1, <1>3, <1>4, <1>5 DEF HistoryOK

LEMMA HistoryCrashed == ASSUME HistoryOK, TypeOK, HistoryCrash PROVE HistoryOK'
<1>1. /\ records' = {} /\ gone' = gone \union records /\ buffers' = buffers
      /\ pc' = pc /\ sent' = sent
  BY DEF HistoryCrash, channelVars
<1>2. \A m \in Message : Due(m)' <=> Due(m)
  BY <1>1 DEF Due
<1>3. \A r \in Room : Elems(buffers[r]) \subseteq Message
  BY DEF TypeOK, Elems
<1>4. Kept'
  BY <1>1, <1>2 DEF HistoryOK, Kept, KeptIn, Newer
<1>5. \A r \in Room : BufferOK(r)'
  BY <1>1, <1>2, <1>3 DEF HistoryOK, BufferOK
<1> QED
  BY <1>1, <1>4, <1>5 DEF HistoryOK, RecordsOK

-----------------------------------------------------------------------------
(* What a member has been replayed and has heard *)

\* What Konet.History has been told of changes with what is sent and delivered.
LEMMA DueFrame ==
  ASSUME TypeOK, NEW s \in Sender, \A q \in Sender : q # s => pc'[q] = pc[q] /\ sent'[q] = sent[q]
  PROVE  \A m \in Message : m.from # s => (Due(m)' <=> Due(m))
  BY MessageFrom DEF Due

LEMMA HistoryMember == ASSUME TypeOK, HistoryOK, NEW p \in Pid, Member(p) PROVE HistoryOK'
<1>1. p \in Sender /\ p \notin Api
  BY ConstAssumption DEF Sender
<1>2. pc' = [pc EXCEPT ![p] = pc'[p]]
  BY <1>1 DEF Member, Refuse, Join, Subscribe, Replay, Record, Say, Terminate, Kill, Forget, Goto, TypeOK
<1>3. \A q \in Sender : q # p => pc'[q] = pc[q]
  BY <1>1, <1>2 DEF TypeOK
<1>4. CASE Record(p)
  <2> DEFINE m == Msg(p, sent[p] + 1)
  <2>1. sent[p] \in Nat /\ Sends[p] \in Nat /\ sent[p] < Sends[p]
    BY <1>1, <1>4, ConstAssumption DEF TypeOK, Record
  <2>2. m \in Message
    <3>1. sent[p] + 1 \in 1 .. Sends[p]
      BY <2>1
    <3> QED
      BY <1>1, <3>1, MsgType
  <2>3. sent' = [sent EXCEPT ![p] = sent[p] + 1] /\ RecordMessage(m)
    BY <1>4 DEF Record
  <2>4. \A q \in Sender : sent'[q] = IF q = p THEN sent[p] + 1 ELSE sent[q]
    BY <1>1, <2>3 DEF TypeOK
  <2>5. \A n \in Message : n.nth \in Nat /\ (n.from = p /\ n.nth = sent[p] + 1 => n = m)
    BY ConstAssumption DEF Message, Msg
  <2>6. ~Due(m) /\ m.from = p /\ m.nth = sent[p] + 1
    BY <2>1 DEF Due, Msg
  <2>7. \A n \in Message : n.from # p => (Due(n)' <=> Due(n))
    BY <1>1, <1>3, <2>4, DueFrame
  <2>8. \A n \in Message : n.from = p => (Due(n)' <=> Due(n) \/ n = m)
    BY <1>1, <2>1, <2>4, <2>5, <2>6 DEF Due
  <2>9. \A n \in Message : Due(n) /\ n.from = m.from => n.nth < m.nth
    BY <2>1, <2>5, <2>6 DEF Due
  <2>10. \A n \in Message : Due(n)' <=> Due(n) \/ n = m
    BY <2>6, <2>7, <2>8
  <2> HIDE DEF m
  <2> QED
    BY <2>2, <2>3, <2>6, <2>9, <2>10, Told
<1>5. CASE ~Record(p)
  <2>1. sent' = sent /\ UNCHANGED historyVars
    BY <1>5 DEF Member, Refuse, Join, Subscribe, Replay, Say, Terminate, Kill
  <2>2. \A n \in Message : n.from # p => (Due(n)' <=> Due(n))
    BY <1>1, <1>3, <2>1, DueFrame
  <2>3. \A n \in Message : n.from = p => (Due(n)' <=> Due(n))
    BY <1>1, <2>1 DEF Due
  <2> QED
    BY <2>1, <2>2, <2>3, Untold
<1> QED
  BY <1>4, <1>5

LEMMA HistoryApi ==
  ASSUME TypeOK, HistoryOK, NEW a \in Api, ApiSay(a) \/ ApiRecord(a)
  PROVE  HistoryOK'
<1>1. a \in Sender /\ sent[a] \in Nat /\ Sends[a] \in Nat
  BY ConstAssumption DEF Sender, TypeOK
<1>2. \A n \in Message : n.nth \in Nat
  BY MessageNth
<1>3. CASE ApiSay(a)
  <2>1. /\ pc[a] = "new" /\ UNCHANGED historyVars
        /\ \A q \in Sender : /\ pc'[q] = IF q = a THEN "saying" ELSE pc[q]
                             /\ sent'[q] = IF q = a THEN sent[a] + 1 ELSE sent[q]
    BY <1>1, <1>3 DEF ApiSay, Goto, TypeOK
  <2>2. \A n \in Message : n.from # a => (Due(n)' <=> Due(n))
    BY <1>1, <2>1, DueFrame
  <2>3. \A n \in Message : n.from = a => (Due(n)' <=> Due(n))
    BY <1>1, <1>2, <2>1 DEF Due
  <2> QED
    BY <2>1, <2>2, <2>3, Untold
<1>4. CASE ApiRecord(a)
  <2> DEFINE m == Msg(a, sent[a])
  <2>1. /\ pc[a] = "saying" /\ RecordMessage(m) /\ sent' = sent
        /\ \A q \in Sender : pc'[q] = IF q = a THEN "new" ELSE pc[q]
    BY <1>1, <1>4 DEF ApiRecord, Goto, TypeOK
  <2>2. m \in Message
    BY <1>1, <2>1, MsgType DEF TypeOK
  <2>3. m.from = a /\ m.nth = sent[a] /\ ~Due(m)
    BY <2>1 DEF Due, Msg
  <2>4. \A n \in Message : n.from = a /\ n.nth = sent[a] => n = m
    BY DEF Message, Msg
  <2>5. \A n \in Message : n.from # a => (Due(n)' <=> Due(n))
    BY <1>1, <2>1, DueFrame
  <2>6. \A n \in Message : n.from = a => (Due(n)' <=> Due(n) \/ n = m)
    BY <1>1, <1>2, <2>1, <2>3, <2>4 DEF Due
  <2>7. \A n \in Message : Due(n) /\ n.from = m.from => n.nth < m.nth
    BY <1>1, <1>2, <2>1, <2>3 DEF Due
  <2>8. \A n \in Message : Due(n)' <=> Due(n) \/ n = m
    BY <2>3, <2>5, <2>6
  <2> HIDE DEF m
  <2> QED
    BY <2>1, <2>2, <2>3, <2>7, <2>8, Told
<1> QED
  BY <1>3, <1>4

LEMMA HistoryStep == ASSUME TypeOK, HistoryOK, [Next]_vars PROVE HistoryOK'
<1>1. CASE UNCHANGED vars
  <2>1. UNCHANGED historyVars /\ pc' = pc /\ sent' = sent
    BY <1>1 DEF vars, channelVars
  <2> QED
    BY <2>1, Untold DEF Due
<1>2. CASE Registry \/ RegistryCrash
  <2>1. UNCHANGED historyVars /\ pc' = pc /\ sent' = sent
    BY <1>2 DEF Registry, Emit, RegistryRestart, HandleJoined, HandleLeft, RegistryCrash, channelVars
  <2> QED
    BY <2>1, Untold DEF Due
<1>3. CASE HistoryRestart \/ \E r \in Room : Age(r)
  <2>1. /\ records' = records /\ buffers' = buffers /\ gone' = gone
        /\ pc' = pc /\ sent' = sent
    BY <1>3 DEF HistoryRestart, Age, channelVars
  <2> QED
    BY <2>1 DEF HistoryOK, RecordsOK, Kept, KeptIn, Newer, BufferOK, Due
<1> QED
  BY <1>1, <1>2, <1>3, HistoryMember, HistoryApi, RecordHandled, Swept, HistoryCrashed DEF Next, History

HeardOK == SaidOK /\ ReplayInOrder /\ HeardAll

In(p) == pc[p] \in {"joined", "saying"}

\* A step that delivers nothing, replays nothing, and after which nobody else is in.
LEMMA HeardFrame ==
  ASSUME TypeOK, TypeOK', HeardOK, UNCHANGED <<said, heard, replay, late>>, gone \subseteq gone',
         \A p \in Pid : In(p)' => In(p), \A s \in Sender : sent'[s] >= sent[s]
  PROVE  HeardOK'
<1>1. \A m \in said : m \in Message /\ m.from \in Sender /\ m.nth \in Nat
  BY MessageFrom, MessageNth DEF TypeOK
<1>2. \A s \in Sender : sent[s] \in Nat /\ sent'[s] \in Nat
  BY DEF TypeOK
<1>3. ReplayInOrder'
  BY DEF HeardOK, ReplayInOrder
<1>4. HeardAll'
  BY DEF HeardOK, HeardAll, KeptIn, Newer, In
<1>5. SaidOK'
  BY <1>1, <1>2 DEF HeardOK, SaidOK
<1> QED
  BY <1>3, <1>4, <1>5 DEF HeardOK

LEMMA HeardDelivered ==
  ASSUME TypeOK, TypeOK', HeardOK, NEW m \in Message, Deliver(m), m.nth <= sent'[m.from],
         gone' = gone, \A p \in Pid : In(p)' => In(p), \A s \in Sender : sent'[s] >= sent[s]
  PROVE  HeardOK'
<1>1. /\ said' = said \union {m} /\ replay' = replay /\ late' = late
      /\ \A p \in Pid : heard[p] \subseteq heard'[p]
      /\ \A p \in Pid : Subscribed(p) /\ RoomOf[p] = MessageRoom(m) => m \in heard'[p]
  BY DEF Deliver, TypeOK
<1>2. \A n \in said : n \in Message /\ n.from \in Sender /\ n.nth \in Nat
  BY MessageFrom, MessageNth DEF TypeOK
<1>3. \A s \in Sender : sent[s] \in Nat /\ sent'[s] \in Nat
  BY DEF TypeOK
<1>4. SaidOK'
  BY <1>1, <1>2, <1>3 DEF HeardOK, SaidOK
<1>5. ReplayInOrder'
  BY <1>1 DEF HeardOK, ReplayInOrder
<1>6. HeardAll'
  <2> SUFFICES ASSUME NEW p \in Pid, In(p)', NEW n \in said', RoomOf[p] = MessageRoom(n)
               PROVE  n \in heard'[p] \union gone' \union late'[p] \/ KeptIn(n, replay'[p])
    BY DEF HeardAll, In, KeptIn, Newer, MessageRoom
  <2>1. In(p) /\ Subscribed(p)
    BY DEF In, Subscribed
  <2>2. CASE n \in said
    BY <1>1, <2>1, <2>2 DEF HeardOK, HeardAll, In
  <2>3. CASE n = m
    BY <1>1, <2>1, <2>3
  <2> QED
    BY <1>1, <2>2, <2>3
<1> QED
  BY <1>4, <1>5, <1>6 DEF HeardOK

LEMMA HeardForgotten ==
  ASSUME TypeOK, HeardOK, NEW p \in Pid, Forget(p), UNCHANGED <<sent, said, gone>>
  PROVE  HeardOK'
<1>1. p \in Sender
  BY DEF Sender
<1>2. \A q \in Pid : /\ pc'[q] = IF q = p THEN "dead" ELSE pc[q]
                     /\ heard'[q] = IF q = p THEN {} ELSE heard[q]
                     /\ replay'[q] = IF q = p THEN <<>> ELSE replay[q]
                     /\ late'[q] = IF q = p THEN {} ELSE late[q]
  BY <1>1 DEF Forget, Goto, TypeOK, Sender
<1>3. SaidOK'
  BY DEF HeardOK, SaidOK
<1>4. ReplayInOrder'
  <2> SUFFICES ASSUME NEW q \in Pid
               PROVE  \A i, j \in 1 .. Len(replay'[q]) :
                        i < j /\ replay'[q][i].from = replay'[q][j].from
                          => replay'[q][i].nth < replay'[q][j].nth
    BY DEF ReplayInOrder
  <2>1. CASE q = p
    BY <1>2, <2>1
  <2>2. CASE q # p
    BY <1>2, <2>2 DEF HeardOK, ReplayInOrder
  <2> QED
    BY <2>1, <2>2
<1>5. HeardAll'
  <2> SUFFICES ASSUME NEW q \in Pid, In(q)', NEW n \in said, RoomOf[q] = MessageRoom(n)
               PROVE  n \in heard'[q] \union gone' \union late'[q] \/ KeptIn(n, replay'[q])
    BY DEF HeardAll, In, KeptIn, Newer, MessageRoom
  <2>1. q # p /\ In(q)
    BY <1>2 DEF In
  <2> QED
    BY <1>2, <2>1 DEF HeardOK, HeardAll, In
<1> QED
  BY <1>3, <1>4, <1>5 DEF HeardOK

\* The replay is the buffer, the other way round.
LEMMA HeardReplay ==
  ASSUME TypeOK, HistoryOK, HeardOK, NEW p \in Pid, Replay(p)
  PROVE  HeardOK'
<1> DEFINE r == RoomOf[p]
           b == buffers[r]
           new == [i \in 1 .. Len(b) |-> b[Len(b) + 1 - i]]
<1>1. p \in Sender /\ r \in Room /\ b \in Seq(Message) /\ Len(b) \in Nat
  BY ConstAssumption, LenProperties DEF Sender, TypeOK
<1>2. /\ said' = said /\ sent' = sent /\ heard' = heard /\ gone' = gone
      /\ \A q \in Pid : /\ pc'[q] = IF q = p THEN "joined" ELSE pc[q]
                        /\ replay'[q] = IF q = p THEN new ELSE replay[q]
                        /\ late'[q] = IF q = p
                             THEN {m \in said : m \in records \/ (m.from \in Api /\ pc[m.from] = "saying")}
                             ELSE late[q]
  BY <1>1 DEF Replay, Goto, TypeOK, historyVars, Sender
<1>3. new \in Seq(Message)
  <2>1. \A i \in 1 .. Len(b) : b[Len(b) + 1 - i] \in Message
    BY <1>1, ElementOfSeq
  <2> QED
    BY <1>1, <2>1, IsASeq
<1>4. Len(new) = Len(b) /\ \A i \in 1 .. Len(b) : new[i] = b[Len(b) + 1 - i]
  BY <1>1, <1>3, LenProperties
<1> HIDE DEF new
<1>5. Elems(new) = Elems(b)
  <2>1. \A i \in 1 .. Len(b) : Len(b) + 1 - i \in 1 .. Len(b) /\ Len(b) + 1 - (Len(b) + 1 - i) = i
    BY <1>1
  <2>2. Elems(new) \subseteq Elems(b)
    BY <1>4, <2>1 DEF Elems
  <2>3. ASSUME NEW i \in 1 .. Len(b) PROVE b[i] \in Elems(new)
    <3>1. new[Len(b) + 1 - i] = b[i]
      BY <1>4, <2>1
    <3> QED
      BY <1>4, <2>1, <3>1 DEF Elems
  <2> QED
    BY <2>2, <2>3 DEF Elems
<1>6. SaidOK'
  BY <1>2 DEF HeardOK, SaidOK
<1>7. ReplayInOrder'
  <2> SUFFICES ASSUME NEW q \in Pid, NEW i \in 1 .. Len(replay'[q]), NEW j \in 1 .. Len(replay'[q]),
                      i < j, replay'[q][i].from = replay'[q][j].from
               PROVE  replay'[q][i].nth < replay'[q][j].nth
    BY DEF ReplayInOrder
  <2>1. CASE q # p
    BY <1>2, <2>1 DEF HeardOK, ReplayInOrder
  <2>2. CASE q = p
    <3> DEFINE x == Len(b) + 1 - i
               y == Len(b) + 1 - j
    <3>a. i \in 1 .. Len(b) /\ j \in 1 .. Len(b)
      BY <1>2, <1>4, <2>2
    <3>1. x \in 1 .. Len(b) /\ y \in 1 .. Len(b) /\ y < x
      BY <1>1, <3>a
    <3>2. replay'[q][i] = b[x] /\ replay'[q][j] = b[y]
      BY <1>2, <1>4, <2>2, <3>a
    <3>3. b[x] \in Message /\ b[y] \in Message
      BY <1>1, <3>1, ElementOfSeq
    <3>4. b[x].nth \in Nat /\ b[y].nth \in Nat
      BY <3>3, MessageNth
    <3>5. b[y].nth > b[x].nth
      <4> HIDE DEF x, y
      <4> QED
        BY <1>1, <3>1, <3>2 DEF HistoryOK, BufferOK
    <3> QED
      BY <3>2, <3>4, <3>5
  <2> QED
    BY <2>1, <2>2
<1>8. HeardAll'
  <2> SUFFICES ASSUME NEW q \in Pid, In(q)', NEW n \in said, RoomOf[q] = MessageRoom(n)
               PROVE  n \in heard'[q] \union gone' \union late'[q] \/ KeptIn(n, replay'[q])
    BY <1>2 DEF HeardAll, In, KeptIn, Newer, MessageRoom
  <2>1. CASE q # p
    BY <1>2, <2>1 DEF HeardOK, HeardAll, In
  <2>2. CASE q = p /\ n \notin late'[p]
    <3>1. n \in Message /\ n \notin records /\ ~(n.from \in Api /\ pc[n.from] = "saying")
      BY <1>2, <2>2 DEF TypeOK
    <3>2. Due(n)
      BY <3>1 DEF Due, HeardOK, SaidOK
    <3>3. n \in gone \/ KeptIn(n, b)
      BY <2>2, <3>1, <3>2 DEF HistoryOK, Kept
    <3>4. KeptIn(n, b) => KeptIn(n, new)
      BY <1>4, <1>5 DEF KeptIn, Newer
    <3> QED
      BY <1>2, <2>2, <3>3, <3>4
  <2> QED
    BY <2>1, <2>2
<1> QED
  BY <1>6, <1>7, <1>8 DEF HeardOK

LEMMA HeardMember == ASSUME TypeOK, TypeOK', HistoryOK, HeardOK, NEW p \in Pid, Member(p) PROVE HeardOK'
<1>1. p \in Sender /\ sent[p] \in Nat /\ Sends[p] \in Nat
  BY ConstAssumption DEF Sender, TypeOK
<1>2. \A s \in Sender : sent[s] \in Nat
  BY DEF TypeOK
<1>3. CASE Refuse(p) \/ Join(p) \/ Subscribe(p)
  <2>1. UNCHANGED <<sent, said, heard, replay, late, gone>>
    BY <1>3 DEF Refuse, Join, Subscribe, historyVars
  <2>2. \E at \in {"refused", "joining", "replay"} : pc' = [pc EXCEPT ![p] = at]
    BY <1>3 DEF Refuse, Join, Subscribe, Goto
  <2>3. \A q \in Pid : In(q)' => In(q)
    BY <1>1, <2>2 DEF In, TypeOK, Sender
  <2> QED
    BY <1>2, <2>1, <2>3, HeardFrame
<1>4. CASE Record(p)
  <2>1. /\ UNCHANGED <<said, heard, replay, late>> /\ gone \subseteq gone'
        /\ sent' = [sent EXCEPT ![p] = sent[p] + 1]
    BY <1>4 DEF Record, RecordMessage
  <2>2. \A s \in Sender : sent'[s] >= sent[s]
    BY <1>1, <1>2, <2>1 DEF TypeOK
  <2>3. \A q \in Pid : In(q)' => In(q)
    BY <1>1, <1>4 DEF Record, Goto, In, TypeOK
  <2> QED
    BY <2>1, <2>2, <2>3, HeardFrame
<1>5. CASE Say(p)
  <2> DEFINE m == Msg(p, sent[p])
  <2>1. m \in Message /\ m.from = p /\ m.nth = sent[p]
    BY <1>1, <1>5, MsgType DEF Say, TypeOK, Msg
  <2>2. Deliver(m) /\ sent' = sent /\ gone' = gone
    BY <1>5 DEF Say, historyVars
  <2>3. \A q \in Pid : In(q)' => In(q)
    BY <1>1, <1>5 DEF Say, Goto, In, TypeOK
  <2> HIDE DEF m
  <2> QED
    BY <1>1, <1>2, <2>1, <2>2, <2>3, HeardDelivered
<1>6. CASE Terminate(p) \/ Kill(p)
  BY <1>6, HeardForgotten DEF Terminate, Kill, historyVars
<1> QED
  BY <1>3, <1>4, <1>5, <1>6, HeardReplay DEF Member

LEMMA HeardApi ==
  ASSUME TypeOK, TypeOK', HeardOK, NEW a \in Api, ApiSay(a) \/ ApiRecord(a)
  PROVE  HeardOK'
<1>1. a \in Sender /\ sent[a] \in Nat /\ Sends[a] \in Nat /\ \A q \in Pid : q # a /\ q \in Sender
  BY ConstAssumption DEF Sender, TypeOK
<1>2. \A s \in Sender : sent[s] \in Nat
  BY DEF TypeOK
<1>3. \A q \in Pid : In(q)' => In(q)
  BY <1>1 DEF ApiSay, ApiRecord, Goto, In, TypeOK
<1>4. CASE ApiSay(a)
  <2> DEFINE m == Msg(a, sent[a] + 1)
  <2>1. sent' = [sent EXCEPT ![a] = sent[a] + 1] /\ Deliver(m) /\ gone' = gone /\ sent[a] < Sends[a]
    BY <1>4 DEF ApiSay, historyVars
  <2>2. sent[a] + 1 \in 1 .. Sends[a]
    BY <1>1, <2>1
  <2>3. m \in Message /\ m.from = a /\ m.nth = sent[a] + 1
    BY <1>1, <2>2, MsgType DEF Msg
  <2>4. \A s \in Sender : sent'[s] >= sent[s]
    BY <1>1, <1>2, <2>1 DEF TypeOK
  <2>5. m.nth <= sent'[m.from]
    BY <1>1, <2>1, <2>3 DEF TypeOK
  <2> HIDE DEF m
  <2> QED
    BY <1>3, <2>1, <2>3, <2>4, <2>5, HeardDelivered
<1>5. CASE ApiRecord(a)
  <2>1. UNCHANGED <<sent, said, heard, replay, late>> /\ gone \subseteq gone'
    BY <1>5 DEF ApiRecord, RecordMessage
  <2> QED
    BY <1>2, <1>3, <2>1, HeardFrame
<1> QED
  BY <1>4, <1>5

LEMMA HeardStep == ASSUME TypeOK, TypeOK', HistoryOK, HeardOK, [Next]_vars PROVE HeardOK'
<1>1. \A s \in Sender : sent[s] \in Nat
  BY DEF TypeOK
<1>2. CASE UNCHANGED vars \/ Registry \/ RegistryCrash
  <2>1. UNCHANGED <<pc, sent, said, heard, replay, late, gone>>
    BY <1>2 DEF Registry, Emit, RegistryRestart, HandleJoined, HandleLeft, RegistryCrash,
                vars, channelVars, historyVars
  <2> QED
    BY <1>1, <2>1, HeardFrame DEF In
<1>3. CASE History \/ HistoryCrash \/ \E r \in Room : Age(r)
  <2>1. UNCHANGED <<pc, sent, said, heard, replay, late>> /\ gone \subseteq gone'
    BY <1>3 DEF History, Sweep, HistoryRestart, HandleRecord, HistoryCrash, Age, channelVars
  <2> QED
    BY <1>1, <2>1, HeardFrame DEF In
<1> QED
  BY <1>2, <1>3, HeardMember, HeardApi DEF Next

RInv == TypeOK /\ HistoryOK /\ HeardOK

LEMMA ReplayInit == Init => RInv
<1> SUFFICES ASSUME Init PROVE RInv
  OBVIOUS
<1>1. TypeOK
  BY TypeInit
<1>2. \A s \in Sender : sent[s] = 0 /\ pc[s] = "new"
  BY DEF Init
<1>3. \A m \in Message : ~Due(m)
  BY <1>2, ConstAssumption DEF Due, Message
<1>4. HistoryOK
  BY <1>3, ConstAssumption DEF Init, HistoryOK, RecordsOK, Kept, BufferOK, Elems
<1>5. HeardOK
  BY DEF Init, HeardOK, SaidOK, ReplayInOrder, HeardAll, Sender
<1> QED
  BY <1>1, <1>4, <1>5 DEF RInv

LEMMA ReplayInvariant == Spec => []RInv
<1>1. RInv /\ [Next]_vars => RInv'
  BY TypeStep, HistoryStep, HeardStep DEF RInv
<1> QED
  BY <1>1, ReplayInit, PTL DEF Spec

\* A replay has the messages of one sender in the order they were sent, each
\* once, whatever the limit and however often Konet.History crashes.
THEOREM ReplayCorrect == Spec => []ReplayInOrder
  BY ReplayInvariant, PTL DEF RInv, HeardOK

\* A member that has joined has heard or been replayed every message of its room
\* that the buffer has not lost, swept, yet to hear of, or dropped for newer ones.
THEOREM GapCorrect == Spec => []NoGap
<1>1. RInv => NoGap
  BY DEF RInv, HeardOK, HeardAll, KeptIn, Newer, NoGap
<1> QED
  BY <1>1, ReplayInvariant, PTL
=============================================================================
