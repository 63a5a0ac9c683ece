----------------------------- MODULE Floor_proofs -----------------------------
(***************************************************************************)
(* Proofs about Floor, for every value of its constants: what the floors and *)
(* the arbiter keep, that the arbiter watches every holder, and that the     *)
(* backend is told of every hold.                                            *)
(***************************************************************************)
EXTENDS Floor, SequenceTheorems, TLAPS

LEMMA FlushType ==
  ASSUME NEW box \in Seq(Message), NEW r
  PROVE  Flush(box, r) \in Seq(Message)
  <1>1. CASE ~ \E i \in DOMAIN box : box[i] = DownMsg(r)
    BY <1>1 DEF Flush
  <1>2. CASE \E i \in DOMAIN box : box[i] = DownMsg(r)
    <2>1. Len(box) \in Nat /\ DOMAIN box = 1 .. Len(box) /\ \A i \in 1 .. Len(box) : box[i] \in Message
      OBVIOUS
    <2> DEFINE k == CHOOSE i \in DOMAIN box : box[i] = DownMsg(r)
               f == [i \in 1 .. Len(box) - 1 |-> IF i < k THEN box[i] ELSE box[i + 1]]
    <2>2. k \in DOMAIN box
      BY <1>2
    <2>3. Len(box) - 1 \in Nat
      BY <2>1, <2>2
    <2>4. f \in [1 .. Len(box) - 1 -> Message]
      BY <2>1, <2>2, <2>3
    <2>5. Flush(box, r) = f
      BY <1>2 DEF Flush
    <2> HIDE DEF f
    <2> QED
      BY <2>3, <2>4, <2>5, SeqDef
  <1> QED
    BY <1>1, <1>2

\* What a message of each kind carries.
LEMMA MessageFields ==
  ASSUME NEW m \in Message
  PROVE  /\ m.kind \in {"monitor", "demonitor", "DOWN", "sweep"}
         /\ m.kind = "monitor" => m.topic \in Topic /\ m.pid \in Pid /\ m = MonitorMsg(m.topic, m.pid)
         /\ m.kind = "demonitor" => m.topic \in Topic /\ m = DemonitorMsg(m.topic)
         /\ m.kind = "DOWN" => m.ref \in Ref /\ m = DownMsg(m.ref)
         /\ m.kind = "sweep" => m = SweepMsg
  BY DEF Message, MonitorMsg, DemonitorMsg, DownMsg, SweepMsg

\* Receiving a message: it is one of Message, and the rest is a mailbox.
LEMMA ReceiveType ==
  ASSUME TypeOK, NEW kind, Receive(kind)
  PROVE  Head(mailbox) \in Message /\ Tail(mailbox) \in Seq(Message) /\ Head(mailbox).kind = kind
  BY HeadTailProperties DEF TypeOK, Receive

LEMMA CastType ==
  ASSUME TypeOK, NEW m \in Message, Cast(m)
  PROVE  mailbox' \in Seq(Message)
  BY AppendProperties DEF TypeOK, Cast

LEMMA NewRefType ==
  ASSUME CanMonitor
  PROVE  NewRef \in Ref /\ refs[NewRef] = NoRef
  BY DEF CanMonitor, NewRef

LEMMA RefsWithoutType ==
  ASSUME TypeOK, NEW t \in Topic
  PROVE  RefsWithout(t) \in [Ref -> [topic : Topic, pid : Pid] \union {NoRef}]
  BY DEF TypeOK, ArbiterOK, RefsWithout

LEMMA InitType == Init => TypeOK
  BY ConstAssumption, EmptySeq DEF ConstAssumption, Init, TypeOK, ChannelsOK, ArbiterOK

\* A channel process leaves the arbiter's own state alone; a handler that
\* returns leaves its process well typed.
LEMMA ContinueType ==
  ASSUME TypeOK, NEW p \in Pid, Continue(p)
  PROVE  TypeOK'
  <1> USE ConstAssumption DEF ConstAssumption, Goto, Return, vars, tableVars, channelVars, watchVars, jobVars, histVars
  <1>1. ArbiterOK'
    BY DEF Continue, TypeOK, ArbiterOK
  <1>2. CASE InsertNew(p)
    <2>1. CASE UNCHANGED <<table, holds, seen>> /\ Goto(p, "read")
      BY <1>1, <1>2, <2>1 DEF InsertNew, TypeOK, ChannelsOK
    <2>2. CASE ~(UNCHANGED <<table, holds, seen>> /\ Goto(p, "read"))
      <3> DEFINE row == [user |-> UserOf[p], pid |-> p, hold |-> holds + 1]
      <3>1. row \in Row /\ holds + 1 \in 0 .. MaxHolds /\ row # NoRow
        BY <1>2, <2>2 DEF InsertNew, TypeOK, Row, Hold
      <3>2. /\ table' = [table EXCEPT ![TopicOf[p]] = row] /\ holds' = holds + 1
            /\ seen' = [seen EXCEPT ![p] = row] /\ pc' = [pc EXCEPT ![p] = "cast_monitor"]
        BY <1>2, <2>2 DEF InsertNew
      <3> HIDE DEF row
      <3>3. ChannelsOK'
        BY <1>2, <3>1, <3>2 DEF InsertNew, TypeOK, ChannelsOK
      <3> QED
        BY <1>1, <1>2, <3>1, <3>2, <3>3 DEF InsertNew, TypeOK
    <2> QED
      BY <2>1, <2>2
  <1>3. CASE CastMonitor(p)
    <2>1. mailbox' \in Seq(Message)
      BY <1>3, CastType DEF CastMonitor, Message
    <2> QED
      BY <1>1, <1>3, <2>1 DEF CastMonitor, TypeOK, ChannelsOK, Row, Overtaken, Held
  <1>4. CASE ReadHolder(p)
    <2>1. CASE Return(p)
      BY <1>1, <1>4, <2>1 DEF ReadHolder, TypeOK, ChannelsOK
    <2>2. CASE Goto(p, "announce_holder") /\ UNCHANGED <<seen, tries, leaving>>
      BY <1>1, <1>4, <2>2 DEF ReadHolder, TypeOK, ChannelsOK
    <2>3. CASE /\ Goto(p, "insert") /\ ~LastAttempt(p) /\ tries' = [tries EXCEPT ![p] = @ - 1]
               /\ UNCHANGED <<seen, leaving>>
      <3>1. tries[p] \in 0 .. MaxAttempts /\ tries[p] > 0 /\ tries[p] # 1
        BY <1>4, <2>3 DEF ReadHolder, LastAttempt, TypeOK, ChannelsOK
      <3>2. tries[p] - 1 \in 0 .. MaxAttempts /\ tries[p] - 1 > 0
        BY <3>1
      <3>3. ChannelsOK'
        BY <2>3, <3>2 DEF TypeOK, ChannelsOK
      <3> QED
        BY <1>1, <1>4, <3>3 DEF ReadHolder, TypeOK
    <2> QED
      BY <1>4, <2>1, <2>2, <2>3 DEF ReadHolder
  <1>5. CASE AnnounceHolder(p)
    BY <1>1, <1>5 DEF AnnounceHolder, TypeOK, ChannelsOK
  <1>6. CASE Lookup(p)
    <2>1. CASE Return(p)
      BY <1>1, <1>6, <2>1 DEF Lookup, TypeOK, ChannelsOK
    <2>2. CASE /\ Holds(TopicOf[p], UserOf[p]) /\ seen' = [seen EXCEPT ![p] = table[TopicOf[p]]]
               /\ Goto(p, "delete") /\ UNCHANGED <<tries, leaving>>
      <3>1. table[TopicOf[p]] \in Row /\ table[TopicOf[p]] # NoRow
        BY <2>2 DEF Holds, Held, TypeOK
      <3>2. ChannelsOK'
        BY <2>2, <3>1 DEF TypeOK, ChannelsOK
      <3> QED
        BY <1>1, <1>6, <3>2 DEF Lookup, TypeOK
    <2> QED
      BY <1>6, <2>1, <2>2 DEF Lookup
  <1>7. CASE Delete(p)
    BY <1>1, <1>7 DEF Delete, TypeOK, ChannelsOK, Erase
  <1>8. CASE CastDemonitor(p)
    <2>1. mailbox' \in Seq(Message)
      BY <1>8, CastType DEF CastDemonitor, Message
    <2> QED
      BY <1>1, <1>8, <2>1 DEF CastDemonitor, TypeOK, ChannelsOK, Row, Overtaken, Held
  <1>9. CASE AnnounceFree(p)
    BY <1>1, <1>9 DEF AnnounceFree, TypeOK, ChannelsOK
  <1>10. CASE SendFrame(p)
    BY <1>1, <1>10 DEF SendFrame, TypeOK, ChannelsOK
  <1> QED
    BY <1>2, <1>3, <1>4, <1>5, <1>6, <1>7, <1>8, <1>9, <1>10 DEF Continue

LEMMA EventType ==
  ASSUME TypeOK, NEW p \in Pid, Event(p)
  PROVE  TypeOK'
  <1> USE ConstAssumption DEF ConstAssumption, Goto, vars, tableVars, channelVars, watchVars, jobVars, histVars
  <1>1. ArbiterOK'
    BY DEF Event, TypeOK, ArbiterOK
  <1>2. CASE Press(p)
    BY <1>1, <1>2 DEF Event, Press, TypeOK, ChannelsOK
  <1>3. CASE Release(p)
    BY <1>1, <1>3 DEF Event, Release, TypeOK, ChannelsOK
  <1>4. CASE Terminate(p)
    BY <1>1, <1>4 DEF Event, Terminate, TypeOK, ChannelsOK
  <1>5. CASE CheckFrame(p)
    BY <1>1, <1>5 DEF Event, CheckFrame, TypeOK, ChannelsOK
  <1>6. CASE Kill(p)
    BY <1>1, <1>6 DEF Event, Kill, TypeOK, ChannelsOK, Row, Held
  <1> QED
    BY <1>2, <1>3, <1>4, <1>5, <1>6 DEF Event

LEMMA ServeType ==
  ASSUME TypeOK, Serve
  PROVE  TypeOK'
  <1> USE ConstAssumption DEF ConstAssumption, vars, tableVars, channelVars, watchVars, jobVars, histVars
  <1>1. ChannelsOK' /\ exposed' \subseteq Hold /\ holds' \in 0 .. MaxHolds
    BY DEF Serve, TypeOK, ChannelsOK
  <1>2. CASE HandleMonitor
    <2>1. Head(mailbox).topic \in Topic /\ Head(mailbox).pid \in Pid
      BY <1>2, ReceiveType, MessageFields DEF HandleMonitor
    <2>2. mailbox' \in Seq(Message)
      BY <1>2, FlushType, ReceiveType DEF HandleMonitor
    <2>3. ArbiterOK'
      BY <1>2, <2>1, NewRefType, RefsWithoutType DEF HandleMonitor, TypeOK, ArbiterOK
    <2> QED
      BY <1>1, <1>2, <2>2, <2>3 DEF HandleMonitor, TypeOK
  <1>3. CASE HandleDemonitor
    <2>1. Head(mailbox).topic \in Topic
      BY <1>3, ReceiveType, MessageFields DEF HandleDemonitor
    <2>2. mailbox' \in Seq(Message)
      BY <1>3, FlushType, ReceiveType DEF HandleDemonitor
    <2>3. ArbiterOK'
      BY <1>3, <2>1, RefsWithoutType DEF HandleDemonitor, TypeOK, ArbiterOK
    <2> QED
      BY <1>1, <1>3, <2>2, <2>3 DEF HandleDemonitor, TypeOK
  <1>4. CASE HandleDown
    <2>1. mailbox' \in Seq(Message)
      BY <1>4, ReceiveType DEF HandleDown
    <2>2. ArbiterOK'
      BY <1>4, ReceiveType, MessageFields
      DEF HandleDown, Receive, Remove, TypeOK, ArbiterOK, StillHeldBy, Held, JobOf, Job
    <2> QED
      BY <1>1, <1>4, <2>1, <2>2 DEF HandleDown, TypeOK
  <1>5. CASE HandleSweep
    <2>1. mailbox' \in Seq(Message)
      BY <1>5, ReceiveType DEF HandleSweep
    <2>2. ArbiterOK'
      <3>1. work' \subseteq Job
        BY <1>5 DEF HandleSweep, TypeOK, Held, JobOf, Job
      <3>2. timer' \in BOOLEAN
        BY <1>5 DEF HandleSweep, ScheduleSweep, TypeOK, ArbiterOK
      <3> QED
        BY <1>5, <3>1, <3>2 DEF HandleSweep, Receive, Remove, TypeOK, ArbiterOK
    <2> QED
      BY <1>1, <1>5, <2>1, <2>2 DEF HandleSweep, TypeOK
  <1>6. CASE RemoveRow
    <2>1. ArbiterOK'
      BY <1>6 DEF RemoveRow, TypeOK, ArbiterOK
    <2> QED
      BY <1>1, <1>6, <2>1 DEF RemoveRow, TypeOK, Erase, Job
  <1>7. CASE AnnounceRemoval
    <2>1. current \in Job /\ reason \in {"disconnected", "expired"}
      BY <1>7 DEF AnnounceRemoval, TypeOK, ArbiterOK
    <2>2. mailbox' \in Seq(Message)
      BY <1>7, FlushType DEF AnnounceRemoval, TypeOK
    <2>3. ArbiterOK'
      <3>1. timer' \in BOOLEAN
        BY <1>7 DEF AnnounceRemoval, ScheduleSweep, TypeOK, ArbiterOK
      <3>2. /\ refs' \in [Ref -> [topic : Topic, pid : Pid] \union {NoRef}]
            /\ topics' \in [Topic -> Ref \union {NoRef}]
        <4>1. CASE reason = "expired"
          <5>1. current.topic \in Topic
            BY <2>1 DEF Job
          <5>2. refs' = RefsWithout(current.topic) /\ topics' = [topics EXCEPT ![current.topic] = NoRef]
            BY <1>7, <4>1 DEF AnnounceRemoval
          <5> QED
            BY <5>1, <5>2, RefsWithoutType DEF TypeOK, ArbiterOK
        <4>2. CASE reason # "expired"
          BY <1>7, <4>2 DEF AnnounceRemoval, TypeOK, ArbiterOK
        <4> QED
          BY <4>1, <4>2
      <3> QED
        BY <1>7, <2>1, <3>1, <3>2 DEF AnnounceRemoval, TypeOK, ArbiterOK
    <2>4. events' \subseteq Hold \X {"acquired", "released", "disconnected", "expired"}
      BY <1>7, <2>1 DEF AnnounceRemoval, TypeOK, Job, Row
    <2> QED
      BY <1>1, <1>7, <2>1, <2>2, <2>3, <2>4 DEF AnnounceRemoval, TypeOK, Job
  <1>8. CASE Restart
    <2>1. ArbiterOK'
      BY <1>8 DEF Restart, TableRows, ScheduleSweep, TypeOK, ArbiterOK, Held, JobOf, Job
    <2> QED
      BY <1>1, <1>8, <2>1 DEF Restart, TypeOK
  <1>9. CASE Rebuild
    <2>1. ArbiterOK'
      <3>1. /\ refs' \in [Ref -> [topic : Topic, pid : Pid] \union {NoRef}]
            /\ topics' \in [Topic -> Ref \union {NoRef}]
        BY <1>9, NewRefType DEF Rebuild, TypeOK, ArbiterOK, Job, Row
      <3> QED
        BY <1>9, <3>1 DEF Rebuild, TypeOK, ArbiterOK
    <2> QED
      BY <1>1, <1>9, <2>1 DEF Rebuild, TypeOK, Erase, Job
  <1> QED
    BY <1>2, <1>3, <1>4, <1>5, <1>6, <1>7, <1>8, <1>9 DEF Serve

LEMMA StepType == TypeOK /\ [Next]_vars => TypeOK'
  <1> SUFFICES ASSUME TypeOK, [Next]_vars PROVE TypeOK'
    OBVIOUS
  <1> USE ConstAssumption DEF ConstAssumption, vars, tableVars, channelVars, watchVars, jobVars, histVars
  <1>1. ASSUME NEW p \in Pid, Continue(p) PROVE TypeOK'
    BY <1>1, ContinueType
  <1>2. ASSUME NEW p \in Pid, Event(p) PROVE TypeOK'
    BY <1>2, EventType
  <1>3. ASSUME NEW r \in Ref, DownArrives(r) PROVE TypeOK'
    <2>1. mailbox' \in Seq(Message)
      BY <1>3, AppendProperties DEF DownArrives, TypeOK, Message
    <2> QED
      BY <1>3, <2>1 DEF DownArrives, TypeOK, ChannelsOK, ArbiterOK
  <1>4. ASSUME NEW t \in Topic, Ripen(t) PROVE TypeOK'
    BY <1>4 DEF Ripen, TypeOK, ChannelsOK, ArbiterOK
  <1>5. CASE SweepTimer
    <2>1. mailbox' \in Seq(Message)
      BY <1>5, AppendProperties DEF SweepTimer, TypeOK, Message
    <2> QED
      BY <1>5, <2>1 DEF SweepTimer, TypeOK, ChannelsOK, ArbiterOK
  <1>6. CASE Serve
    BY <1>6, ServeType
  <1>7. CASE Fail
    <2>1. ChannelsOK'
      BY <1>7 DEF Fail, TypeOK, ChannelsOK
    <2>2. ArbiterOK'
      BY <1>7 DEF Fail, Crash, TypeOK, ArbiterOK
    <2>3. crashes' \in 0 .. MaxCrashes
      BY <1>7 DEF Fail, Crash, TypeOK
    <2> QED
      BY <1>7, <2>1, <2>2, <2>3, EmptySeq DEF Fail, Crash, TypeOK
  <1>8. CASE UNCHANGED vars
    BY <1>8 DEF TypeOK, ChannelsOK, ArbiterOK
  <1> QED
    BY <1>1, <1>2, <1>3, <1>4, <1>5, <1>6, <1>7, <1>8 DEF Next

\* Every state variable keeps its type, and every control state the data it
\* relies on.
THEOREM TypeCorrect == Spec => []TypeOK
  BY InitType, StepType, PTL DEF Spec

-----------------------------------------------------------------------------
(* Floor implements the abstract lock *)

\* One topic changes at a time: a free one is taken by the user of the process
\* that takes it, or whatever row a topic has is erased.
LEMMA TableStep ==
  ASSUME TypeOK, Next
  PROVE  \/ table' = table
         \/ \E t \in Topic : Erase(t)
         \/ \E p \in Pid, h \in Hold :
              /\ ~Held(TopicOf[p])
              /\ table' = [table EXCEPT ![TopicOf[p]] = [user |-> UserOf[p], pid |-> p, hold |-> h]]
  <1> USE ConstAssumption DEF ConstAssumption, tableVars
  <1>1. ASSUME NEW p \in Pid, Continue(p)
        PROVE  \/ table' = table \/ Erase(TopicOf[p])
               \/ \E h \in Hold :
                    /\ ~Held(TopicOf[p])
                    /\ table' = [table EXCEPT ![TopicOf[p]] = [user |-> UserOf[p], pid |-> p, hold |-> h]]
    <2>1. CASE InsertNew(p)
      <3>1. holds < MaxHolds => holds + 1 \in Hold
        BY DEF TypeOK, Hold
      <3> QED
        BY <2>1, <3>1 DEF InsertNew, CanInsert
    <2>2. CASE ~InsertNew(p)
      BY <1>1, <2>2 DEF Continue, CastMonitor, ReadHolder, AnnounceHolder, Lookup, Delete, CastDemonitor,
         AnnounceFree, SendFrame
    <2> QED
      BY <2>1, <2>2
  <1>2. ASSUME Serve PROVE table' = table \/ \E t \in Topic : Erase(t)
    <2>1. CASE RemoveRow
      BY <2>1 DEF RemoveRow, TypeOK, ArbiterOK, Job
    <2>2. CASE Rebuild
      BY <2>2 DEF Rebuild, TypeOK, ArbiterOK, Job
    <2>3. CASE HandleMonitor \/ HandleDemonitor \/ HandleDown \/ HandleSweep
      BY <2>3 DEF HandleMonitor, HandleDemonitor, HandleDown, HandleSweep
    <2>4. CASE AnnounceRemoval \/ Restart
      BY <2>4 DEF AnnounceRemoval, Restart
    <2> QED
      BY <1>2, <2>1, <2>2, <2>3, <2>4 DEF Serve
  <1>3. ASSUME NEW p \in Pid, Event(p) PROVE table' = table
    BY <1>3 DEF Event
  <1>4. ASSUME (\E r \in Ref : DownArrives(r)) \/ (\E t \in Topic : Ripen(t)) \/ SweepTimer \/ Fail
        PROVE  table' = table
    BY <1>4 DEF DownArrives, Ripen, SweepTimer, Fail, Crash
  <1> QED
    BY <1>1, <1>2, <1>3, <1>4 DEF Next

\* Every step of the system is a step of the lock or leaves it alone: the floor
\* passes from one user to another only through being free, whatever crashes,
\* sweeps and releases are interleaved.
THEOREM ImplementsLock == Spec => LockSafe
  <1> USE ConstAssumption DEF ConstAssumption, Held
  <1>1. Init => Lock!Init
    BY DEF Init, Lock!Init, Holder
  <1>2. ASSUME TypeOK, [Next]_vars PROVE [Lock!Next]_Holder
    <2>1. CASE UNCHANGED vars \/ table' = table
      BY <2>1 DEF vars, tableVars, Holder
    <2>2. ASSUME NEW t \in Topic, Erase(t) PROVE [Lock!Next]_Holder
      <3>1. Holder' = [Holder EXCEPT ![t] = NoUser]
        <4>1. table'[t] = NoRow /\ \A s \in Topic \ {t} : table'[s] = table[s]
          BY <1>2, <2>2 DEF Erase, TypeOK
        <4> QED
          BY <4>1 DEF Holder
      <3>2. CASE Holder[t] = NoUser
        BY <3>1, <3>2 DEF Holder
      <3>3. CASE Holder[t] # NoUser
        BY <3>1, <3>3 DEF Lock!Next, Lock!Free
      <3> QED
        BY <3>2, <3>3
    <2>3. ASSUME NEW p \in Pid, NEW h \in Hold, ~Held(TopicOf[p]),
                 table' = [table EXCEPT ![TopicOf[p]] = [user |-> UserOf[p], pid |-> p, hold |-> h]]
          PROVE  Lock!Next
      <3>1. [user |-> UserOf[p], pid |-> p, hold |-> h] # NoRow
        BY DEF Row
      <3>2. Holder' = [Holder EXCEPT ![TopicOf[p]] = UserOf[p]]
        <4>1. /\ table'[TopicOf[p]] = [user |-> UserOf[p], pid |-> p, hold |-> h]
              /\ \A s \in Topic \ {TopicOf[p]} : table'[s] = table[s]
          BY <1>2, <2>3 DEF TypeOK
        <4>2. TopicOf[p] \in Topic /\ Held(TopicOf[p])' /\ table'[TopicOf[p]].user = UserOf[p]
          BY <3>1, <4>1
        <4>3. /\ Holder'[TopicOf[p]] = UserOf[p]
              /\ \A s \in Topic \ {TopicOf[p]} : Holder'[s] = Holder[s]
          BY <4>1, <4>2 DEF Holder
        <4> QED
          BY <4>3 DEF Holder
      <3>3. TopicOf[p] \in Topic /\ UserOf[p] \in User /\ Holder[TopicOf[p]] = NoUser
        BY <2>3 DEF Holder
      <3> QED
        BY <3>2, <3>3 DEF Lock!Next, Lock!Take
    <2> QED
      BY <1>2, <2>1, <2>2, <2>3, TableStep
  <1>3. Lock!Safety <=> Lock!Init /\ [][Lock!Next]_Holder
    BY DEF Lock!Safety
  <1> QED
    BY <1>1, <1>2, <1>3, TypeCorrect, PTL DEF Spec, LockSafe

-----------------------------------------------------------------------------
(* The inductive invariant *)

\* A row belongs to a process of its topic, and a process that has just deleted
\* the row of its topic has not taken the floor again.
RowsOK ==
  /\ \A t \in Topic : Held(t) => TopicOf[table[t].pid] = t
  /\ \A p \in Pid : pc[p] = "cast_demonitor" =>
       ~(Held(TopicOf[p]) /\ table[TopicOf[p]].pid = p)

\* At most one pending job per topic, and none between two messages.
WorkOK ==
  /\ server \in {"idle", "down"} => work = {}
  /\ \A a, b \in work : a.topic = b.topic => a = b
  /\ server = "announce" => \A a \in work : a.topic # current.topic

\* What a crash leaves, and what a restart has not yet rebuilt.
DownOK ==
  /\ server = "down" =>
       mailbox = <<>> /\ ~timer /\ \A r \in Ref : refs[r] = NoRef
  /\ server = "init" => \A a \in work : topics[a.topic] = NoRef

\* The holder of t is known to the runtime and its cast is out.
Settled(t) ==
  Held(t) /\ table[t].hold \notin exposed /\ pc[table[t].pid] # "cast_monitor" /\ server # "down"

\* Then the last word about t in the mailbox is to watch it, or there is none
\* and it is watched already or part of the work at hand.  The row of a topic
\* that is just being announced as free is never older than its word.
WatchOK ==
  \A t \in Topic : Settled(t) =>
    \/ WillHear(mailbox, t, table[t].pid)
    \/ /\ NoWord(mailbox, t)
       /\ server = "announce" => current.topic # t
       /\ JobOf(t) \in work \/ Monitored(t, table[t].pid)

IInv == TypeOK /\ MonitorsAgree /\ RowsOK /\ WorkOK /\ DownOK /\ WatchOK

-----------------------------------------------------------------------------
(* What the operations on the mailbox keep *)

\* Flush takes out one DOWN message, at k, or nothing; then k is past the end.
LEMMA FlushShape ==
  ASSUME NEW box \in Seq(Message), NEW r
  PROVE  \E k \in 1 .. Len(box) + 1 :
           /\ k \in 1 .. Len(box) => box[k] = DownMsg(r)
           /\ k = Len(box) + 1 => \A i \in 1 .. Len(box) : box[i] # DownMsg(r)
           /\ Len(Flush(box, r)) = IF k = Len(box) + 1 THEN Len(box) ELSE Len(box) - 1
           /\ \A i \in 1 .. Len(Flush(box, r)) : i < k => Flush(box, r)[i] = box[i]
           /\ \A i \in 1 .. Len(Flush(box, r)) : i >= k => Flush(box, r)[i] = box[i + 1]
  <1> DEFINE n == Len(box)
  <1>1. n \in Nat /\ DOMAIN box = 1 .. n
    OBVIOUS
  <1>2. CASE ~ \E i \in DOMAIN box : box[i] = DownMsg(r)
    <2>1. Flush(box, r) = box
      BY <1>2 DEF Flush
    <2>2. \A i \in 1 .. n : box[i] # DownMsg(r)
      BY <1>1, <1>2
    <2>3. n + 1 \in 1 .. n + 1 /\ n + 1 \notin 1 .. n
      BY <1>1
    <2> WITNESS n + 1 \in 1 .. Len(box) + 1
    <2> QED
      BY <1>1, <2>1, <2>2, <2>3
  <1>3. CASE \E i \in DOMAIN box : box[i] = DownMsg(r)
    <2> DEFINE k == CHOOSE i \in DOMAIN box : box[i] = DownMsg(r)
               f == [i \in 1 .. n - 1 |-> IF i < k THEN box[i] ELSE box[i + 1]]
    <2>1. k \in 1 .. n /\ box[k] = DownMsg(r)
      BY <1>1, <1>3
    <2>2. Flush(box, r) = f
      BY <1>3 DEF Flush
    <2>3. n - 1 \in Nat
      BY <1>1, <2>1
    <2>4. Len(f) = n - 1
      BY <2>3
    <2>5. \A i \in 1 .. n - 1 : f[i] = IF i < k THEN box[i] ELSE box[i + 1]
      OBVIOUS
    <2> HIDE DEF k, f
    <2>6. k \in 1 .. n + 1 /\ k <= n /\ k # n + 1
      BY <1>1, <2>1
    <2>7. \A i \in 1 .. n - 1 : i >= k => ~(i < k)
      BY <2>6
    <2> QED
      BY <2>1, <2>2, <2>4, <2>5, <2>6, <2>7
  <1> QED
    BY <1>2, <1>3

\* What is left in the mailbox was there before, in the same order: position i
\* of the new mailbox comes from i or i + 1, and only DOWN(r) is gone.
LEMMA FlushMoves ==
  ASSUME NEW box \in Seq(Message), NEW r
  PROVE  \E k \in 1 .. Len(box) + 1 :
           /\ \A i \in 1 .. Len(Flush(box, r)) :
                /\ i < k => i \in 1 .. Len(box) /\ Flush(box, r)[i] = box[i]
                /\ i >= k => i + 1 \in 1 .. Len(box) /\ Flush(box, r)[i] = box[i + 1]
           /\ \A j \in 1 .. Len(box) :
                /\ j < k => j \in 1 .. Len(Flush(box, r))
                /\ j = k => box[j] = DownMsg(r)
                /\ j > k => j - 1 \in 1 .. Len(Flush(box, r))
           /\ k = Len(box) + 1 => \A i \in 1 .. Len(box) : box[i] # DownMsg(r)
  <1> DEFINE n == Len(box)
             n1 == Len(Flush(box, r))
  <1>1. n \in Nat /\ n1 \in Nat
    BY FlushType
  <1>2. PICK k \in 1 .. n + 1 :
          /\ k \in 1 .. n => box[k] = DownMsg(r)
          /\ k = n + 1 => \A i \in 1 .. n : box[i] # DownMsg(r)
          /\ n1 = IF k = n + 1 THEN n ELSE n - 1
          /\ \A i \in 1 .. n1 : i < k => Flush(box, r)[i] = box[i]
          /\ \A i \in 1 .. n1 : i >= k => Flush(box, r)[i] = box[i + 1]
    BY FlushShape
  <1> HIDE DEF n, n1
  <1>3. \A i \in 1 .. n1 : (i < k => i \in 1 .. n) /\ (i >= k => i + 1 \in 1 .. n)
    BY <1>1, <1>2
  <1>4. \A j \in 1 .. n : /\ j < k => j \in 1 .. n1
                          /\ j = k => box[j] = DownMsg(r)
                          /\ j > k => j - 1 \in 1 .. n1
    BY <1>1, <1>2
  <1> QED
    BY <1>2, <1>3, <1>4 DEF n, n1

\* A message that is in the mailbox, and at most once.
Has(box, m) == \E i \in DOMAIN box : box[i] = m
Once(box, m) == \A i, j \in DOMAIN box : box[i] = m /\ box[j] = m => i = j

LEMMA Appended ==
  ASSUME NEW box \in Seq(Message), NEW m \in Message, NEW d
  PROVE  /\ Has(Append(box, m), d) <=> Has(box, d) \/ m = d
         /\ Once(box, d) /\ (m = d => ~Has(box, d)) => Once(Append(box, m), d)
  <1> DEFINE new == Append(box, m)
  <1>1. /\ Len(box) \in Nat /\ DOMAIN box = 1 .. Len(box)
        /\ DOMAIN new = 1 .. Len(box) + 1
        /\ new[Len(box) + 1] = m
        /\ \A i \in 1 .. Len(box) : new[i] = box[i]
    BY AppendProperties
  <1> HIDE DEF new
  <1>2. \A i \in DOMAIN new : i \in DOMAIN box \/ i = Len(box) + 1
    BY <1>1
  <1>3. \A i \in DOMAIN box : i \in DOMAIN new /\ new[i] = box[i]
    BY <1>1
  <1>4. Len(box) + 1 \in DOMAIN new
    BY <1>1
  <1> QED
    BY <1>1, <1>2, <1>3, <1>4 DEF Has, Once, new

LEMMA Received ==
  ASSUME NEW box \in Seq(Message), box # <<>>, NEW d
  PROVE  /\ Has(box, d) <=> Has(Tail(box), d) \/ Head(box) = d
         /\ Once(box, d) => Once(Tail(box), d)
         /\ Once(box, d) /\ Head(box) = d => ~Has(Tail(box), d)
  <1> DEFINE new == Tail(box)
             n == Len(box)
  <1>1. n \in Nat \ {0} /\ DOMAIN box = 1 .. n /\ DOMAIN new = 1 .. n - 1
    BY HeadTailProperties, EmptySeq
  <1>2. Head(box) = box[1] /\ \A i \in 1 .. n - 1 : new[i] = box[i + 1]
    BY HeadTailProperties
  <1> HIDE DEF n, new
  <1>3. 1 \in 1 .. n /\ \A i \in 1 .. n - 1 : i + 1 \in 1 .. n /\ i + 1 # 1
    BY <1>1
  <1>4. \A i \in 1 .. n : i = 1 \/ (i - 1 \in 1 .. n - 1 /\ (i - 1) + 1 = i)
    BY <1>1
  <1>5. Has(box, d) <=> Has(new, d) \/ Head(box) = d
    <2>1. ASSUME Has(box, d) PROVE Has(new, d) \/ Head(box) = d
      <3>1. PICK i \in 1 .. n : box[i] = d
        BY <1>1, <2>1 DEF Has
      <3>2. CASE i = 1
        BY <1>2, <3>1, <3>2
      <3>3. CASE i # 1
        BY <1>1, <1>2, <1>4, <3>1, <3>3 DEF Has
      <3> QED
        BY <3>2, <3>3
    <2>2. ASSUME Has(new, d) \/ Head(box) = d PROVE Has(box, d)
      BY <1>1, <1>2, <1>3, <2>2 DEF Has
    <2> QED
      BY <2>1, <2>2
  <1>6. ASSUME Once(box, d) PROVE Once(new, d)
    <2> SUFFICES ASSUME NEW i \in 1 .. n - 1, NEW j \in 1 .. n - 1, new[i] = d, new[j] = d PROVE i = j
      BY <1>1 DEF Once
    <2>1. i + 1 = j + 1
      BY <1>1, <1>2, <1>3, <1>6 DEF Once
    <2> QED
      BY <1>1, <2>1
  <1>7. ASSUME Once(box, d), Head(box) = d PROVE ~Has(new, d)
    BY <1>1, <1>2, <1>3, <1>7 DEF Has, Once
  <1> QED
    BY <1>5, <1>6, <1>7 DEF new

LEMMA Flushed ==
  ASSUME NEW box \in Seq(Message), NEW r, NEW d
  PROVE  /\ Has(Flush(box, r), d) => Has(box, d)
         /\ d # DownMsg(r) => (Has(box, d) => Has(Flush(box, r), d))
         /\ Once(box, d) => Once(Flush(box, r), d)
         /\ Once(box, DownMsg(r)) => ~Has(Flush(box, r), DownMsg(r))
  <1> DEFINE new == Flush(box, r)
             n == Len(box)
             n1 == Len(new)
  <1>1. n \in Nat /\ DOMAIN box = 1 .. n
    OBVIOUS
  <1>2. n1 \in Nat /\ DOMAIN new = 1 .. n1
    BY FlushType
  <1>3. PICK k \in 1 .. n + 1 :
          /\ \A i \in 1 .. n1 : /\ i < k => i \in 1 .. n /\ new[i] = box[i]
                                /\ i >= k => i + 1 \in 1 .. n /\ new[i] = box[i + 1]
          /\ \A j \in 1 .. n : /\ j < k => j \in 1 .. n1
                               /\ j = k => box[j] = DownMsg(r)
                               /\ j > k => j - 1 \in 1 .. n1
          /\ k = n + 1 => \A i \in 1 .. n : box[i] # DownMsg(r)
    BY FlushMoves
  <1> HIDE DEF n, n1, new
  <1>4. \A i \in 1 .. n1 : i < k \/ i >= k
    BY <1>1, <1>3
  <1>5. \A j \in 1 .. n : j < k \/ j = k \/ (j > k /\ j - 1 >= k /\ (j - 1) + 1 = j)
    BY <1>1, <1>3
  <1> DEFINE old(i) == IF i < k THEN i ELSE i + 1
  <1>10. \A i \in 1 .. n1 : old(i) \in 1 .. n /\ new[i] = box[old(i)]
    BY <1>3, <1>4
  <1>11. \A i, j \in 1 .. n1 : old(i) = old(j) => i = j
    BY <1>1, <1>2
  <1>12. \A i \in 1 .. n1 : old(i) # k
    BY <1>1, <1>2
  <1> HIDE DEF old
  <1>6. Has(new, d) => Has(box, d)
    BY <1>1, <1>2, <1>10 DEF Has
  <1>7. ASSUME d # DownMsg(r), Has(box, d) PROVE Has(new, d)
    <2>1. PICK j \in 1 .. n : box[j] = d
      BY <1>1, <1>7 DEF Has
    <2>2. CASE j < k
      BY <1>2, <1>3, <2>1, <2>2 DEF Has
    <2>3. CASE j > k
      <3>1. j - 1 \in 1 .. n1 /\ new[j - 1] = d
        BY <1>3, <1>5, <2>1, <2>3
      <3> QED
        BY <1>2, <3>1 DEF Has
    <2> QED
      BY <1>3, <1>5, <1>7, <2>1, <2>2, <2>3
  <1>8. ASSUME NEW e, Once(box, e) PROVE Once(new, e)
    <2> SUFFICES ASSUME NEW i \in 1 .. n1, NEW j \in 1 .. n1, new[i] = e, new[j] = e PROVE i = j
      BY <1>2 DEF Once
    <2>1. old(i) = old(j)
      BY <1>1, <1>8, <1>10 DEF Once
    <2> QED
      BY <1>11, <2>1
  <1>9. ASSUME Once(box, DownMsg(r)) PROVE ~Has(new, DownMsg(r))
    <2> SUFFICES ASSUME NEW i \in 1 .. n1, new[i] = DownMsg(r) PROVE FALSE
      BY <1>2 DEF Has
    <2>1. box[old(i)] = DownMsg(r) /\ old(i) \in 1 .. n
      BY <1>10
    <2>2. k \in 1 .. n
      BY <1>1, <1>3, <2>1
    <2> QED
      BY <1>1, <1>3, <1>9, <1>12, <2>1, <2>2 DEF Once
  <1> QED
    BY <1>6, <1>7, <1>8, <1>9 DEF new

\* A new message is the last word about its topic and about no other.
LEMMA WordAppended ==
  ASSUME NEW box \in Seq(Message), NEW m \in Message, NEW t, NEW p
  PROVE  /\ m = MonitorMsg(t, p) => WillHear(Append(box, m), t, p)
         /\ ~About(t, m) /\ WillHear(box, t, p) => WillHear(Append(box, m), t, p)
         /\ ~About(t, m) /\ NoWord(box, t) => NoWord(Append(box, m), t)
  <1> DEFINE new == Append(box, m)
  <1>1. /\ Len(box) \in Nat /\ DOMAIN box = 1 .. Len(box)
        /\ DOMAIN new = 1 .. Len(box) + 1
        /\ new[Len(box) + 1] = m
        /\ \A i \in 1 .. Len(box) : new[i] = box[i]
    BY AppendProperties
  <1> HIDE DEF new
  <1>2. ASSUME m = MonitorMsg(t, p) PROVE WillHear(new, t, p)
    BY <1>1, <1>2 DEF WillHear
  <1>3. ASSUME ~About(t, m), WillHear(box, t, p) PROVE WillHear(new, t, p)
    <2>1. PICK i \in 1 .. Len(box) :
            box[i] = MonitorMsg(t, p) /\ \A j \in 1 .. Len(box) : j > i => ~About(t, box[j])
      BY <1>1, <1>3 DEF WillHear
    <2>2. i \in DOMAIN new /\ new[i] = MonitorMsg(t, p)
      BY <1>1, <2>1
    <2>3. \A j \in DOMAIN new : j > i => ~About(t, new[j])
      BY <1>1, <1>3, <2>1
    <2> QED
      BY <2>2, <2>3 DEF WillHear
  <1>4. ASSUME ~About(t, m), NoWord(box, t) PROVE NoWord(new, t)
    BY <1>1, <1>4 DEF NoWord
  <1> QED
    BY <1>2, <1>3, <1>4 DEF new

\* Taking a DOWN message out changes no word about a topic.
LEMMA WordFlushed ==
  ASSUME NEW box \in Seq(Message), NEW r, NEW t, NEW p
  PROVE  /\ WillHear(box, t, p) => WillHear(Flush(box, r), t, p)
         /\ NoWord(box, t) => NoWord(Flush(box, r), t)
  <1> DEFINE new == Flush(box, r)
             n == Len(box)
             n1 == Len(new)
  <1>1. n \in Nat /\ DOMAIN box = 1 .. n
    OBVIOUS
  <1>2. n1 \in Nat /\ DOMAIN new = 1 .. n1
    BY FlushType
  <1>3. PICK k \in 1 .. n + 1 :
          /\ \A i \in 1 .. n1 : /\ i < k => i \in 1 .. n /\ new[i] = box[i]
                                /\ i >= k => i + 1 \in 1 .. n /\ new[i] = box[i + 1]
          /\ \A j \in 1 .. n : /\ j < k => j \in 1 .. n1
                               /\ j = k => box[j] = DownMsg(r)
                               /\ j > k => j - 1 \in 1 .. n1
    BY FlushMoves
  <1> HIDE DEF n, n1, new
  <1>4. ASSUME NoWord(box, t) PROVE NoWord(new, t)
    <2> SUFFICES ASSUME NEW i \in 1 .. n1 PROVE ~About(t, new[i])
      BY <1>2 DEF NoWord
    <2>1. (i < k) \/ (i >= k)
      BY <1>1, <1>2, <1>3
    <2> QED
      BY <1>1, <1>3, <1>4, <2>1 DEF NoWord
  <1>5. ASSUME WillHear(box, t, p) PROVE WillHear(new, t, p)
    <2>1. PICK i \in 1 .. n :
            box[i] = MonitorMsg(t, p) /\ \A j \in 1 .. n : j > i => ~About(t, box[j])
      BY <1>1, <1>5 DEF WillHear
    <2>2. i # k
      BY <1>3, <2>1 DEF MonitorMsg, DownMsg
    <2>3. CASE i < k
      <3>1. i \in 1 .. n1 /\ new[i] = MonitorMsg(t, p)
        BY <1>3, <2>1, <2>3
      <3>2. \A j \in 1 .. n1 : j > i => ~About(t, new[j])
        BY <1>1, <1>2, <1>3, <2>1
      <3> QED
        BY <1>2, <3>1, <3>2 DEF WillHear
    <2>4. CASE i > k
      <3>1. i - 1 \in 1 .. n1 /\ i - 1 >= k /\ (i - 1) + 1 = i
        BY <1>1, <1>2, <1>3, <2>1, <2>4
      <3>2. new[i - 1] = MonitorMsg(t, p)
        BY <1>3, <2>1, <3>1
      <3>3. \A j \in 1 .. n1 : j > i - 1 => j >= k /\ j + 1 > i
        BY <1>1, <1>2, <2>4
      <3>4. \A j \in 1 .. n1 : j > i - 1 => ~About(t, new[j])
        BY <1>3, <2>1, <3>3
      <3> QED
        BY <1>2, <3>1, <3>2, <3>4 DEF WillHear
    <2> QED
      BY <1>1, <1>3, <2>1, <2>2, <2>3, <2>4
  <1> QED
    BY <1>4, <1>5 DEF new

\* Taking the first message leaves the words about the other topics, and its own
\* unless it was the only one.
LEMMA WordReceived ==
  ASSUME NEW box \in Seq(Message), box # <<>>, NEW t, NEW p
  PROVE  /\ NoWord(box, t) => ~About(t, Head(box)) /\ NoWord(Tail(box), t)
         /\ WillHear(box, t, p) =>
              WillHear(Tail(box), t, p) \/ (Head(box) = MonitorMsg(t, p) /\ NoWord(Tail(box), t))
  <1> DEFINE new == Tail(box)
             n == Len(box)
  <1>1. n \in Nat \ {0} /\ DOMAIN box = 1 .. n /\ DOMAIN new = 1 .. n - 1
    BY HeadTailProperties, EmptySeq
  <1>2. Head(box) = box[1] /\ \A i \in 1 .. n - 1 : new[i] = box[i + 1]
    BY HeadTailProperties
  <1>3. 1 \in 1 .. n /\ \A i \in 1 .. n - 1 : i + 1 \in 1 .. n
    BY <1>1
  <1> HIDE DEF n, new
  <1>4. ASSUME NoWord(box, t) PROVE ~About(t, Head(box)) /\ NoWord(new, t)
    BY <1>1, <1>2, <1>3, <1>4 DEF NoWord
  <1>5. ASSUME WillHear(box, t, p)
        PROVE  WillHear(new, t, p) \/ (Head(box) = MonitorMsg(t, p) /\ NoWord(new, t))
    <2>1. PICK i \in 1 .. n :
            box[i] = MonitorMsg(t, p) /\ \A j \in 1 .. n : j > i => ~About(t, box[j])
      BY <1>1, <1>5 DEF WillHear
    <2>2. CASE i = 1
      <3>1. \A j \in 1 .. n - 1 : j + 1 > i
        BY <1>1, <2>2
      <3> QED
        BY <1>1, <1>2, <1>3, <2>1, <2>2, <3>1 DEF NoWord
    <2>3. CASE i # 1
      <3>1. i - 1 \in 1 .. n - 1 /\ (i - 1) + 1 = i
        BY <1>1, <2>1, <2>3
      <3>2. new[i - 1] = MonitorMsg(t, p)
        BY <1>2, <2>1, <3>1
      <3>3. \A j \in 1 .. n - 1 : j > i - 1 => ~About(t, new[j])
        BY <1>1, <1>2, <1>3, <2>1
      <3> QED
        BY <1>1, <3>1, <3>2, <3>3 DEF WillHear
    <2> QED
      BY <2>2, <2>3
  <1> QED
    BY <1>4, <1>5 DEF new

-----------------------------------------------------------------------------
(* Every step preserves the invariant: the channel processes *)

LEMMA ContinueFrame ==
  ASSUME TypeOK, NEW p \in Pid, Continue(p)
  PROVE  /\ pc[p] # "dead" /\ \A q \in Pid \ {p} : pc'[q] = pc[q]
         /\ UNCHANGED <<server, refs, topics, timer, work, current, reason, crashes>>
         /\ \/ mailbox' = mailbox
            \/ /\ CastMonitor(p) /\ server # "down"
               /\ mailbox' = Append(mailbox, MonitorMsg(TopicOf[p], p))
            \/ /\ CastDemonitor(p) /\ server # "down"
               /\ mailbox' = Append(mailbox, DemonitorMsg(TopicOf[p]))
  <1> USE DEF Goto, Return, Cast, tableVars, channelVars, jobVars, histVars, TypeOK, ChannelsOK
  <1>1. CASE InsertNew(p)
    BY <1>1 DEF Continue, InsertNew
  <1>2. CASE CastMonitor(p)
    BY <1>2 DEF Continue, CastMonitor
  <1>3. CASE ReadHolder(p)
    BY <1>3 DEF Continue, ReadHolder
  <1>4. CASE AnnounceHolder(p) \/ AnnounceFree(p) \/ SendFrame(p)
    BY <1>4 DEF Continue, AnnounceHolder, AnnounceFree, SendFrame
  <1>5. CASE Lookup(p) \/ Delete(p)
    BY <1>5 DEF Continue, Lookup, Delete
  <1>6. CASE CastDemonitor(p)
    BY <1>6 DEF Continue, CastDemonitor
  <1> QED
    BY <1>1, <1>2, <1>3, <1>4, <1>5, <1>6 DEF Continue

LEMMA EventFrame ==
  ASSUME TypeOK, NEW p \in Pid, Event(p)
  PROVE  /\ pc[p] # "dead" /\ \A q \in Pid \ {p} : pc'[q] = pc[q]
         /\ pc'[p] \notin {"cast_monitor", "cast_demonitor"}
         /\ UNCHANGED <<table, mailbox, server, refs, topics, timer, work, current, reason, crashes>>
  BY DEF Event, Press, Release, Terminate, CheckFrame, Kill, Alive, Goto, tableVars, watchVars,
         jobVars, TypeOK, ChannelsOK

\* DownsCurrent in terms of what is in the mailbox.
DownsOK ==
  \A r \in Ref : /\ Once(mailbox, DownMsg(r))
                 /\ Has(mailbox, DownMsg(r)) => refs[r] # NoRef /\ ~Alive(refs[r].pid)

LEMMA DownsMeaning == DownsCurrent <=> DownsOK
  BY DEF DownsCurrent, DownsOK, Once, Has

LEMMA DownsMeaningNext == DownsCurrent' <=> DownsOK'
  BY DEF DownsCurrent, DownsOK, Once, Has

LEMMA ContinueMonitors ==
  ASSUME IInv, NEW p \in Pid, Continue(p)
  PROVE  MonitorsAgree'
  <1>1. MapsInverse'
    BY ContinueFrame DEF IInv, MonitorsAgree, MapsInverse
  <1>2. \A q \in Pid : ~Alive(q) => ~Alive(q)'
    BY ContinueFrame DEF IInv, Alive
  <1>3. ASSUME NEW r \in Ref
        PROVE  /\ Has(mailbox', DownMsg(r)) => Has(mailbox, DownMsg(r))
               /\ Once(mailbox, DownMsg(r)) => Once(mailbox', DownMsg(r))
    <2>1. ASSUME NEW m \in Message, m.kind # "DOWN", mailbox' = Append(mailbox, m)
          PROVE  /\ Has(mailbox', DownMsg(r)) => Has(mailbox, DownMsg(r))
                 /\ Once(mailbox, DownMsg(r)) => Once(mailbox', DownMsg(r))
      <3>1. m # DownMsg(r)
        BY <2>1 DEF DownMsg
      <3> QED
        BY <2>1, <3>1, Appended DEF IInv, TypeOK
    <2>2. /\ MonitorMsg(TopicOf[p], p) \in Message /\ MonitorMsg(TopicOf[p], p).kind # "DOWN"
          /\ DemonitorMsg(TopicOf[p]) \in Message /\ DemonitorMsg(TopicOf[p]).kind # "DOWN"
      BY ConstAssumption DEF ConstAssumption, Message, MonitorMsg, DemonitorMsg
    <2> QED
      BY <2>1, <2>2, ContinueFrame DEF IInv
  <1>4. DownsOK
    BY DownsMeaning DEF IInv, MonitorsAgree
  <1>5. \A r \in Ref : refs[r] # NoRef => refs[r].pid \in Pid
    BY DEF IInv, TypeOK, ArbiterOK
  <1>6. DownsOK'
    BY <1>2, <1>3, <1>4, <1>5, ContinueFrame DEF IInv, DownsOK
  <1> QED
    BY <1>1, <1>6, DownsMeaningNext DEF MonitorsAgree

LEMMA EventMonitors ==
  ASSUME IInv, NEW p \in Pid, Event(p)
  PROVE  MonitorsAgree'
  <1>1. MapsInverse'
    BY EventFrame DEF IInv, MonitorsAgree, MapsInverse
  <1>2. \A q \in Pid : ~Alive(q) => ~Alive(q)'
    BY EventFrame DEF IInv, Alive
  <1>3. \A r \in Ref : refs[r] # NoRef => refs[r].pid \in Pid
    BY DEF IInv, TypeOK, ArbiterOK
  <1>4. DownsOK
    BY DownsMeaning DEF IInv, MonitorsAgree
  <1>5. DownsOK'
    BY <1>2, <1>3, <1>4, EventFrame DEF IInv, DownsOK
  <1> QED
    BY <1>1, <1>5, DownsMeaningNext DEF MonitorsAgree

\* What a channel process does to the table.
LEMMA ContinueTable ==
  ASSUME TypeOK, NEW p \in Pid, Continue(p)
  PROVE  \/ /\ InsertNew(p) /\ pc'[p] = "cast_monitor" /\ table'[TopicOf[p]].pid = p
            /\ \A t \in Topic \ {TopicOf[p]} : table'[t] = table[t]
         \/ /\ Delete(p) /\ pc'[p] = "cast_demonitor" /\ table'[TopicOf[p]] = NoRow
            /\ \A t \in Topic \ {TopicOf[p]} : table'[t] = table[t]
         \/ table' = table /\ pc'[p] # "cast_monitor" /\ pc'[p] # "cast_demonitor"
  <1> USE ConstAssumption DEF ConstAssumption, Goto, Return, tableVars, TypeOK, ChannelsOK
  <1>1. CASE InsertNew(p)
    BY <1>1 DEF InsertNew
  <1>2. CASE CastMonitor(p) \/ CastDemonitor(p)
    BY <1>2 DEF CastMonitor, CastDemonitor
  <1>3. CASE ReadHolder(p)
    BY <1>3 DEF ReadHolder
  <1>4. CASE AnnounceHolder(p) \/ AnnounceFree(p) \/ SendFrame(p)
    BY <1>4 DEF AnnounceHolder, AnnounceFree, SendFrame
  <1>5. CASE Lookup(p)
    BY <1>5 DEF Lookup
  <1>6. CASE Delete(p)
    BY <1>6 DEF Delete, Erase
  <1> QED
    BY <1>1, <1>2, <1>3, <1>4, <1>5, <1>6 DEF Continue

LEMMA ContinueRows ==
  ASSUME IInv, NEW p \in Pid, Continue(p)
  PROVE  RowsOK'
  <1> USE ConstAssumption DEF ConstAssumption, Held
  <1>1. \A q \in Pid \ {p} : pc'[q] = pc[q]
    BY ContinueFrame DEF IInv
  <1>2. \/ /\ pc'[p] = "cast_monitor" /\ table'[TopicOf[p]].pid = p
           /\ \A t \in Topic \ {TopicOf[p]} : table'[t] = table[t]
        \/ /\ pc'[p] = "cast_demonitor" /\ table'[TopicOf[p]] = NoRow
           /\ \A t \in Topic \ {TopicOf[p]} : table'[t] = table[t]
        \/ table' = table /\ pc'[p] # "cast_monitor" /\ pc'[p] # "cast_demonitor"
    BY ContinueTable DEF IInv
  <1>3. TopicOf[p] \in Topic
    OBVIOUS
  <1> QED
    BY <1>1, <1>2, <1>3 DEF IInv, RowsOK

LEMMA EventRows ==
  ASSUME IInv, NEW p \in Pid, Event(p)
  PROVE  RowsOK'
  BY EventFrame DEF IInv, RowsOK, Held

\* The holder of another topic is another process.
LEMMA OtherTopic ==
  ASSUME IInv, NEW t \in Topic, Held(t), NEW p \in Pid, TopicOf[p] # t
  PROVE  table[t].pid # p
  BY DEF IInv, RowsOK

\* What WatchOK says of one topic.
Watched(t) ==
  \/ WillHear(mailbox, t, table[t].pid)
  \/ /\ NoWord(mailbox, t)
     /\ server = "announce" => current.topic # t
     /\ JobOf(t) \in work \/ Monitored(t, table[t].pid)

LEMMA WatchMeaning == WatchOK <=> \A t \in Topic : Settled(t) => Watched(t)
  BY DEF WatchOK, Watched

LEMMA WatchMeaningNext == WatchOK' <=> \A t \in Topic : Settled(t)' => Watched(t)'
  BY DEF WatchOK, Watched

\* Nothing but the mailbox changes, and no word about t is added.
LEMMA WatchedFrame ==
  ASSUME TypeOK, NEW t \in Topic, Watched(t), table'[t] = table[t],
         UNCHANGED <<server, refs, topics, work, current>>,
         \/ mailbox' = mailbox
         \/ \E m \in Message : ~About(t, m) /\ mailbox' = Append(mailbox, m)
  PROVE  Watched(t)'
  <1>1. /\ WillHear(mailbox, t, table[t].pid) => WillHear(mailbox', t, table[t].pid)
        /\ NoWord(mailbox, t) => NoWord(mailbox', t)
    BY WordAppended DEF TypeOK
  <1>2. JobOf(t)' = JobOf(t) /\ Monitored(t, table[t].pid)' = Monitored(t, table[t].pid)
    BY DEF JobOf, Monitored
  <1> QED
    BY <1>1, <1>2 DEF Watched

LEMMA ContinueWatch ==
  ASSUME IInv, NEW p \in Pid, Continue(p)
  PROVE  WatchOK'
  <1> USE ConstAssumption DEF ConstAssumption
  <1> SUFFICES ASSUME NEW t \in Topic, Settled(t)' PROVE Watched(t)'
    BY WatchMeaningNext
  <1>1. TopicOf[p] \in Topic /\ TypeOK /\ UNCHANGED <<server, refs, topics, work, current>>
    BY ContinueFrame DEF IInv
  <1>2. /\ MonitorMsg(TopicOf[p], p) \in Message /\ DemonitorMsg(TopicOf[p]) \in Message
        /\ TopicOf[p] # t => ~About(t, MonitorMsg(TopicOf[p], p)) /\ ~About(t, DemonitorMsg(TopicOf[p]))
    BY <1>1 DEF Message, MonitorMsg, DemonitorMsg, About
  <1>3. \A q \in Pid \ {p} : pc'[q] = pc[q]
    BY ContinueFrame DEF IInv
  <1>4. Settled(t) => Watched(t)
    BY WatchMeaning DEF IInv
  <1>5. Held(t) => table[t].pid \in Pid
    BY DEF IInv, TypeOK, Row, Held
  <1>6. exposed \subseteq exposed'
    BY DEF Continue, InsertNew, CastMonitor, ReadHolder, AnnounceHolder, Lookup, Delete,
           CastDemonitor, AnnounceFree, SendFrame, histVars
  <1>7. CASE TopicOf[p] # t
    <2>1. table'[t] = table[t]
      BY <1>7, ContinueTable DEF IInv
    <2>2. Held(t) /\ table[t].pid # p
      BY <1>7, <2>1, OtherTopic DEF Settled, Held
    <2>3. Settled(t)
      BY <1>1, <1>3, <1>5, <1>6, <2>1, <2>2 DEF Settled
    <2>4. mailbox' = mailbox \/ \E m \in Message : ~About(t, m) /\ mailbox' = Append(mailbox, m)
      BY <1>2, <1>7, ContinueFrame DEF IInv
    <2> QED
      BY <1>1, <1>4, <2>1, <2>3, <2>4, WatchedFrame
  <1>8. CASE TopicOf[p] = t
    <2>1. CASE InsertNew(p) \/ Delete(p)
      <3>1. table' = table /\ pc'[p] # "cast_monitor"
        BY <1>8, <2>1, ContinueTable DEF IInv, Settled, Held
      <3>2. pc[p] # "cast_monitor" /\ mailbox' = mailbox /\ exposed' = exposed
        BY <2>1 DEF InsertNew, Delete, histVars
      <3>3. Settled(t)
        BY <1>1, <1>3, <1>5, <3>1, <3>2 DEF Settled, Held
      <3> QED
        BY <1>1, <1>4, <3>1, <3>2, <3>3, WatchedFrame
    <2>2. CASE CastMonitor(p) /\ table[t].pid = p
      <3>1. server # "down" /\ table' = table
        BY <1>1, <2>2 DEF CastMonitor, tableVars, Settled
      <3>2. mailbox' = Append(mailbox, MonitorMsg(t, p))
        BY <1>8, <2>2, <3>1 DEF CastMonitor, Cast
      <3>3. WillHear(mailbox', t, p)
        BY <1>1, <1>2, <1>8, <3>2, WordAppended DEF TypeOK
      <3> QED
        BY <2>2, <3>1, <3>3 DEF Watched
    <2>3. CASE (CastMonitor(p) \/ CastDemonitor(p)) /\ table[t].pid # p
      <3>1. table' = table /\ Held(t) /\ exposed' = exposed \union Overtaken(t, p)
        BY <1>8, <2>3 DEF CastMonitor, CastDemonitor, tableVars, Settled, Held
      <3>2. pc[table[t].pid] # "cast_monitor"
        BY <1>3, <1>5, <2>3, <3>1 DEF Settled
      <3>3. table[t].hold \in exposed'
        BY <2>3, <3>1, <3>2 DEF Overtaken
      <3> QED
        BY <3>1, <3>3 DEF Settled
    <2>4. CASE CastDemonitor(p) /\ table[t].pid = p
      BY <1>8, <2>4 DEF CastDemonitor, tableVars, Settled, Held, IInv, RowsOK
    <2>5. CASE ReadHolder(p) \/ AnnounceHolder(p) \/ Lookup(p) \/ AnnounceFree(p) \/ SendFrame(p)
      <3>1. table' = table /\ mailbox' = mailbox /\ exposed' = exposed /\ pc[p] # "cast_monitor"
        BY <2>5 DEF ReadHolder, AnnounceHolder, Lookup, AnnounceFree, SendFrame, tableVars, histVars
      <3>2. Settled(t)
        BY <1>1, <1>3, <1>5, <3>1 DEF Settled, Held
      <3> QED
        BY <1>1, <1>4, <3>1, <3>2, WatchedFrame
    <2> QED
      BY <2>1, <2>2, <2>3, <2>4, <2>5 DEF Continue
  <1> QED
    BY <1>7, <1>8

LEMMA EventWatch ==
  ASSUME IInv, NEW p \in Pid, Event(p)
  PROVE  WatchOK'
  <1> USE ConstAssumption DEF ConstAssumption
  <1> SUFFICES ASSUME NEW t \in Topic, Settled(t)' PROVE Watched(t)'
    BY WatchMeaningNext
  <1>1. /\ UNCHANGED <<table, mailbox, server, refs, topics, work, current>>
        /\ \A q \in Pid \ {p} : pc'[q] = pc[q]
    BY EventFrame DEF IInv
  <1>2. Held(t) /\ table[t].pid \in Pid
    BY <1>1 DEF IInv, TypeOK, Row, Settled, Held
  <1>3. exposed \subseteq exposed'
    BY DEF Event, Press, Release, Terminate, CheckFrame, Kill
  <1>4. ~(table[t].pid = p /\ pc[p] = "cast_monitor")
    <2> SUFFICES ASSUME table[t].pid = p, pc[p] = "cast_monitor" PROVE FALSE
      OBVIOUS
    <2>1. Kill(p)
      BY DEF Event, Press, Release, Terminate, CheckFrame
    <2>2. TopicOf[p] = t
      BY <1>2 DEF IInv, RowsOK
    <2>3. table[t].hold \in exposed'
      BY <1>2, <2>1, <2>2 DEF Kill
    <2> QED
      BY <1>1, <2>3 DEF Settled
  <1>5. Settled(t)
    BY <1>1, <1>2, <1>3, <1>4 DEF Settled
  <1> QED
    BY <1>1, <1>5, WatchMeaning, WatchedFrame DEF IInv

-----------------------------------------------------------------------------
(* Every step preserves the invariant: signals, timers and the arbiter *)

\* A signal or a timer tick puts a message in the mailbox that is no word about
\* any topic.
LEMMA SignalStep ==
  ASSUME IInv, \E r \in Ref : DownArrives(r)
  PROVE  IInv'
  <1> USE ConstAssumption DEF ConstAssumption
  <1>0. TypeOK'
    BY StepType DEF IInv, Next
  <1>1. PICK r \in Ref : DownArrives(r)
    OBVIOUS
  <1>2. /\ UNCHANGED <<table, pc, server, refs, topics, timer, work, current, reason, exposed>>
        /\ mailbox' = Append(mailbox, DownMsg(r)) /\ DownMsg(r) \in Message
    BY <1>1 DEF DownArrives, tableVars, channelVars, jobVars, histVars, Message
  <1>3. refs[r] # NoRef /\ ~Alive(refs[r].pid) /\ ~Has(mailbox, DownMsg(r))
    BY <1>1 DEF DownArrives, Has
  <1>4. MonitorsAgree'
    <2>1. MapsInverse'
      BY <1>2 DEF IInv, MonitorsAgree, MapsInverse
    <2>2. DownsOK
      BY DownsMeaning DEF IInv, MonitorsAgree
    <2>3. \A q \in Ref : /\ Has(mailbox', DownMsg(q)) => Has(mailbox, DownMsg(q)) \/ q = r
                         /\ Once(mailbox, DownMsg(q)) => Once(mailbox', DownMsg(q))
      <3> TAKE q \in Ref
      <3>1. DownMsg(q) = DownMsg(r) => q = r
        BY DEF DownMsg
      <3> QED
        BY <1>2, <1>3, <3>1, Appended DEF IInv, TypeOK
    <2>4. DownsOK'
      BY <1>2, <1>3, <2>2, <2>3 DEF DownsOK, Alive
    <2> QED
      BY <2>1, <2>4, DownsMeaningNext DEF MonitorsAgree
  <1>5. RowsOK' /\ WorkOK'
    BY <1>2 DEF IInv, RowsOK, WorkOK, Held
  <1>6. DownOK'
    BY <1>2, <1>3 DEF IInv, DownOK
  <1>7. WatchOK'
    <2> SUFFICES ASSUME NEW t \in Topic, Settled(t)' PROVE Watched(t)'
      BY WatchMeaningNext
    <2>1. Settled(t)
      BY <1>2 DEF Settled, Held
    <2>2. ~About(t, DownMsg(r))
      BY DEF About, DownMsg
    <2> QED
      BY <1>2, <2>1, <2>2, WatchMeaning, WatchedFrame DEF IInv
  <1> QED
    BY <1>0, <1>4, <1>5, <1>6, <1>7 DEF IInv

LEMMA SweepTimerStep ==
  ASSUME IInv, SweepTimer
  PROVE  IInv'
  <1>0. TypeOK'
    BY StepType DEF IInv, Next
  <1>2. /\ UNCHANGED <<table, pc, server, refs, topics, work, current, reason, exposed>>
        /\ timer /\ timer' = FALSE
        /\ mailbox' = Append(mailbox, SweepMsg) /\ SweepMsg \in Message
    BY DEF SweepTimer, tableVars, channelVars, jobVars, histVars, Message
  <1>4. MonitorsAgree'
    <2>1. MapsInverse'
      BY <1>2 DEF IInv, MonitorsAgree, MapsInverse
    <2>2. DownsOK
      BY DownsMeaning DEF IInv, MonitorsAgree
    <2>3. \A q \in Ref : /\ Has(mailbox', DownMsg(q)) => Has(mailbox, DownMsg(q))
                         /\ Once(mailbox, DownMsg(q)) => Once(mailbox', DownMsg(q))
      <3> TAKE q \in Ref
      <3>1. DownMsg(q) # SweepMsg
        BY DEF DownMsg, SweepMsg
      <3> QED
        BY <1>2, <3>1, Appended DEF IInv, TypeOK
    <2>4. DownsOK'
      BY <1>2, <2>2, <2>3 DEF DownsOK, Alive
    <2> QED
      BY <2>1, <2>4, DownsMeaningNext DEF MonitorsAgree
  <1>5. RowsOK' /\ WorkOK'
    BY <1>2 DEF IInv, RowsOK, WorkOK, Held
  <1>6. DownOK'
    BY <1>2 DEF IInv, DownOK
  <1>7. WatchOK'
    <2> SUFFICES ASSUME NEW t \in Topic, Settled(t)' PROVE Watched(t)'
      BY WatchMeaningNext
    <2>1. Settled(t)
      BY <1>2 DEF Settled, Held
    <2>2. ~About(t, SweepMsg)
      BY DEF About, SweepMsg
    <2> QED
      BY <1>2, <2>1, <2>2, WatchMeaning, WatchedFrame DEF IInv
  <1> QED
    BY <1>0, <1>4, <1>5, <1>6, <1>7 DEF IInv

\* What a step of the arbiter leaves alone.
LEMMA ServeFrame ==
  ASSUME Serve
  PROVE  UNCHANGED <<pc, exposed>>
  BY DEF Serve, channelVars

\* Dropping the monitor of topic t0: the maps stay inverse, the references of
\* the other topics stay, and no DOWN message of the old reference remains.
LEMMA DropMonitor ==
  ASSUME TypeOK, MonitorsAgree, NEW t0 \in Topic, NEW box \in Seq(Message),
         \A r \in Ref : /\ Has(box, DownMsg(r)) => Has(mailbox, DownMsg(r))
                        /\ Once(mailbox, DownMsg(r)) => Once(box, DownMsg(r))
  PROVE  /\ \A t \in Topic \ {t0} : topics[t] # NoRef => RefsWithout(t0)[topics[t]] = refs[topics[t]]
         /\ \A r \in Ref : RefsWithout(t0)[r] # NoRef => RefsWithout(t0)[r] = refs[r] /\ refs[r].topic # t0
         /\ \A r \in Ref : Once(Flush(box, topics[t0]), DownMsg(r))
         /\ \A r \in Ref : Has(Flush(box, topics[t0]), DownMsg(r)) =>
              RefsWithout(t0)[r] # NoRef /\ ~Alive(refs[r].pid)
  <1> USE ConstAssumption DEF ConstAssumption
  <1>1. /\ \A t \in Topic : topics[t] # NoRef => topics[t] \in Ref /\ refs[topics[t]] # NoRef /\ refs[topics[t]].topic = t
        /\ \A r \in Ref : refs[r] # NoRef => topics[refs[r].topic] = r
    BY DEF TypeOK, ArbiterOK, MonitorsAgree, MapsInverse
  <1>2. DownsOK
    BY DownsMeaning DEF MonitorsAgree
  <1>3. \A t \in Topic \ {t0} : topics[t] # NoRef => RefsWithout(t0)[topics[t]] = refs[topics[t]]
    BY <1>1 DEF RefsWithout
  <1>4. \A r \in Ref : RefsWithout(t0)[r] # NoRef => RefsWithout(t0)[r] = refs[r] /\ refs[r].topic # t0
    BY <1>1 DEF RefsWithout
  <1>5. ASSUME NEW r \in Ref
        PROVE  /\ Once(Flush(box, topics[t0]), DownMsg(r))
               /\ Has(Flush(box, topics[t0]), DownMsg(r)) => RefsWithout(t0)[r] # NoRef /\ ~Alive(refs[r].pid)
    <2>1. Once(box, DownMsg(r))
      BY <1>2 DEF DownsOK
    <2>2. Has(Flush(box, topics[t0]), DownMsg(r)) => Has(box, DownMsg(r)) /\ r # topics[t0]
      BY <2>1, Flushed
    <2> QED
      BY <1>2, <2>1, <2>2, Flushed DEF DownsOK, RefsWithout
  <1> QED
    BY <1>3, <1>4, <1>5

\* Receiving a message other than a word about t, or dropping its monitor.
LEMMA ReceivedBox ==
  ASSUME TypeOK, mailbox # <<>>, NEW r \in Ref
  PROVE  /\ Has(Tail(mailbox), DownMsg(r)) => Has(mailbox, DownMsg(r))
         /\ Once(mailbox, DownMsg(r)) => Once(Tail(mailbox), DownMsg(r))
         /\ Once(mailbox, DownMsg(r)) /\ Head(mailbox) = DownMsg(r) => ~Has(Tail(mailbox), DownMsg(r))
  BY Received DEF TypeOK

LEMMA HandleMonitorStep ==
  ASSUME IInv, Serve, HandleMonitor
  PROVE  IInv'
  <1> USE ConstAssumption DEF ConstAssumption
  <1> DEFINE t0 == Head(mailbox).topic
             p0 == Head(mailbox).pid
  <1>0. TypeOK'
    BY StepType DEF IInv, Next
  <1>1. /\ server = "idle" /\ mailbox # <<>> /\ t0 \in Topic /\ p0 \in Pid
        /\ Head(mailbox) = MonitorMsg(t0, p0) /\ Tail(mailbox) \in Seq(Message)
    BY ReceiveType, MessageFields DEF HandleMonitor, Receive, IInv
  <1>2. /\ UNCHANGED <<table, pc, server, timer, work, current, reason, exposed>>
        /\ refs' = [RefsWithout(t0) EXCEPT ![NewRef] = [topic |-> t0, pid |-> p0]]
        /\ topics' = [topics EXCEPT ![t0] = NewRef]
        /\ mailbox' = Flush(Tail(mailbox), topics[t0])
    BY ServeFrame DEF HandleMonitor, tableVars, jobVars
  <1>3. NewRef \in Ref /\ refs[NewRef] = NoRef
    BY NewRefType DEF HandleMonitor
  <1>4. /\ \A t \in Topic \ {t0} : topics[t] # NoRef => RefsWithout(t0)[topics[t]] = refs[topics[t]]
        /\ \A r \in Ref : RefsWithout(t0)[r] # NoRef => RefsWithout(t0)[r] = refs[r] /\ refs[r].topic # t0
        /\ \A r \in Ref : Once(mailbox', DownMsg(r))
        /\ \A r \in Ref : Has(mailbox', DownMsg(r)) => RefsWithout(t0)[r] # NoRef /\ ~Alive(refs[r].pid)
    BY <1>1, <1>2, DropMonitor, ReceivedBox DEF IInv
  <1>5. RefsWithout(t0) \in [Ref -> [topic : Topic, pid : Pid] \union {NoRef}]
    BY <1>1, RefsWithoutType DEF IInv
  <1>6. /\ \A t \in Topic : topics[t] # NoRef => topics[t] \in Ref /\ refs[topics[t]] # NoRef /\ refs[topics[t]].topic = t
        /\ \A r \in Ref : refs[r] # NoRef => topics[refs[r].topic] = r
        /\ topics \in [Topic -> Ref \union {NoRef}]
    BY DEF IInv, TypeOK, ArbiterOK, MonitorsAgree, MapsInverse
  <1>7. \A r \in Ref : RefsWithout(t0)[r] # NoRef => r # NewRef
    BY <1>3, <1>4
  <1>8. MapsInverse'
    <2>1. ASSUME NEW t \in Topic, topics'[t] # NoRef PROVE refs'[topics'[t]] # NoRef /\ refs'[topics'[t]].topic = t
      <3>1. CASE t = t0
        <4>1. topics'[t] = NewRef /\ refs'[NewRef] = [topic |-> t0, pid |-> p0]
          BY <1>2, <1>3, <1>5, <1>6, <3>1
        <4>2. [topic |-> t0, pid |-> p0] # NoRef
          BY <1>1
        <4> QED
          BY <3>1, <4>1, <4>2
      <3>2. CASE t # t0
        <4>1. topics'[t] = topics[t] /\ topics[t] # NewRef
          BY <1>2, <1>3, <1>6, <2>1, <3>2
        <4>2. refs'[topics[t]] = refs[topics[t]]
          BY <1>2, <1>4, <1>5, <1>6, <2>1, <3>2, <4>1
        <4> QED
          BY <1>6, <2>1, <4>1, <4>2
      <3> QED
        BY <3>1, <3>2
    <2>2. ASSUME NEW r \in Ref, refs'[r] # NoRef PROVE topics'[refs'[r].topic] = r
      <3>1. CASE r = NewRef
        BY <1>1, <1>2, <1>3, <1>5, <1>6, <3>1
      <3>2. CASE r # NewRef
        <4>1. refs'[r] = refs[r] /\ refs[r] # NoRef /\ refs[r].topic # t0
          BY <1>2, <1>4, <1>5, <2>2, <3>2
        <4> QED
          BY <1>2, <1>6, <4>1
      <3> QED
        BY <3>1, <3>2
    <2> QED
      BY <2>1, <2>2 DEF MapsInverse
  <1>9. DownsOK'
    <2> SUFFICES ASSUME NEW r \in Ref, Has(mailbox', DownMsg(r)) PROVE refs'[r] # NoRef /\ ~Alive(refs[r].pid)'
      BY <1>4 DEF DownsOK
    <2>1. refs'[r] = refs[r] /\ refs[r] # NoRef
      BY <1>2, <1>4, <1>5, <1>7
    <2> QED
      BY <1>2, <1>4, <2>1 DEF Alive
  <1>10. RowsOK' /\ WorkOK' /\ DownOK'
    BY <1>1, <1>2 DEF IInv, RowsOK, WorkOK, DownOK, Held
  <1>11. WatchOK'
    <2> SUFFICES ASSUME NEW t \in Topic, Settled(t)' PROVE Watched(t)'
      BY WatchMeaningNext
    <2> DEFINE p == table[t].pid
    <2>1. Settled(t) /\ Watched(t)
      BY <1>2, WatchMeaning DEF IInv, Settled, Held
    <2>2. work = {} /\ server' # "announce"
      BY <1>1, <1>2 DEF IInv, WorkOK
    <2>3. CASE WillHear(mailbox, t, p)
      <3>1. WillHear(Tail(mailbox), t, p) \/ (Head(mailbox) = MonitorMsg(t, p) /\ NoWord(Tail(mailbox), t))
        BY <1>1, <2>3, WordReceived DEF IInv, TypeOK
      <3>2. CASE WillHear(Tail(mailbox), t, p)
        BY <1>1, <1>2, <3>2, WordFlushed DEF Watched
      <3>3. CASE Head(mailbox) = MonitorMsg(t, p) /\ NoWord(Tail(mailbox), t)
        <4>1. t0 = t /\ p0 = p
          BY <3>3 DEF MonitorMsg
        <4>2. NoWord(mailbox', t)
          BY <1>1, <1>2, <3>3, WordFlushed
        <4>3. topics'[t] = NewRef /\ refs'[NewRef] = [topic |-> t, pid |-> p] /\ NewRef # NoRef
          BY <1>2, <1>3, <1>5, <1>6, <4>1
        <4>4. Monitored(t, p)'
          BY <1>2, <4>3 DEF Monitored
        <4> QED
          BY <1>2, <2>2, <4>2, <4>4 DEF Watched
      <3> QED
        BY <3>1, <3>2, <3>3
    <2>4. CASE NoWord(mailbox, t) /\ Monitored(t, p)
      <3>1. ~About(t, Head(mailbox)) /\ NoWord(Tail(mailbox), t)
        BY <1>1, <2>4, WordReceived DEF IInv, TypeOK
      <3>2. t # t0
        BY <1>1, <3>1 DEF About, MonitorMsg
      <3>3. NoWord(mailbox', t)
        BY <1>1, <1>2, <3>1, WordFlushed
      <3>4. topics'[t] = topics[t] /\ topics[t] # NoRef /\ topics[t] # NewRef
        BY <1>2, <1>3, <1>6, <2>4, <3>2 DEF Monitored
      <3>5. refs'[topics[t]] = refs[topics[t]]
        BY <1>2, <1>4, <1>5, <1>6, <3>2, <3>4
      <3>6. Monitored(t, p)'
        BY <1>2, <2>4, <3>4, <3>5 DEF Monitored
      <3> QED
        BY <1>2, <2>2, <3>3, <3>6 DEF Watched
    <2> QED
      BY <2>1, <2>2, <2>3, <2>4 DEF Watched
  <1> QED
    BY <1>0, <1>8, <1>9, <1>10, <1>11, DownsMeaningNext DEF IInv, MonitorsAgree

LEMMA HandleDemonitorStep ==
  ASSUME IInv, Serve, HandleDemonitor
  PROVE  IInv'
  <1> USE ConstAssumption DEF ConstAssumption
  <1> DEFINE t0 == Head(mailbox).topic
  <1>0. TypeOK'
    BY StepType DEF IInv, Next
  <1>1. /\ server = "idle" /\ mailbox # <<>> /\ t0 \in Topic
        /\ Head(mailbox) = DemonitorMsg(t0) /\ Tail(mailbox) \in Seq(Message)
    BY ReceiveType, MessageFields DEF HandleDemonitor, Receive, IInv
  <1>2. /\ UNCHANGED <<table, pc, server, timer, work, current, reason, exposed>>
        /\ refs' = RefsWithout(t0)
        /\ topics' = [topics EXCEPT ![t0] = NoRef]
        /\ mailbox' = Flush(Tail(mailbox), topics[t0])
    BY ServeFrame DEF HandleDemonitor, tableVars, jobVars
  <1>3. /\ \A t \in Topic \ {t0} : topics[t] # NoRef => RefsWithout(t0)[topics[t]] = refs[topics[t]]
        /\ \A r \in Ref : RefsWithout(t0)[r] # NoRef => RefsWithout(t0)[r] = refs[r] /\ refs[r].topic # t0
        /\ \A r \in Ref : Once(mailbox', DownMsg(r))
        /\ \A r \in Ref : Has(mailbox', DownMsg(r)) => RefsWithout(t0)[r] # NoRef /\ ~Alive(refs[r].pid)
    BY <1>1, <1>2, DropMonitor, ReceivedBox DEF IInv
  <1>4. /\ \A t \in Topic : topics[t] # NoRef => topics[t] \in Ref /\ refs[topics[t]] # NoRef /\ refs[topics[t]].topic = t
        /\ \A r \in Ref : refs[r] # NoRef => topics[refs[r].topic] = r /\ refs[r].topic \in Topic
        /\ topics \in [Topic -> Ref \union {NoRef}]
    BY DEF IInv, TypeOK, ArbiterOK, MonitorsAgree, MapsInverse
  <1>5. topics'[t0] = NoRef /\ \A t \in Topic \ {t0} : topics'[t] = topics[t]
    BY <1>1, <1>2, <1>4
  <1>6. MapsInverse'
    BY <1>2, <1>3, <1>4, <1>5 DEF MapsInverse
  <1>7. DownsOK'
    BY <1>2, <1>3 DEF DownsOK, Alive
  <1>8. RowsOK' /\ WorkOK' /\ DownOK'
    BY <1>1, <1>2 DEF IInv, RowsOK, WorkOK, DownOK, Held
  <1>9. WatchOK'
    <2> SUFFICES ASSUME NEW t \in Topic, Settled(t)' PROVE Watched(t)'
      BY WatchMeaningNext
    <2> DEFINE p == table[t].pid
    <2>1. Settled(t) /\ Watched(t)
      BY <1>2, WatchMeaning DEF IInv, Settled, Held
    <2>2. work = {} /\ server' # "announce"
      BY <1>1, <1>2 DEF IInv, WorkOK
    <2>3. CASE WillHear(mailbox, t, p)
      <3>1. WillHear(Tail(mailbox), t, p)
        BY <1>1, <2>3, WordReceived DEF IInv, TypeOK, MonitorMsg, DemonitorMsg
      <3> QED
        BY <1>1, <1>2, <3>1, WordFlushed DEF Watched
    <2>4. CASE NoWord(mailbox, t) /\ Monitored(t, p)
      <3>1. ~About(t, Head(mailbox)) /\ NoWord(Tail(mailbox), t)
        BY <1>1, <2>4, WordReceived DEF IInv, TypeOK
      <3>2. t # t0
        BY <1>1, <3>1 DEF About, DemonitorMsg
      <3>3. NoWord(mailbox', t)
        BY <1>1, <1>2, <3>1, WordFlushed
      <3>4. Monitored(t, p)'
        BY <1>2, <1>3, <1>5, <2>4, <3>2 DEF Monitored
      <3> QED
        BY <1>2, <2>2, <3>3, <3>4 DEF Watched
    <2> QED
      BY <2>1, <2>2, <2>3, <2>4 DEF Watched
  <1> QED
    BY <1>0, <1>6, <1>7, <1>8, <1>9, DownsMeaningNext DEF IInv, MonitorsAgree

LEMMA HandleDownStep ==
  ASSUME IInv, Serve, HandleDown
  PROVE  IInv'
  <1> USE ConstAssumption DEF ConstAssumption
  <1> DEFINE r0 == Head(mailbox).ref
             watched == {t \in Topic : refs[r0] # NoRef /\ refs[r0].topic = t}
  <1>0. TypeOK'
    BY StepType DEF IInv, Next
  <1>1. /\ server = "idle" /\ mailbox # <<>> /\ r0 \in Ref
        /\ Head(mailbox) = DownMsg(r0) /\ Tail(mailbox) \in Seq(Message)
    BY ReceiveType, MessageFields DEF HandleDown, Receive, IInv
  <1>2. /\ UNCHANGED <<table, pc, timer, current, exposed>>
        /\ work' = {JobOf(t) : t \in {s \in watched : StillHeldBy(s, refs[r0].pid)}}
        /\ server' = IF work' = {} THEN "idle" ELSE "remove"
        /\ topics' = [t \in Topic |-> IF t \in watched THEN NoRef ELSE topics[t]]
        /\ refs' = [refs EXCEPT ![r0] = NoRef]
        /\ mailbox' = Tail(mailbox)
    BY ServeFrame DEF HandleDown, Remove, tableVars
  <1>3. /\ \A t \in Topic : topics[t] # NoRef => topics[t] \in Ref /\ refs[topics[t]] # NoRef /\ refs[topics[t]].topic = t
        /\ \A r \in Ref : refs[r] # NoRef => topics[refs[r].topic] = r /\ refs[r].topic \in Topic
        /\ refs \in [Ref -> [topic : Topic, pid : Pid] \union {NoRef}]
    BY DEF IInv, TypeOK, ArbiterOK, MonitorsAgree, MapsInverse
  <1>4. \A t \in Topic : t \in watched <=> topics[t] = r0 /\ refs[r0] # NoRef
    BY <1>1, <1>3
  <1>5. /\ \A t \in Topic : topics[t] # r0 => topics'[t] = topics[t]
        /\ \A t \in Topic : topics'[t] # NoRef => topics'[t] = topics[t] /\ topics[t] # r0
        /\ refs'[r0] = NoRef /\ \A r \in Ref \ {r0} : refs'[r] = refs[r]
    <2> HIDE DEF watched, r0
    <2> QED
      BY <1>1, <1>2, <1>3, <1>4
  <1>6. MapsInverse'
    <2> HIDE DEF watched, r0
    <2> QED
      BY <1>3, <1>5 DEF MapsInverse
  <1>7. DownsOK'
    <2>1. DownsOK
      BY DownsMeaning DEF IInv, MonitorsAgree
    <2>2. \A r \in Ref : Once(mailbox', DownMsg(r)) /\ (Has(mailbox', DownMsg(r)) => Has(mailbox, DownMsg(r)) /\ r # r0)
      BY <1>1, <1>2, <2>1, ReceivedBox DEF IInv, DownsOK
    <2> HIDE DEF watched, r0
    <2> QED
      BY <1>2, <1>5, <2>1, <2>2 DEF DownsOK, Alive
  <1>8. RowsOK' /\ DownOK'
    BY <1>2 DEF IInv, RowsOK, DownOK, Held
  <1>9. WorkOK'
    BY <1>2 DEF WorkOK, JobOf
  <1>10. WatchOK'
    <2> SUFFICES ASSUME NEW t \in Topic, Settled(t)' PROVE Watched(t)'
      BY WatchMeaningNext
    <2> DEFINE p == table[t].pid
    <2>1. Settled(t) /\ Watched(t)
      BY <1>1, <1>2, WatchMeaning DEF IInv, Settled, Held
    <2>2. work = {} /\ server' # "announce"
      BY <1>1, <1>2 DEF IInv, WorkOK
    <2>3. CASE WillHear(mailbox, t, p)
      <3>1. WillHear(Tail(mailbox), t, p)
        BY <1>1, <2>3, WordReceived DEF IInv, TypeOK, MonitorMsg, DownMsg
      <3> QED
        BY <1>2, <3>1 DEF Watched
    <2>4. CASE NoWord(mailbox, t) /\ Monitored(t, p)
      <3>1. NoWord(mailbox', t)
        BY <1>1, <1>2, <2>4, WordReceived DEF IInv, TypeOK
      <3>2. CASE topics[t] = r0
        <4>1. t \in watched /\ StillHeldBy(t, refs[r0].pid)
          BY <1>1, <1>3, <1>4, <2>1, <2>4, <3>2 DEF Monitored, StillHeldBy, Settled
        <4>2. JobOf(t) \in work' /\ JobOf(t)' = JobOf(t)
          BY <1>2, <4>1 DEF JobOf
        <4> QED
          BY <1>2, <2>2, <3>1, <4>2 DEF Watched
      <3>3. CASE topics[t] # r0
        <4>1. Monitored(t, p)'
          <5> HIDE DEF watched, r0
          <5> QED
            BY <1>2, <1>3, <1>5, <2>4, <3>3 DEF Monitored
        <4> QED
          BY <1>2, <2>2, <3>1, <4>1 DEF Watched
      <3> QED
        BY <3>2, <3>3
    <2> QED
      BY <2>1, <2>2, <2>3, <2>4 DEF Watched
  <1> QED
    BY <1>0, <1>6, <1>7, <1>8, <1>9, <1>10, DownsMeaningNext DEF IInv, MonitorsAgree

LEMMA HandleSweepStep ==
  ASSUME IInv, Serve, HandleSweep
  PROVE  IInv'
  <1>0. TypeOK'
    BY StepType DEF IInv, Next
  <1>1. /\ server = "idle" /\ mailbox # <<>>
        /\ Head(mailbox) = SweepMsg /\ Tail(mailbox) \in Seq(Message)
    BY ReceiveType, MessageFields DEF HandleSweep, Receive, IInv
  <1>2. /\ UNCHANGED <<table, pc, refs, topics, current, exposed>>
        /\ work' = {JobOf(t) : t \in {s \in ripe : Held(s)}}
        /\ server' = IF work' = {} THEN "idle" ELSE "remove"
        /\ mailbox' = Tail(mailbox)
    BY ServeFrame DEF HandleSweep, Remove, tableVars
  <1>3. MapsInverse'
    BY <1>2 DEF IInv, MonitorsAgree, MapsInverse
  <1>4. DownsOK'
    <2>1. DownsOK
      BY DownsMeaning DEF IInv, MonitorsAgree
    <2>2. \A r \in Ref : Once(mailbox', DownMsg(r)) /\ (Has(mailbox', DownMsg(r)) => Has(mailbox, DownMsg(r)))
      BY <1>1, <1>2, <2>1, ReceivedBox DEF IInv, DownsOK
    <2> QED
      BY <1>2, <2>1, <2>2 DEF DownsOK, Alive
  <1>5. RowsOK' /\ DownOK'
    BY <1>2 DEF IInv, RowsOK, DownOK, Held
  <1>6. WorkOK'
    BY <1>2 DEF WorkOK, JobOf
  <1>7. WatchOK'
    <2> SUFFICES ASSUME NEW t \in Topic, Settled(t)' PROVE Watched(t)'
      BY WatchMeaningNext
    <2> DEFINE p == table[t].pid
    <2>1. Settled(t) /\ Watched(t)
      BY <1>1, <1>2, WatchMeaning DEF IInv, Settled, Held
    <2>2. work = {} /\ server' # "announce"
      BY <1>1, <1>2 DEF IInv, WorkOK
    <2>3. CASE WillHear(mailbox, t, p)
      <3>1. WillHear(Tail(mailbox), t, p)
        BY <1>1, <2>3, WordReceived DEF IInv, TypeOK, MonitorMsg, SweepMsg
      <3> QED
        BY <1>2, <3>1 DEF Watched
    <2>4. CASE NoWord(mailbox, t) /\ Monitored(t, p)
      <3>1. NoWord(mailbox', t)
        BY <1>1, <1>2, <2>4, WordReceived DEF IInv, TypeOK
      <3>2. Monitored(t, p)'
        BY <1>2, <2>4 DEF Monitored
      <3> QED
        BY <1>2, <2>2, <3>1, <3>2 DEF Watched
    <2> QED
      BY <2>1, <2>2, <2>3, <2>4 DEF Watched
  <1> QED
    BY <1>0, <1>3, <1>4, <1>5, <1>6, <1>7, DownsMeaningNext DEF IInv, MonitorsAgree

LEMMA RemoveRowStep ==
  ASSUME IInv, Serve, RemoveRow
  PROVE  IInv'
  <1>0. TypeOK'
    BY StepType DEF IInv, Next
  <1>1. PICK job \in work : Erase(job.topic) /\ current' = job /\ work' = work \ {job}
    BY DEF RemoveRow
  <1>2. /\ UNCHANGED <<pc, mailbox, refs, topics, timer, exposed>>
        /\ server = "remove" /\ server' = "announce"
    BY ServeFrame DEF RemoveRow, watchVars
  <1>3. job.topic \in Topic
    BY DEF IInv, TypeOK, ArbiterOK, Job
  <1>4. table'[job.topic] = NoRow /\ \A t \in Topic \ {job.topic} : table'[t] = table[t]
    BY <1>1, <1>3 DEF Erase, IInv, TypeOK
  <1>5. MonitorsAgree'
    BY <1>2 DEF IInv, MonitorsAgree, MapsInverse, DownsCurrent, Alive
  <1>6. RowsOK'
    BY <1>2, <1>3, <1>4, ConstAssumption DEF ConstAssumption, IInv, RowsOK, Held
  <1>7. WorkOK' /\ DownOK'
    BY <1>1, <1>2 DEF IInv, WorkOK, DownOK
  <1>8. WatchOK'
    <2> SUFFICES ASSUME NEW t \in Topic, Settled(t)' PROVE Watched(t)'
      BY WatchMeaningNext
    <2>1. t # job.topic /\ table'[t] = table[t]
      BY <1>4 DEF Settled, Held
    <2>2. Settled(t) /\ Watched(t)
      BY <1>2, <2>1, WatchMeaning DEF IInv, Settled, Held
    <2>3. JobOf(t)' = JobOf(t) /\ JobOf(t) # job
      BY <2>1 DEF JobOf
    <2> QED
      BY <1>1, <1>2, <2>1, <2>2, <2>3 DEF Watched, Monitored
  <1> QED
    BY <1>0, <1>5, <1>6, <1>7, <1>8 DEF IInv

LEMMA AnnounceRemovalStep ==
  ASSUME IInv, Serve, AnnounceRemoval
  PROVE  IInv'
  <1> DEFINE t0 == current.topic
  <1>0. TypeOK'
    BY StepType DEF IInv, Next
  <1>1. server = "announce" /\ t0 \in Topic
    BY DEF AnnounceRemoval, IInv, TypeOK, ArbiterOK, Job
  <1>2. /\ UNCHANGED <<table, pc, work, exposed>>
        /\ server' = IF work = {} THEN "idle" ELSE "remove"
        /\ \/ UNCHANGED <<mailbox, refs, topics>>
           \/ /\ refs' = RefsWithout(t0) /\ topics' = [topics EXCEPT ![t0] = NoRef]
              /\ mailbox' = Flush(mailbox, topics[t0])
    BY ServeFrame DEF AnnounceRemoval, tableVars, watchVars
  <1>3. mailbox \in Seq(Message)
    BY DEF IInv, TypeOK
  <1>4. RowsOK' /\ WorkOK' /\ DownOK'
    BY <1>1, <1>2 DEF IInv, RowsOK, WorkOK, DownOK, Held
  <1>5. \A t \in Topic : Settled(t)' => Settled(t) /\ Watched(t)
    BY <1>1, <1>2, WatchMeaning DEF IInv, Settled, Held
  <1>6. CASE UNCHANGED <<mailbox, refs, topics>>
    <2>1. MonitorsAgree'
      BY <1>2, <1>6 DEF IInv, MonitorsAgree, MapsInverse, DownsCurrent, Alive
    <2>2. WatchOK'
      BY <1>2, <1>5, <1>6, WatchMeaningNext DEF Watched, Monitored, JobOf
    <2> QED
      BY <1>0, <1>4, <2>1, <2>2 DEF IInv
  <1>7. CASE /\ refs' = RefsWithout(t0) /\ topics' = [topics EXCEPT ![t0] = NoRef]
             /\ mailbox' = Flush(mailbox, topics[t0])
    <2>1. /\ \A t \in Topic \ {t0} : topics[t] # NoRef => RefsWithout(t0)[topics[t]] = refs[topics[t]]
          /\ \A r \in Ref : RefsWithout(t0)[r] # NoRef => RefsWithout(t0)[r] = refs[r] /\ refs[r].topic # t0
          /\ \A r \in Ref : Once(mailbox', DownMsg(r))
          /\ \A r \in Ref : Has(mailbox', DownMsg(r)) => RefsWithout(t0)[r] # NoRef /\ ~Alive(refs[r].pid)
      BY <1>1, <1>3, <1>7, DropMonitor DEF IInv
    <2>2. /\ \A t \in Topic : topics[t] # NoRef => topics[t] \in Ref /\ refs[topics[t]] # NoRef /\ refs[topics[t]].topic = t
          /\ \A r \in Ref : refs[r] # NoRef => topics[refs[r].topic] = r /\ refs[r].topic \in Topic
          /\ topics \in [Topic -> Ref \union {NoRef}]
      BY DEF IInv, TypeOK, ArbiterOK, MonitorsAgree, MapsInverse
    <2>3. topics'[t0] = NoRef /\ \A t \in Topic \ {t0} : topics'[t] = topics[t]
      BY <1>1, <1>7, <2>2
    <2>4. MapsInverse'
      BY <1>7, <2>1, <2>2, <2>3 DEF MapsInverse
    <2>5. DownsOK'
      BY <1>2, <1>7, <2>1 DEF DownsOK, Alive
    <2>6. WatchOK'
      <3> SUFFICES ASSUME NEW t \in Topic, Settled(t)' PROVE Watched(t)'
        BY WatchMeaningNext
      <3> DEFINE p == table[t].pid
      <3>1. Watched(t)
        BY <1>5
      <3>2. CASE WillHear(mailbox, t, p)
        BY <1>2, <1>3, <1>7, <3>2, WordFlushed DEF Watched
      <3>3. CASE NoWord(mailbox, t) /\ t0 # t /\ (JobOf(t) \in work \/ Monitored(t, p))
        <4>1. NoWord(mailbox', t)
          BY <1>3, <1>7, <3>3, WordFlushed
        <4>2. Monitored(t, p) => Monitored(t, p)'
          BY <1>2, <1>7, <2>1, <2>3, <3>3 DEF Monitored
        <4>3. JobOf(t)' = JobOf(t)
          BY <1>2 DEF JobOf
        <4> QED
          BY <1>2, <3>3, <4>1, <4>2, <4>3 DEF Watched
      <3> QED
        BY <1>1, <3>1, <3>2, <3>3 DEF Watched
    <2> QED
      BY <1>0, <1>4, <2>4, <2>5, <2>6, DownsMeaningNext DEF IInv, MonitorsAgree
  <1> QED
    BY <1>2, <1>6, <1>7

LEMMA CrashStep ==
  ASSUME IInv, Fail
  PROVE  IInv'
  <1>0. TypeOK'
    BY StepType DEF IInv, Next
  <1>1. /\ UNCHANGED <<table, pc>> /\ server' = "down" /\ mailbox' = <<>> /\ timer' = FALSE
        /\ refs' = [r \in Ref |-> NoRef] /\ topics' = [t \in Topic |-> NoRef] /\ work' = {}
    BY DEF Fail, Crash, tableVars, channelVars
  <1>2. MonitorsAgree'
    BY <1>1 DEF MonitorsAgree, MapsInverse, DownsCurrent
  <1>3. RowsOK' /\ WorkOK' /\ DownOK' /\ WatchOK'
    BY <1>1 DEF IInv, RowsOK, WorkOK, DownOK, WatchOK, Settled, Held
  <1> QED
    BY <1>0, <1>2, <1>3 DEF IInv

LEMMA RestartStep ==
  ASSUME IInv, Serve, Restart
  PROVE  IInv'
  <1>0. TypeOK'
    BY StepType DEF IInv, Next
  <1>1. /\ UNCHANGED <<table, pc, mailbox, refs, topics, exposed>>
        /\ server = "down" /\ server' = IF work' = {} THEN "idle" ELSE "init"
        /\ work' = {JobOf(t) : t \in {s \in Topic : Held(s)}}
    BY ServeFrame DEF Restart, TableRows, tableVars, watchVars
  <1>2. mailbox = <<>> /\ \A t \in Topic : topics[t] = NoRef
    BY <1>1 DEF IInv, DownOK, TypeOK, ArbiterOK, MonitorsAgree, MapsInverse
  <1>3. MonitorsAgree'
    BY <1>1 DEF IInv, MonitorsAgree, MapsInverse, DownsCurrent, Alive
  <1>4. RowsOK' /\ WorkOK'
    BY <1>1 DEF IInv, RowsOK, WorkOK, JobOf, Held
  <1>5. DownOK'
    BY <1>1, <1>2 DEF DownOK, JobOf
  <1>6. WatchOK'
    <2> SUFFICES ASSUME NEW t \in Topic, Settled(t)' PROVE Watched(t)'
      BY WatchMeaningNext
    <2>1. JobOf(t)' \in work'
      BY <1>1 DEF JobOf, Settled, Held
    <2>2. NoWord(mailbox', t)
      BY <1>1, <1>2 DEF NoWord
    <2> QED
      BY <1>1, <2>1, <2>2 DEF Watched
  <1> QED
    BY <1>0, <1>3, <1>4, <1>5, <1>6 DEF IInv

LEMMA RebuildStep ==
  ASSUME IInv, Serve, Rebuild
  PROVE  IInv'
  <1> USE ConstAssumption DEF ConstAssumption
  <1>0. TypeOK'
    BY StepType DEF IInv, Next
  <1>1. PICK job \in work :
          /\ \/ /\ Alive(job.row.pid) /\ CanMonitor /\ UNCHANGED tableVars
                /\ refs' = [refs EXCEPT ![NewRef] = [topic |-> job.topic, pid |-> job.row.pid]]
                /\ topics' = [topics EXCEPT ![job.topic] = NewRef]
             \/ ~Alive(job.row.pid) /\ Erase(job.topic) /\ UNCHANGED <<refs, topics>>
          /\ work' = work \ {job}
    BY DEF Rebuild
  <1>2. /\ UNCHANGED <<pc, mailbox, timer, exposed>>
        /\ server = "init" /\ server' = IF work' = {} THEN "idle" ELSE "init"
    BY ServeFrame DEF Rebuild
  <1>3. /\ job.topic \in Topic /\ job.row \in Row /\ job.row.pid \in Pid /\ topics[job.topic] = NoRef
        /\ mailbox \in Seq(Message)
    BY <1>2 DEF IInv, TypeOK, ArbiterOK, Job, Row, DownOK
  <1>4. /\ \A t \in Topic : topics[t] # NoRef => topics[t] \in Ref /\ refs[topics[t]] # NoRef /\ refs[topics[t]].topic = t
        /\ \A r \in Ref : refs[r] # NoRef => topics[refs[r].topic] = r /\ refs[r].topic \in Topic
        /\ topics \in [Topic -> Ref \union {NoRef}]
        /\ refs \in [Ref -> [topic : Topic, pid : Pid] \union {NoRef}]
    BY DEF IInv, TypeOK, ArbiterOK, MonitorsAgree, MapsInverse
  <1>5. WorkOK'
    BY <1>1, <1>2 DEF IInv, WorkOK
  <1>6. DownsOK
    BY DownsMeaning DEF IInv, MonitorsAgree
  <1>7. \A a \in work : a.topic = job.topic => a = job
    BY DEF IInv, WorkOK
  <1>8. CASE /\ Alive(job.row.pid) /\ CanMonitor /\ UNCHANGED tableVars
             /\ refs' = [refs EXCEPT ![NewRef] = [topic |-> job.topic, pid |-> job.row.pid]]
             /\ topics' = [topics EXCEPT ![job.topic] = NewRef]
    <2>1. NewRef \in Ref /\ refs[NewRef] = NoRef /\ table' = table
      BY <1>8, NewRefType DEF tableVars
    <2>2. /\ refs'[NewRef] = [topic |-> job.topic, pid |-> job.row.pid]
          /\ refs'[NewRef] # NoRef /\ refs'[NewRef].topic = job.topic /\ refs'[NewRef].pid = job.row.pid
          /\ \A r \in Ref \ {NewRef} : refs'[r] = refs[r]
      BY <1>3, <1>4, <1>8, <2>1
    <2>3. topics'[job.topic] = NewRef /\ \A t \in Topic \ {job.topic} : topics'[t] = topics[t]
      BY <1>3, <1>4, <1>8
    <2>4. MapsInverse'
      <3>1. ASSUME NEW t \in Topic, topics'[t] # NoRef PROVE refs'[topics'[t]] # NoRef /\ refs'[topics'[t]].topic = t
        BY <1>4, <2>1, <2>2, <2>3, <3>1
      <3>2. ASSUME NEW r \in Ref, refs'[r] # NoRef PROVE topics'[refs'[r].topic] = r
        <4>1. CASE r = NewRef
          BY <2>2, <2>3, <4>1
        <4>2. CASE r # NewRef
          BY <1>3, <1>4, <2>2, <2>3, <3>2, <4>2
        <4> QED
          BY <4>1, <4>2
      <3> QED
        BY <3>1, <3>2 DEF MapsInverse
    <2>5. DownsOK'
      BY <1>2, <1>6, <2>1, <2>2 DEF DownsOK, Alive
    <2>6. RowsOK' /\ DownOK'
      <3>1. \A a \in work' : a.topic \in Topic /\ a.topic # job.topic
        BY <1>1, <1>7 DEF IInv, TypeOK, ArbiterOK, Job
      <3> QED
        BY <1>1, <1>2, <2>1, <2>3, <3>1 DEF IInv, RowsOK, DownOK, Held
    <2>7. WatchOK'
      <3> SUFFICES ASSUME NEW t \in Topic, Settled(t)' PROVE Watched(t)'
        BY WatchMeaningNext
      <3> DEFINE p == table[t].pid
      <3>1. Settled(t) /\ Watched(t) /\ JobOf(t)' = JobOf(t)
        BY <1>2, <2>1, WatchMeaning DEF IInv, Settled, Held, JobOf
      <3>2. CASE WillHear(mailbox, t, p)
        BY <1>2, <2>1, <3>2 DEF Watched
      <3>3. CASE NoWord(mailbox, t) /\ t = job.topic
        <4>1. JobOf(t) \in work \/ Monitored(t, p) \/ WillHear(mailbox, t, p)
          BY <3>1 DEF Watched
        <4>2. WillHear(mailbox, t, p) => Monitored(t, p)'
          BY <3>3 DEF WillHear, NoWord, About, MonitorMsg
        <4>3. JobOf(t) \in work => job.row = table[t]
          BY <1>7, <3>3 DEF JobOf
        <4>4. Monitored(t, p)'
          BY <1>3, <2>1, <2>2, <2>3, <3>3, <4>1, <4>2, <4>3 DEF Monitored
        <4> QED
          BY <1>2, <2>1, <3>3, <4>4 DEF Watched
      <3>4. CASE NoWord(mailbox, t) /\ t # job.topic /\ JobOf(t) \in work
        BY <1>1, <1>2, <2>1, <3>1, <3>4 DEF Watched, JobOf
      <3>5. CASE NoWord(mailbox, t) /\ t # job.topic /\ Monitored(t, p)
        <4>1. Monitored(t, p)'
          BY <1>4, <2>1, <2>2, <2>3, <3>5 DEF Monitored
        <4> QED
          BY <1>2, <2>1, <3>5, <4>1 DEF Watched
      <3> QED
        BY <3>1, <3>2, <3>3, <3>4, <3>5 DEF Watched
    <2> QED
      BY <1>0, <1>5, <2>4, <2>5, <2>6, <2>7, DownsMeaningNext DEF IInv, MonitorsAgree
  <1>9. CASE ~Alive(job.row.pid) /\ Erase(job.topic) /\ UNCHANGED <<refs, topics>>
    <2>1. table'[job.topic] = NoRow /\ \A t \in Topic \ {job.topic} : table'[t] = table[t]
      BY <1>3, <1>9 DEF Erase, IInv, TypeOK
    <2>2. MonitorsAgree'
      BY <1>2, <1>9 DEF IInv, MonitorsAgree, MapsInverse, DownsCurrent, Alive
    <2>3. RowsOK' /\ DownOK'
      BY <1>1, <1>2, <1>9, <2>1 DEF IInv, RowsOK, DownOK, Held
    <2>4. WatchOK'
      <3> SUFFICES ASSUME NEW t \in Topic, Settled(t)' PROVE Watched(t)'
        BY WatchMeaningNext
      <3>1. t # job.topic /\ table'[t] = table[t]
        BY <2>1 DEF Settled, Held
      <3>2. Settled(t) /\ Watched(t)
        BY <1>2, <3>1, WatchMeaning DEF IInv, Settled, Held
      <3>3. JobOf(t)' = JobOf(t) /\ JobOf(t) # job
        BY <3>1 DEF JobOf
      <3> QED
        BY <1>1, <1>2, <1>9, <3>1, <3>2, <3>3 DEF Watched, Monitored
    <2> QED
      BY <1>0, <1>5, <2>2, <2>3, <2>4 DEF IInv
  <1> QED
    BY <1>1, <1>8, <1>9

LEMMA InvariantInit == Init => IInv
  <1> SUFFICES ASSUME Init PROVE IInv
    OBVIOUS
  <1>1. TypeOK
    BY InitType
  <1>2. MonitorsAgree /\ RowsOK /\ WorkOK /\ DownOK /\ WatchOK
    BY DEF Init, MonitorsAgree, MapsInverse, DownsCurrent, RowsOK, WorkOK, DownOK, WatchOK, Settled, Held
  <1> QED
    BY <1>1, <1>2 DEF IInv

LEMMA InvariantStep == IInv /\ [Next]_vars => IInv'
  <1> SUFFICES ASSUME IInv, [Next]_vars PROVE IInv'
    OBVIOUS
  <1>0. TypeOK'
    BY StepType DEF IInv
  <1>1. ASSUME NEW p \in Pid, Continue(p) PROVE IInv'
    <2>1. WorkOK'
      BY <1>1, ContinueFrame DEF IInv, WorkOK
    <2>2. DownOK'
      BY <1>1, ContinueFrame DEF IInv, DownOK
    <2> QED
      BY <1>0, <1>1, <2>1, <2>2, ContinueMonitors, ContinueRows, ContinueWatch DEF IInv
  <1>2. ASSUME NEW p \in Pid, Event(p) PROVE IInv'
    <2>1. WorkOK' /\ DownOK'
      BY <1>2, EventFrame DEF IInv, WorkOK, DownOK
    <2> QED
      BY <1>0, <1>2, <2>1, EventMonitors, EventRows, EventWatch DEF IInv
  <1>3. ASSUME NEW r \in Ref, DownArrives(r) PROVE IInv'
    BY <1>3, SignalStep
  <1>4. ASSUME NEW t \in Topic, Ripen(t) PROVE IInv'
    <2>1. UNCHANGED <<table, pc, server, mailbox, refs, topics, timer, work, current, reason, exposed>>
      BY <1>4 DEF Ripen, channelVars, watchVars, jobVars, histVars
    <2> QED
      BY <1>0, <2>1 DEF IInv, MonitorsAgree, MapsInverse, DownsCurrent, RowsOK, WorkOK, DownOK,
        WatchOK, Settled, Held, Monitored, JobOf, Alive
  <1>5. CASE SweepTimer
    BY <1>5, SweepTimerStep
  <1>6. CASE Serve
    BY <1>6, HandleMonitorStep, HandleDemonitorStep, HandleDownStep, HandleSweepStep,
       RemoveRowStep, AnnounceRemovalStep, RestartStep, RebuildStep DEF Serve
  <1>7. CASE Fail
    BY <1>7, CrashStep
  <1>8. CASE UNCHANGED vars
    <2>1. UNCHANGED <<table, pc, server, mailbox, refs, topics, timer, work, current, reason, exposed>>
      BY <1>8 DEF vars, tableVars, channelVars, watchVars, jobVars, histVars
    <2> QED
      BY <1>0, <2>1 DEF IInv, MonitorsAgree, MapsInverse, DownsCurrent, RowsOK, WorkOK, DownOK,
        WatchOK, Settled, Held, Monitored, JobOf, Alive
  <1> QED
    BY <1>1, <1>2, <1>3, <1>4, <1>5, <1>6, <1>7, <1>8 DEF Next

LEMMA InvariantHolds == Spec => []IInv
  BY InvariantInit, InvariantStep, PTL DEF Spec

-----------------------------------------------------------------------------
\* state.refs and state.topics never disagree, and a DOWN message in the mailbox
\* is always for a reference the arbiter still knows.
THEOREM MonitorsCorrect == Spec => []MonitorsAgree
  BY InvariantHolds, PTL DEF IInv

\* Every holder is watched or is going to be, whatever crashes and restarts,
\* except those whose watch a late cast or an early death undid.
THEOREM WatchCorrect == Spec => []HoldersWatched
  <1>1. IInv => HoldersWatched
    BY DEF IInv, WatchOK, HoldersWatched, Settled
  <1> QED
    BY <1>1, InvariantHolds, PTL

-----------------------------------------------------------------------------
(* The sweep *)

\* SweepComing in terms of what is in the mailbox.
SweepOK ==
  server # "down" =>
    /\ (timer \/ reason = "expired") <=> ~Has(mailbox, SweepMsg)
    /\ ~(timer /\ reason = "expired")
    /\ Once(mailbox, SweepMsg)

LEMMA SweepMeaning == SweepComing <=> SweepOK
  BY DEF SweepComing, SweepOK, Has, Once

LEMMA SweepMeaningNext == SweepComing' <=> SweepOK'
  BY DEF SweepComing, SweepOK, Has, Once

\* Only the timer puts a sweep in the mailbox, only HandleSweep takes it out.
LEMMA SweepKept ==
  ASSUME TypeOK, SweepOK, UNCHANGED <<server, timer, reason>>,
         \/ mailbox' = mailbox
         \/ \E m \in Message : m # SweepMsg /\ mailbox' = Append(mailbox, m)
         \/ mailbox # <<>> /\ Head(mailbox) # SweepMsg /\ \E r : mailbox' = Flush(Tail(mailbox), r)
  PROVE  SweepOK'
  <1>1. (Has(mailbox', SweepMsg) <=> Has(mailbox, SweepMsg)) /\ (Once(mailbox, SweepMsg) => Once(mailbox', SweepMsg))
    <2>1. ASSUME NEW m \in Message, m # SweepMsg, mailbox' = Append(mailbox, m)
          PROVE  /\ Has(mailbox', SweepMsg) <=> Has(mailbox, SweepMsg)
                 /\ Once(mailbox, SweepMsg) => Once(mailbox', SweepMsg)
      BY <2>1, Appended DEF TypeOK
    <2>2. ASSUME mailbox # <<>>, Head(mailbox) # SweepMsg, NEW r, mailbox' = Flush(Tail(mailbox), r)
          PROVE  /\ Has(mailbox', SweepMsg) <=> Has(mailbox, SweepMsg)
                 /\ Once(mailbox, SweepMsg) => Once(mailbox', SweepMsg)
      <3>1. Tail(mailbox) \in Seq(Message)
        BY <2>2, HeadTailProperties DEF TypeOK
      <3>2. SweepMsg # DownMsg(r)
        BY DEF SweepMsg, DownMsg
      <3> QED
        BY <2>2, <3>1, <3>2, Received, Flushed DEF TypeOK
    <2> QED
      BY <2>1, <2>2
  <1> QED
    BY <1>1 DEF SweepOK

LEMMA SweepStep == IInv /\ IInv' /\ SweepOK /\ [Next]_vars => SweepOK'
  <1> SUFFICES ASSUME IInv, IInv', SweepOK, [Next]_vars PROVE SweepOK'
    OBVIOUS
  <1> USE ConstAssumption DEF ConstAssumption
  <1>0. TypeOK /\ mailbox \in Seq(Message)
    BY DEF IInv, TypeOK
  <1>1. ASSUME NEW p \in Pid, Continue(p) PROVE SweepOK'
    <2>1. /\ MonitorMsg(TopicOf[p], p) \in Message /\ MonitorMsg(TopicOf[p], p) # SweepMsg
          /\ DemonitorMsg(TopicOf[p]) \in Message /\ DemonitorMsg(TopicOf[p]) # SweepMsg
      BY DEF Message, MonitorMsg, DemonitorMsg, SweepMsg
    <2> QED
      BY <1>0, <1>1, <2>1, ContinueFrame, SweepKept
  <1>2. ASSUME NEW p \in Pid, Event(p) PROVE SweepOK'
    BY <1>0, <1>2, EventFrame, SweepKept
  <1>3. ASSUME NEW r \in Ref, DownArrives(r) PROVE SweepOK'
    <2>1. DownMsg(r) \in Message /\ DownMsg(r) # SweepMsg
      BY DEF Message, DownMsg, SweepMsg
    <2> QED
      BY <1>0, <1>3, <2>1, SweepKept DEF DownArrives, jobVars
  <1>4. ASSUME NEW t \in Topic, Ripen(t) PROVE SweepOK'
    BY <1>0, <1>4, SweepKept DEF Ripen, watchVars, jobVars
  <1>5. CASE SweepTimer
    <2>1. SweepMsg \in Message /\ UNCHANGED <<server, reason>> /\ timer /\ timer' = FALSE
      BY <1>5 DEF SweepTimer, jobVars, Message
    <2>2. server # "down" => ~Has(mailbox, SweepMsg)
      BY <2>1 DEF SweepOK
    <2>3. server # "down" => Has(mailbox', SweepMsg) /\ Once(mailbox', SweepMsg)
      BY <1>0, <1>5, <2>1, <2>2, Appended DEF SweepTimer, SweepOK
    <2> QED
      BY <2>1, <2>3 DEF SweepOK
  <1>6. CASE HandleMonitor \/ HandleDemonitor
    <2>1. Head(mailbox) # SweepMsg /\ mailbox # <<>> /\ UNCHANGED <<server, timer, reason>>
      BY <1>6 DEF HandleMonitor, HandleDemonitor, Receive, SweepMsg, jobVars
    <2> QED
      BY <1>0, <1>6, <2>1, SweepKept DEF HandleMonitor, HandleDemonitor
  <1>7. CASE HandleDown
    <2>1. /\ Head(mailbox) # SweepMsg /\ mailbox # <<>> /\ UNCHANGED timer /\ mailbox' = Tail(mailbox)
          /\ server = "idle" /\ server' # "down" /\ reason' # "expired"
      BY <1>7 DEF HandleDown, Receive, Remove, SweepMsg
    <2>2. reason # "expired"
      BY <2>1 DEF IInv, TypeOK, ArbiterOK
    <2>3. /\ Has(mailbox', SweepMsg) <=> Has(mailbox, SweepMsg)
          /\ Once(mailbox, SweepMsg) => Once(mailbox', SweepMsg)
      BY <1>0, <2>1, Received
    <2> QED
      BY <2>1, <2>2, <2>3 DEF SweepOK
  <1>8. CASE HandleSweep
    <2>1. /\ Head(mailbox) = SweepMsg /\ mailbox # <<>> /\ mailbox' = Tail(mailbox)
          /\ server = "idle" /\ server' # "down"
      BY <1>8, ReceiveType, MessageFields DEF HandleSweep, Receive, Remove, IInv
    <2>2. Has(mailbox, SweepMsg) /\ ~Has(mailbox', SweepMsg) /\ Once(mailbox', SweepMsg)
      BY <1>0, <2>1, Received DEF SweepOK
    <2>3. ~timer
      BY <2>1, <2>2 DEF SweepOK
    <2>4. (timer' \/ reason' = "expired") /\ ~(timer' /\ reason' = "expired")
      BY <1>8, <2>3 DEF HandleSweep, Remove, ScheduleSweep
    <2> QED
      BY <2>1, <2>2, <2>4 DEF SweepOK
  <1>9. CASE RemoveRow
    BY <1>9 DEF RemoveRow, watchVars, SweepOK
  <1>10. CASE AnnounceRemoval
    <2>1. Has(mailbox', SweepMsg) <=> Has(mailbox, SweepMsg)
      <3>1. mailbox' = mailbox \/ mailbox' = Flush(mailbox, topics[current.topic])
        BY <1>10 DEF AnnounceRemoval, watchVars
      <3>2. SweepMsg # DownMsg(topics[current.topic])
        BY DEF SweepMsg, DownMsg
      <3> QED
        BY <1>0, <3>1, <3>2, Flushed
    <2>2. Once(mailbox, SweepMsg) => Once(mailbox', SweepMsg)
      BY <1>0, <1>10, Flushed DEF AnnounceRemoval, watchVars
    <2>3. server = "announce" /\ server' # "down"
      BY <1>10 DEF AnnounceRemoval
    <2>4. CASE work = {} /\ reason = "expired"
      BY <1>10, <2>1, <2>2, <2>3, <2>4 DEF AnnounceRemoval, ScheduleSweep, SweepOK
    <2>5. CASE ~(work = {} /\ reason = "expired")
      <3>1. timer' = timer /\ (reason' = "expired" <=> reason = "expired")
        BY <1>10, <2>5 DEF AnnounceRemoval
      <3> QED
        BY <2>1, <2>2, <2>3, <3>1 DEF SweepOK
    <2> QED
      BY <2>4, <2>5
  <1>11. CASE Restart
    <2>1. server = "down" /\ mailbox' = mailbox /\ timer' = TRUE /\ reason' = reason
      BY <1>11 DEF Restart, watchVars, ScheduleSweep
    <2>2. mailbox = <<>> /\ reason # "expired"
      BY <2>1 DEF IInv, DownOK, TypeOK, ArbiterOK
    <2> QED
      BY <2>1, <2>2 DEF SweepOK, Has, Once
  <1>12. CASE Rebuild
    BY <1>12 DEF Rebuild, SweepOK
  <1>13. CASE Fail
    BY <1>13 DEF Fail, Crash, SweepOK
  <1>14. CASE UNCHANGED vars
    BY <1>0, <1>14, SweepKept DEF vars, watchVars, jobVars
  <1> QED
    BY <1>1, <1>2, <1>3, <1>4, <1>5, <1>6, <1>7, <1>8, <1>9, <1>10, <1>11, <1>12, <1>13, <1>14 DEF Next, Serve

\* While the arbiter is up exactly one sweep is due, queued or under way.
THEOREM SweepCorrect == Spec => []SweepComing
  <1>1. Init => SweepOK
    BY DEF Init, SweepOK, Has, Once
  <1>2. IInv /\ SweepOK /\ [Next]_vars => SweepOK'
    BY SweepStep, InvariantStep
  <1>3. SweepOK => SweepComing
    BY SweepMeaning
  <1> QED
    BY <1>1, <1>2, <1>3, InvariantHolds, PTL DEF Spec

-----------------------------------------------------------------------------
(* What the arbiter removes for a death *)

LEMMA DisconnectStep == IInv /\ DisconnectsOnlyTheDead /\ [Next]_vars => DisconnectsOnlyTheDead'
  <1> SUFFICES ASSUME IInv, DisconnectsOnlyTheDead, [Next]_vars PROVE DisconnectsOnlyTheDead'
    OBVIOUS
  <1> USE ConstAssumption DEF ConstAssumption
  <1>0. /\ \A job \in work : job.row.pid \in Pid
        /\ server = "announce" => current.row.pid \in Pid
    BY DEF IInv, TypeOK, ArbiterOK, Job, Row
  <1>1. ASSUME NEW p \in Pid, Continue(p) PROVE DisconnectsOnlyTheDead'
    BY <1>0, <1>1, ContinueFrame DEF IInv, DisconnectsOnlyTheDead, Alive
  <1>2. ASSUME NEW p \in Pid, Event(p) PROVE DisconnectsOnlyTheDead'
    BY <1>0, <1>2, EventFrame DEF IInv, DisconnectsOnlyTheDead, Alive
  <1>3. ASSUME \/ \E r \in Ref : DownArrives(r)
               \/ \E t \in Topic : Ripen(t)
               \/ SweepTimer \/ UNCHANGED vars
        PROVE  DisconnectsOnlyTheDead'
    <2>1. UNCHANGED <<pc, server, work, current, reason>>
      BY <1>3 DEF DownArrives, Ripen, SweepTimer, vars, channelVars, jobVars
    <2> QED
      BY <2>1 DEF DisconnectsOnlyTheDead, Alive
  <1>4. CASE Fail
    BY <1>4 DEF Fail, Crash, DisconnectsOnlyTheDead
  <1>5. CASE Serve
    <2>1. UNCHANGED pc
      BY <1>5, ServeFrame
    <2>2. CASE HandleDown
      <3> DEFINE r0 == Head(mailbox).ref
      <3>1. r0 \in Ref /\ mailbox # <<>> /\ Head(mailbox) = DownMsg(r0)
        BY <2>2, ReceiveType, MessageFields DEF HandleDown, Receive, IInv
      <3>2. ~Alive(refs[r0].pid)
        <4>1. Has(mailbox, DownMsg(r0))
          BY <3>1, Received DEF IInv, TypeOK
        <4> QED
          BY <3>1, <4>1, DownsMeaning DEF IInv, MonitorsAgree, DownsOK
      <3>3. \A job \in work' : job.row.pid = refs[r0].pid
        BY <2>2 DEF HandleDown, JobOf, StillHeldBy
      <3>4. server' # "announce"
        BY <2>2 DEF HandleDown, Remove
      <3> QED
        BY <2>1, <3>2, <3>3, <3>4 DEF DisconnectsOnlyTheDead, Alive
    <2>3. CASE HandleMonitor \/ HandleDemonitor \/ HandleSweep \/ Restart \/ Rebuild
      <3>1. reason \in {"none"} => reason' # "disconnected"
        BY <2>3 DEF HandleMonitor, HandleDemonitor, HandleSweep, Restart, Rebuild, Remove, jobVars
      <3>2. reason = "none"
        BY <2>3 DEF HandleMonitor, HandleDemonitor, HandleSweep, Restart, Rebuild, Receive,
                    IInv, TypeOK, ArbiterOK
      <3> QED
        BY <3>1, <3>2 DEF DisconnectsOnlyTheDead
    <2>4. CASE RemoveRow
      BY <2>1, <2>4 DEF RemoveRow, DisconnectsOnlyTheDead, Alive
    <2>5. CASE AnnounceRemoval
      BY <2>1, <2>5 DEF AnnounceRemoval, DisconnectsOnlyTheDead, Alive
    <2> QED
      BY <1>5, <2>2, <2>3, <2>4, <2>5 DEF Serve
  <1> QED
    BY <1>1, <1>2, <1>3, <1>4, <1>5 DEF Next

\* The arbiter ends a hold as "disconnected" only for a process that is dead.
THEOREM DisconnectCorrect == Spec => []DisconnectsOnlyTheDead
  <1>1. Init => DisconnectsOnlyTheDead
    BY DEF Init, DisconnectsOnlyTheDead
  <1> QED
    BY <1>1, DisconnectStep, InvariantHolds, PTL DEF Spec

-----------------------------------------------------------------------------
(* What the backend is told *)

\* One process per user in a topic.  With two, one of them may erase a row of the
\* other that it has never looked up, and nobody reports its end.
OneDevice ==
  \A p, q \in Pid : TopicOf[p] = TopicOf[q] /\ UserOf[p] = UserOf[q] => p = q

\* The arbiter has not touched the table so far.  Once it has, or a process was
\* killed, it stays so: ~Orderly is stable.
Orderly == Calm /\ server \notin {"announce", "down", "init"}

\* A row bears the user of its process and a number given out.
RowsGiven ==
  \A t \in Topic : Held(t) => table[t].user = UserOf[table[t].pid] /\ table[t].hold <= holds

\* Whoever terminates does nothing but release.
LeavingOK ==
  \A p \in leaving : pc[p] \in {"lookup", "delete", "cast_demonitor", "announce_free", "dead"}

\* The floor a process is about to erase is its own, and the one it looked up;
\* after that it has none.
ReleaseOK ==
  /\ \A p \in Pid : pc[p] = "delete" => Held(TopicOf[p]) /\ table[TopicOf[p]] = seen[p] /\ seen[p].pid = p
  /\ \A t \in Topic : Held(t) => pc[table[t].pid] \notin {"cast_demonitor", "announce_free", "dead"}

\* The events that were not sent are about to be sent.
AcquiredTold(h) ==
  \/ <<h, "acquired">> \in events
  \/ \E p \in Pid : pc[p] = "cast_monitor" /\ seen[p].hold = h

ReleasedTold(h) ==
  \/ <<h, "released">> \in events
  \/ \E t \in Topic : Held(t) /\ table[t].hold = h
  \/ \E p \in Pid : pc[p] = "cast_demonitor" /\ seen[p].hold = h

EventsOK == \A h \in 1 .. holds : AcquiredTold(h) /\ ReleasedTold(h)

TInv ==
  /\ RowsGiven /\ LeavingOK
  /\ crashes = 0 => server \notin {"down", "init"}
  /\ OneDevice /\ Orderly => ReleaseOK /\ EventsOK

\* What a step of a handler does to the floors and the events.
Back(p) == IF p \in leaving THEN "dead" ELSE "idle"

Takes(p) ==
  /\ pc[p] = "insert" /\ pc'[p] = "cast_monitor" /\ ~Held(TopicOf[p]) /\ holds' = holds + 1
  /\ table' = [table EXCEPT ![TopicOf[p]] = [user |-> UserOf[p], pid |-> p, hold |-> holds + 1]]
  /\ seen'[p] = [user |-> UserOf[p], pid |-> p, hold |-> holds + 1]

Gives(p) ==
  /\ pc[p] = "delete" /\ pc'[p] = "cast_demonitor" /\ holds' = holds /\ seen'[p] = seen[p]
  /\ table' = [table EXCEPT ![TopicOf[p]] = NoRow]

Tells(p) ==
  \/ /\ pc[p] = "cast_monitor" /\ pc'[p] = "announce_holder"
     /\ <<seen[p].hold, "acquired">> \in events'
  \/ /\ pc[p] = "cast_demonitor" /\ pc'[p] = "announce_free"
     /\ <<seen[p].hold, "released">> \in events'

Reads(p) ==
  \/ /\ pc[p] = "lookup" /\ pc'[p] = "delete"
     /\ Holds(TopicOf[p], UserOf[p]) /\ seen'[p] = table[TopicOf[p]]
  \/ pc[p] = "lookup" /\ ~Holds(TopicOf[p], UserOf[p]) /\ pc'[p] = Back(p)
  \/ pc[p] \in {"insert", "read"} /\ pc'[p] \in {"insert", "read", "announce_holder"}
  \/ pc[p] \in {"read", "announce_holder", "announce_free", "send_frame"} /\ pc'[p] = Back(p)

LEMMA ContinueShape ==
  ASSUME TypeOK, NEW p \in Pid, Continue(p)
  PROVE  /\ leaving' = leaving /\ events \subseteq events' /\ crashes' = crashes
         /\ \A q \in Pid \ {p} : pc'[q] = pc[q] /\ seen'[q] = seen[q]
         /\ \/ Takes(p) \/ Gives(p)
            \/ UNCHANGED <<table, holds>> /\ (Tells(p) \/ Reads(p))
  <1> USE ConstAssumption DEF ConstAssumption, Goto, Return, Back, tableVars, histVars, TypeOK, ChannelsOK
  <1>1. CASE InsertNew(p)
    BY <1>1 DEF InsertNew, CanInsert, Takes, Reads
  <1>2. CASE CastMonitor(p) \/ CastDemonitor(p)
    BY <1>2 DEF CastMonitor, CastDemonitor, Tells
  <1>3. CASE ReadHolder(p)
    BY <1>3 DEF ReadHolder, Reads
  <1>4. CASE AnnounceHolder(p) \/ AnnounceFree(p) \/ SendFrame(p)
    BY <1>4 DEF AnnounceHolder, AnnounceFree, SendFrame, Reads
  <1>5. CASE Lookup(p)
    BY <1>5 DEF Lookup, Reads
  <1>6. CASE Delete(p)
    BY <1>6 DEF Delete, Erase, Gives
  <1> QED
    BY <1>1, <1>2, <1>3, <1>4, <1>5, <1>6 DEF Continue

\* What was told stays told, and what is about to be told stays so or is told.
LEMMA AcquiredKept ==
  ASSUME NEW h, AcquiredTold(h), events \subseteq events',
         \A q \in Pid : pc[q] = "cast_monitor" /\ seen[q].hold = h =>
           (pc'[q] = "cast_monitor" /\ seen'[q] = seen[q]) \/ <<h, "acquired">> \in events'
  PROVE  AcquiredTold(h)'
  <1>1. CASE <<h, "acquired">> \in events
    BY <1>1 DEF AcquiredTold
  <1>2. ASSUME NEW q \in Pid, pc[q] = "cast_monitor", seen[q].hold = h PROVE AcquiredTold(h)'
    BY <1>2 DEF AcquiredTold
  <1> QED
    BY <1>1, <1>2 DEF AcquiredTold

LEMMA ReleasedKept ==
  ASSUME NEW h, ReleasedTold(h), events \subseteq events',
         \A t \in Topic : Held(t) /\ table[t].hold = h =>
           table'[t] = table[t] \/ \E q \in Pid : pc'[q] = "cast_demonitor" /\ seen'[q].hold = h,
         \A q \in Pid : pc[q] = "cast_demonitor" /\ seen[q].hold = h =>
           (pc'[q] = "cast_demonitor" /\ seen'[q] = seen[q]) \/ <<h, "released">> \in events'
  PROVE  ReleasedTold(h)'
  <1>1. CASE <<h, "released">> \in events
    BY <1>1 DEF ReleasedTold
  <1>2. ASSUME NEW t \in Topic, Held(t), table[t].hold = h PROVE ReleasedTold(h)'
    BY <1>2 DEF ReleasedTold, Held
  <1>3. ASSUME NEW q \in Pid, pc[q] = "cast_demonitor", seen[q].hold = h PROVE ReleasedTold(h)'
    BY <1>3 DEF ReleasedTold
  <1> QED
    BY <1>1, <1>2, <1>3 DEF ReleasedTold

LEMMA ContinueTold ==
  ASSUME TypeOK, RowsOK, TInv, NEW p \in Pid, Continue(p), Orderly' => Orderly
  PROVE  TInv'
  <1> USE ConstAssumption DEF ConstAssumption
  <1>0. /\ TopicOf[p] \in Topic /\ holds \in Nat /\ \A t \in Topic : Held(t) => table[t] \in Row
        /\ \A t \in Topic : Held(t) => table[t].pid \in Pid /\ table[t].hold \in Nat
        /\ \A q \in Pid : pc[q] \in {"delete", "cast_monitor", "cast_demonitor"} => seen[q] \in Row
    BY DEF TypeOK, ChannelsOK, Held, Row, Hold
  <1>1. /\ leaving' = leaving /\ events \subseteq events' /\ crashes' = crashes /\ server' = server
        /\ \A q \in Pid \ {p} : pc'[q] = pc[q] /\ seen'[q] = seen[q]
    BY ContinueShape, ContinueFrame
  <1>2. Takes(p) \/ Gives(p) \/ (UNCHANGED <<table, holds>> /\ (Tells(p) \/ Reads(p)))
    BY ContinueShape
  <1>3. leaving \subseteq Pid
    BY DEF TypeOK, ChannelsOK
  <1>4. Takes(p) => /\ table'[TopicOf[p]] = [user |-> UserOf[p], pid |-> p, hold |-> holds + 1]
                    /\ [user |-> UserOf[p], pid |-> p, hold |-> holds + 1] # NoRow
                    /\ \A t \in Topic \ {TopicOf[p]} : table'[t] = table[t]
    <2>1. TypeOK'
      BY ContinueType
    <2>2. holds + 1 \in 0 .. MaxHolds => holds + 1 \in Hold
      BY <1>0 DEF Hold
    <2>3. Takes(p) => [user |-> UserOf[p], pid |-> p, hold |-> holds + 1] \in Row
      BY <2>1, <2>2 DEF Takes, TypeOK, Row
    <2> QED
      BY <1>0, <2>3 DEF Takes, TypeOK
  <1>5. Gives(p) => table'[TopicOf[p]] = NoRow /\ \A t \in Topic \ {TopicOf[p]} : table'[t] = table[t]
    BY <1>0 DEF Gives, TypeOK
  <1>6. RowsGiven'
    BY <1>0, <1>2, <1>4, <1>5 DEF TInv, RowsGiven, Held, Takes, Gives
  <1>7. LeavingOK'
    BY <1>1, <1>2, <1>3 DEF TInv, LeavingOK, Takes, Gives, Tells, Reads, Back
  <1>8. ASSUME OneDevice, Orderly' PROVE ReleaseOK' /\ EventsOK'
    <2>1. ReleaseOK /\ EventsOK
      BY <1>8 DEF TInv
    <2>2. \A t \in Topic : Held(t) /\ table[t].pid = p => t = TopicOf[p] /\ Holds(TopicOf[p], UserOf[p])
      BY DEF RowsOK, TInv, RowsGiven, Holds
    <2>3. Holds(TopicOf[p], UserOf[p]) => Held(TopicOf[p]) /\ table[TopicOf[p]].pid = p
      BY <1>0, <1>8 DEF RowsOK, TInv, RowsGiven, Holds, OneDevice
    <2>4. p \in leaving => pc[p] \notin {"read", "announce_holder", "send_frame"}
      BY DEF TInv, LeavingOK
    <2>5. CASE Takes(p)
      <3>1. ReleaseOK'
        BY <1>0, <1>1, <1>4, <2>1, <2>5 DEF ReleaseOK, Takes, Held
      <3>2. ASSUME NEW h \in 1 .. holds PROVE AcquiredTold(h)' /\ ReleasedTold(h)'
        <4>1. AcquiredTold(h) /\ ReleasedTold(h)
          BY <2>1 DEF EventsOK
        <4>2. \A q \in Pid : pc[q] \in {"cast_monitor", "cast_demonitor"} => pc'[q] = pc[q] /\ seen'[q] = seen[q]
          BY <1>1, <2>5 DEF Takes
        <4>3. \A t \in Topic : Held(t) => table'[t] = table[t]
          BY <1>4, <2>5 DEF Takes
        <4> QED
          BY <1>1, <4>1, <4>2, <4>3, AcquiredKept, ReleasedKept
      <3>3. ASSUME NEW h, h = holds + 1 PROVE AcquiredTold(h)' /\ ReleasedTold(h)'
        <4>1. pc'[p] = "cast_monitor" /\ seen'[p].hold = h
          BY <2>5, <3>3 DEF Takes
        <4>2. table'[TopicOf[p]] # NoRow /\ table'[TopicOf[p]].hold = h
          BY <1>4, <2>5, <3>3
        <4> QED
          BY <1>0, <4>1, <4>2 DEF AcquiredTold, ReleasedTold, Held
      <3>4. holds' = holds + 1
        BY <2>5 DEF Takes
      <3>5. ASSUME NEW h \in 1 .. holds' PROVE AcquiredTold(h)' /\ ReleasedTold(h)'
        <4>1. h \in 1 .. holds \/ h = holds + 1
          BY <1>0, <3>4
        <4> QED
          BY <3>2, <3>3, <4>1
      <3> QED
        BY <3>1, <3>5 DEF EventsOK
    <2>6. CASE Gives(p)
      <3>1. table[TopicOf[p]] = seen[p] /\ seen[p].pid = p
        BY <2>1, <2>6 DEF ReleaseOK, Gives
      <3>2. \A q \in Pid \ {p} : pc[q] = "delete" => TopicOf[q] # TopicOf[p]
        BY <2>1, <3>1 DEF ReleaseOK
      <3>3. ReleaseOK'
        BY <1>0, <1>1, <1>5, <2>1, <2>2, <2>6, <3>2 DEF ReleaseOK, Gives, Held
      <3>4. ASSUME NEW h \in 1 .. holds PROVE AcquiredTold(h)' /\ ReleasedTold(h)'
        <4>1. AcquiredTold(h) /\ ReleasedTold(h)
          BY <2>1 DEF EventsOK
        <4>2. \A q \in Pid : pc[q] \in {"cast_monitor", "cast_demonitor"} => pc'[q] = pc[q] /\ seen'[q] = seen[q]
          BY <1>1, <2>6 DEF Gives
        <4>3. \A t \in Topic : table[t].hold = h =>
                table'[t] = table[t] \/ (pc'[p] = "cast_demonitor" /\ seen'[p].hold = h)
          BY <1>5, <2>6, <3>1 DEF Gives
        <4> QED
          BY <1>1, <4>1, <4>2, <4>3, AcquiredKept, ReleasedKept
      <3>5. holds' = holds
        BY <2>6 DEF Gives
      <3> QED
        BY <3>3, <3>4, <3>5 DEF EventsOK
    <2>7. CASE UNCHANGED <<table, holds>> /\ Tells(p)
      <3>1. ReleaseOK'
        BY <1>0, <1>1, <2>1, <2>7 DEF ReleaseOK, Tells, Held
      <3>2. ASSUME NEW h \in 1 .. holds PROVE AcquiredTold(h)' /\ ReleasedTold(h)'
        <4>1. AcquiredTold(h) /\ ReleasedTold(h)
          BY <2>1 DEF EventsOK
        <4>2. \A q \in Pid : pc[q] \in {"cast_monitor", "cast_demonitor"} =>
                (pc'[q] = pc[q] /\ seen'[q] = seen[q]) \/ (q = p /\ Tells(p))
          BY <1>1, <2>7 DEF Tells
        <4> QED
          BY <1>1, <2>7, <4>1, <4>2, AcquiredKept, ReleasedKept DEF Tells
      <3> QED
        BY <2>7, <3>1, <3>2 DEF EventsOK
    <2>8. CASE UNCHANGED <<table, holds>> /\ Reads(p)
      <3>1. ReleaseOK'
        BY <1>0, <1>1, <2>1, <2>2, <2>3, <2>4, <2>8 DEF ReleaseOK, Reads, Back, Held
      <3>2. ASSUME NEW h \in 1 .. holds PROVE AcquiredTold(h)' /\ ReleasedTold(h)'
        <4>1. AcquiredTold(h) /\ ReleasedTold(h)
          BY <2>1 DEF EventsOK
        <4>2. \A q \in Pid : pc[q] \in {"cast_monitor", "cast_demonitor"} =>
                (pc'[q] = pc[q] /\ seen'[q] = seen[q])
          BY <1>1, <2>8 DEF Reads
        <4> QED
          BY <1>1, <2>8, <4>1, <4>2, AcquiredKept, ReleasedKept
      <3> QED
        BY <2>8, <3>1, <3>2 DEF EventsOK
    <2> QED
      BY <1>2, <2>5, <2>6, <2>7, <2>8
  <1> QED
    BY <1>1, <1>6, <1>7, <1>8 DEF TInv

LEMMA EventTold ==
  ASSUME TypeOK, RowsOK, TInv, NEW p \in Pid, Event(p), Orderly' => Orderly
  PROVE  TInv'
  <1>0. \A t \in Topic : Held(t) => table[t].pid \in Pid
    BY DEF TypeOK, Held, Row
  <1>1. /\ UNCHANGED <<table, holds, crashes, events, server>>
        /\ \A q \in Pid \ {p} : pc'[q] = pc[q] /\ seen'[q] = seen[q]
    BY DEF Event, Press, Release, Terminate, CheckFrame, Kill, Goto, tableVars, TypeOK, ChannelsOK
  <1>2. \/ /\ pc[p] = "idle" /\ seen' = seen
           /\ \/ leaving' = leaving /\ pc'[p] \in {"insert", "lookup", "send_frame"}
              \/ leaving' = leaving \union {p} /\ pc'[p] = "lookup"
        \/ pc'[p] = "dead" /\ leaving' = leaving \ {p}
    BY DEF Event, Press, Release, Terminate, CheckFrame, Kill, Goto, TypeOK, ChannelsOK
  <1>3. RowsGiven'
    BY <1>1 DEF TInv, RowsGiven, Held
  <1>4. LeavingOK'
    BY <1>1, <1>2 DEF TInv, LeavingOK, TypeOK, ChannelsOK
  <1>5. ASSUME OneDevice, Orderly' PROVE ReleaseOK' /\ EventsOK'
    <2>1. ReleaseOK /\ EventsOK
      BY <1>5 DEF TInv
    <2>2. pc[p] = "idle" /\ seen' = seen /\ pc'[p] \in {"insert", "lookup", "send_frame"}
      BY <1>2, <1>5 DEF Orderly, Calm, Alive
    <2>3. ReleaseOK'
      BY <1>0, <1>1, <2>1, <2>2 DEF ReleaseOK, Held
    <2>4. ASSUME NEW h \in 1 .. holds PROVE AcquiredTold(h)' /\ ReleasedTold(h)'
      <3>1. AcquiredTold(h) /\ ReleasedTold(h)
        BY <2>1 DEF EventsOK
      <3>2. \A q \in Pid : pc[q] \in {"cast_monitor", "cast_demonitor"} => pc'[q] = pc[q] /\ seen'[q] = seen[q]
        BY <1>1, <2>2
      <3> QED
        BY <1>1, <3>1, <3>2, AcquiredKept, ReleasedKept
    <2> QED
      BY <1>1, <2>3, <2>4 DEF EventsOK
  <1> QED
    BY <1>1, <1>3, <1>4, <1>5 DEF TInv

\* A step that changes neither floors nor processes, and loses no event.
LEMMA ToldFrame ==
  ASSUME TInv, UNCHANGED <<table, pc, seen, leaving, holds>>, events \subseteq events',
         crashes' = 0 => server' \notin {"down", "init"}, Orderly' => Orderly
  PROVE  TInv'
  BY DEF TInv, RowsGiven, LeavingOK, ReleaseOK, EventsOK, AcquiredTold, ReleasedTold, Held

\* A row is erased by the arbiter: then it is about to say so, or it has crashed.
LEMMA ErasedTold ==
  ASSUME TypeOK, TInv, NEW t \in Topic, Erase(t), UNCHANGED <<pc, seen, leaving, holds, crashes>>, ~Orderly',
         crashes = 0 => server' \notin {"down", "init"}
  PROVE  TInv'
  BY DEF TInv, RowsGiven, LeavingOK, Held, Erase, TypeOK

\* Once the arbiter has touched the table, or a process was killed, it stays so.
LEMMA OrderlyStable ==
  ASSUME TypeOK, TypeOK', crashes = 0 => server \notin {"down", "init"}, [Next]_vars, Orderly'
  PROVE  Orderly
  <1> USE ConstAssumption DEF ConstAssumption
  <1>0. crashes \in Nat /\ crashes' \in Nat /\ leaving \subseteq Pid
    BY DEF TypeOK, ChannelsOK
  <1>1. ASSUME NEW p \in Pid, Continue(p) PROVE Orderly
    BY <1>1, ContinueShape, ContinueFrame DEF Orderly, Calm, Alive
  <1>2. ASSUME NEW p \in Pid, Event(p) PROVE Orderly
    <2>1. \A q \in Pid : ~Alive(q) => q # p /\ pc'[q] = pc[q]
      BY <1>2, EventFrame DEF Alive
    <2>2. \A q \in Pid : q # p /\ q \in leaving' => q \in leaving
      BY <1>2 DEF Event, Press, Release, Terminate, CheckFrame, Kill
    <2>3. UNCHANGED <<server, crashes, events>>
      BY <1>2 DEF Event
    <2> QED
      BY <2>1, <2>2, <2>3 DEF Orderly, Calm, Alive
  <1>3. CASE \/ \E r \in Ref : DownArrives(r)
             \/ \E t \in Topic : Ripen(t)
             \/ SweepTimer \/ UNCHANGED vars
    <2>1. UNCHANGED <<pc, leaving, server, crashes, events>>
      BY <1>3 DEF DownArrives, Ripen, SweepTimer, vars, channelVars, histVars
    <2> QED
      BY <2>1 DEF Orderly, Calm, Alive
  <1>4. CASE Fail
    <2>1. crashes' = crashes + 1
      BY <1>4 DEF Fail, Crash
    <2> QED
      BY <1>0, <2>1 DEF Orderly, Calm
  <1>5. CASE Serve
    <2>1. UNCHANGED <<pc, leaving, crashes>> /\ events \subseteq events'
      BY <1>5 DEF Serve, channelVars, HandleMonitor, HandleDemonitor, HandleDown, HandleSweep,
                  RemoveRow, AnnounceRemoval, Restart, Rebuild
    <2>2. Calm
      BY <2>1 DEF Orderly, Calm, Alive
    <2>3. server \notin {"down", "init"}
      BY <2>2 DEF Calm
    <2>4. server # "announce"
      <3> SUFFICES ASSUME server = "announce" PROVE FALSE
        OBVIOUS
      <3>1. AnnounceRemoval
        BY <1>5 DEF Serve, HandleMonitor, HandleDemonitor, HandleDown, HandleSweep, RemoveRow,
                    Restart, Rebuild, Receive
      <3>2. <<current.row.hold, reason>> \in events'
        BY <3>1 DEF AnnounceRemoval
      <3>3. reason \notin {"acquired", "released"}
        BY DEF TypeOK, ArbiterOK
      <3> QED
        BY <3>2, <3>3 DEF Orderly, Calm
    <2> QED
      BY <2>2, <2>3, <2>4 DEF Orderly
  <1> QED
    BY <1>1, <1>2, <1>3, <1>4, <1>5 DEF Next

LEMMA ToldStep == IInv /\ TInv /\ [Next]_vars => TInv'
  <1> SUFFICES ASSUME IInv, TInv, [Next]_vars PROVE TInv'
    OBVIOUS
  <1> USE ConstAssumption DEF ConstAssumption
  <1>0. TypeOK /\ TypeOK' /\ RowsOK
    BY StepType DEF IInv
  <1>1. Orderly' => Orderly
    BY <1>0, OrderlyStable DEF TInv
  <1>2. ASSUME NEW p \in Pid, Continue(p) PROVE TInv'
    BY <1>0, <1>1, <1>2, ContinueTold
  <1>3. ASSUME NEW p \in Pid, Event(p) PROVE TInv'
    BY <1>0, <1>1, <1>3, EventTold
  <1>4. CASE \/ \E r \in Ref : DownArrives(r)
             \/ \E t \in Topic : Ripen(t)
             \/ SweepTimer \/ UNCHANGED vars
    <2>1. UNCHANGED <<table, pc, seen, leaving, holds, events, crashes, server>>
      BY <1>4 DEF DownArrives, Ripen, SweepTimer, vars, tableVars, channelVars, histVars
    <2> QED
      BY <1>1, <2>1, ToldFrame DEF TInv
  <1>5. CASE Fail
    <2>1. UNCHANGED <<table, pc, seen, leaving, holds, events>> /\ crashes' # 0
      BY <1>0, <1>5 DEF Fail, Crash, tableVars, channelVars, TypeOK
    <2> QED
      BY <1>1, <2>1, ToldFrame
  <1>6. CASE Serve
    <2>1. UNCHANGED <<pc, seen, leaving, holds, crashes>> /\ events \subseteq events'
      BY <1>6 DEF Serve, channelVars, HandleMonitor, HandleDemonitor, HandleDown, HandleSweep,
                  RemoveRow, AnnounceRemoval, Restart, Rebuild
    <2>2. CASE HandleMonitor \/ HandleDemonitor \/ HandleDown \/ HandleSweep \/ AnnounceRemoval \/ Restart
      <3>1. table' = table
        BY <2>2 DEF HandleMonitor, HandleDemonitor, HandleDown, HandleSweep, AnnounceRemoval, Restart, tableVars
      <3>2. crashes = 0 => server' \notin {"down", "init"}
        BY <2>2 DEF TInv, HandleMonitor, HandleDemonitor, HandleDown, HandleSweep, AnnounceRemoval,
                    Restart, Remove
      <3> QED
        BY <1>1, <2>1, <3>1, <3>2, ToldFrame
    <2>3. CASE RemoveRow
      <3>1. server' = "announce" /\ \E t \in Topic : Erase(t)
        BY <1>0, <2>3 DEF RemoveRow, TypeOK, ArbiterOK, Job
      <3>2. ~Orderly'
        BY <3>1 DEF Orderly
      <3> QED
        BY <1>0, <2>1, <3>1, <3>2, ErasedTold
    <2>4. CASE Rebuild
      <3>1. crashes # 0
        BY <2>4 DEF Rebuild, TInv
      <3>2. ~Orderly'
        BY <2>1, <3>1 DEF Orderly, Calm
      <3>3. table' = table \/ \E t \in Topic : Erase(t)
        BY <1>0, <2>4 DEF Rebuild, tableVars, TypeOK, ArbiterOK, Job
      <3> QED
        BY <1>0, <1>1, <2>1, <3>1, <3>2, <3>3, ErasedTold, ToldFrame
    <2> QED
      BY <1>6, <2>2, <2>3, <2>4 DEF Serve
  <1> QED
    BY <1>2, <1>3, <1>4, <1>5, <1>6 DEF Next

\* With one process per user in a topic, and as long as nobody is killed and the
\* arbiter leaves the table alone, the backend is told of every acquisition and
\* of every release, in whatever order the members' steps are interleaved.
THEOREM ToldCorrect == Spec => [](OneDevice => BackendToldOfEveryHold)
  <1>1. Init => TInv
    BY ConstAssumption DEF ConstAssumption, Init, TInv, RowsGiven, LeavingOK, ReleaseOK, EventsOK, Held
  <1>2. IInv /\ TInv /\ [Next]_vars => TInv'
    BY ToldStep
  <1>3. TypeOK /\ TInv => (OneDevice => BackendToldOfEveryHold)
    <2> SUFFICES ASSUME TypeOK, TInv, OneDevice PROVE BackendToldOfEveryHold
      OBVIOUS
    <2>1. ASSUME Quiet, Calm, NEW h \in 1 .. holds
          PROVE  /\ <<h, "acquired">> \in events
                 /\ \/ \E t \in Topic : Held(t) /\ table[t].hold = h /\ Alive(table[t].pid)
                    \/ <<h, "released">> \in events
      <3>1. ReleaseOK /\ EventsOK /\ \A p \in Pid : pc[p] \in {"idle", "dead"}
        BY <2>1 DEF TInv, Orderly, Quiet
      <3>2. AcquiredTold(h) /\ ReleasedTold(h)
        BY <3>1 DEF EventsOK
      <3> QED
        BY <3>1, <3>2 DEF ReleaseOK, AcquiredTold, ReleasedTold, Alive
    <2> QED
      BY <2>1, Zenon DEF BackendToldOfEveryHold
  <1>4. IInv => TypeOK
    BY DEF IInv
  <1> QED
    BY <1>1, <1>2, <1>3, <1>4, InvariantHolds, PTL DEF Spec

-----------------------------------------------------------------------------
(* How a hold ends *)

\* Whoever is about to erase a row looked that row up, and it is its own; a row
\* that the arbiter is about to remove is the one it read.
LastingOK ==
  /\ \A p \in Pid : pc[p] = "delete" => table[TopicOf[p]] = seen[p] /\ seen[p].pid = p
  /\ server \in {"remove", "announce"} => \A job \in work : table[job.topic] = job.row

EInv == Undisturbed => LastingOK

\* Once a hold has expired or the arbiter has crashed, it stays so.
LEMMA UndisturbedStable ==
  ASSUME TypeOK, TypeOK', [Next]_vars, Undisturbed'
  PROVE  Undisturbed
<1> USE ConstAssumption DEF ConstAssumption
<1>0. crashes \in Nat /\ crashes' \in Nat
  BY DEF TypeOK
<1>1. ASSUME NEW p \in Pid, Continue(p) PROVE Undisturbed
  <2>1. events \subseteq events' /\ crashes' = crashes /\ reason' = reason
    BY <1>1, ContinueShape DEF Continue, jobVars
  <2> QED
    BY <2>1 DEF Undisturbed
<1>2. ASSUME NEW p \in Pid, Event(p) PROVE Undisturbed
  BY <1>2 DEF Event, jobVars, Undisturbed
<1>3. CASE \/ \E r \in Ref : DownArrives(r)
           \/ \E t \in Topic : Ripen(t)
           \/ SweepTimer \/ UNCHANGED vars
  <2>1. UNCHANGED <<reason, crashes, events>>
    BY <1>3 DEF DownArrives, Ripen, SweepTimer, vars, jobVars, histVars
  <2> QED
    BY <2>1 DEF Undisturbed
<1>4. CASE Fail
  <2>1. crashes' = crashes + 1
    BY <1>4 DEF Fail, Crash
  <2> QED
    BY <1>0, <2>1 DEF Undisturbed
<1>5. CASE Serve
  <2>1. crashes' = crashes /\ events \subseteq events'
    BY <1>5 DEF Serve, HandleMonitor, HandleDemonitor, HandleDown, HandleSweep,
                RemoveRow, AnnounceRemoval, Restart, Rebuild
  <2>2. reason # "expired"
    <3> SUFFICES ASSUME reason = "expired" PROVE FALSE
      OBVIOUS
    <3>1. server \in {"remove", "announce"} /\ reason' # "expired"
      BY DEF TypeOK, ArbiterOK, Undisturbed
    <3>2. AnnounceRemoval
      BY <1>5, <3>1 DEF Serve, HandleMonitor, HandleDemonitor, HandleDown, HandleSweep, RemoveRow,
                        Restart, Rebuild, Receive, jobVars
    <3>3. <<current.row.hold, reason>> \in events'
      BY <3>2 DEF AnnounceRemoval
    <3> QED
      BY <3>3 DEF Undisturbed
  <2> QED
    BY <2>1, <2>2 DEF Undisturbed
<1> QED
  BY <1>1, <1>2, <1>3, <1>4, <1>5 DEF Next

\* A row that changes was of a dead process, or is erased by its own.
EndsDuly ==
  \A t \in Topic : Held(t) /\ table'[t] # table[t] => ~Alive(table[t].pid) \/ Delete(table[t].pid)

\* A step of a handler.
LEMMA ContinueLasts ==
  ASSUME OneDevice, TypeOK, TypeOK', RowsOK, RowsGiven, LastingOK, DisconnectsOnlyTheDead,
         reason # "expired", NEW p \in Pid, Continue(p)
  PROVE  LastingOK' /\ EndsDuly
<1> USE ConstAssumption DEF ConstAssumption
<1>0. /\ TopicOf[p] \in Topic
      /\ \A t \in Topic : Held(t) => table[t] \in Row /\ table[t].pid \in Pid
      /\ \A q \in Pid : pc[q] = "delete" => seen[q] \in Row
      /\ \A job \in work : job.topic \in Topic /\ job.row \in Row /\ job.row.pid \in Pid
  BY DEF TypeOK, ChannelsOK, ArbiterOK, Held, Row, Job
<1>1. /\ server' = server /\ work' = work
      /\ \A q \in Pid \ {p} : pc'[q] = pc[q] /\ seen'[q] = seen[q]
  BY ContinueShape DEF Continue, jobVars
<1>2. Takes(p) \/ Gives(p) \/ (UNCHANGED <<table, holds>> /\ (Tells(p) \/ Reads(p)))
  BY ContinueShape
<1>3. server \in {"remove", "announce"} => \A job \in work : ~Alive(job.row.pid)
  BY DEF DisconnectsOnlyTheDead, TypeOK, ArbiterOK
<1>4. CASE Takes(p)
  <2>1. \A t \in Topic \ {TopicOf[p]} : table'[t] = table[t]
    BY <1>4 DEF Takes, TypeOK
  <2>2. \A t \in Topic : Held(t) => table'[t] = table[t]
    BY <1>4, <2>1 DEF Takes
  <2>3. \A q \in Pid : pc'[q] = "delete" => q # p
    BY <1>4 DEF Takes
  <2>4. LastingOK'
    BY <1>0, <1>1, <2>2, <2>3 DEF LastingOK, Held
  <2> QED
    BY <2>2, <2>4 DEF EndsDuly
<1>5. CASE Gives(p)
  <2>1. table[TopicOf[p]] = seen[p] /\ seen[p].pid = p /\ pc[p] = "delete"
    BY <1>5 DEF LastingOK, Gives
  <2>2. \A t \in Topic \ {TopicOf[p]} : table'[t] = table[t]
    BY <1>5 DEF Gives, TypeOK
  <2>3. \A q \in Pid : pc'[q] = "delete" => q # p /\ TopicOf[q] # TopicOf[p]
    BY <1>1, <1>5, <2>1 DEF LastingOK, Gives
  <2>4. server \in {"remove", "announce"} => \A job \in work : job.topic # TopicOf[p]
    BY <1>3, <2>1 DEF LastingOK, Alive
  <2>5. LastingOK'
    BY <1>0, <1>1, <2>2, <2>3, <2>4 DEF LastingOK
  <2>6. Delete(p)
    BY <1>5 DEF Continue, Gives, InsertNew, CastMonitor, ReadHolder, AnnounceHolder, Lookup,
                CastDemonitor, AnnounceFree, SendFrame
  <2> QED
    BY <2>1, <2>2, <2>5, <2>6 DEF EndsDuly
<1>6. CASE UNCHANGED <<table, holds>> /\ (Tells(p) \/ Reads(p))
  <2>1. pc'[p] = "delete" => Holds(TopicOf[p], UserOf[p]) /\ seen'[p] = table[TopicOf[p]]
    BY <1>6 DEF Tells, Reads, Back
  <2>2. Holds(TopicOf[p], UserOf[p]) => table[TopicOf[p]].pid = p
    BY <1>0 DEF RowsOK, RowsGiven, Holds, OneDevice
  <2>3. LastingOK'
    BY <1>1, <1>6, <2>1, <2>2 DEF LastingOK
  <2> QED
    BY <1>6, <2>3 DEF EndsDuly
<1> QED
  BY <1>2, <1>4, <1>5, <1>6

\* A step of the arbiter.
LEMMA ServeLasts ==
  ASSUME TypeOK, WorkOK, LastingOK, DisconnectsOnlyTheDead, reason # "expired", reason' # "expired",
         server \notin {"down", "init"}, Serve
  PROVE  LastingOK' /\ EndsDuly
<1> USE ConstAssumption DEF ConstAssumption
<1>0. UNCHANGED <<pc, seen>>
  BY DEF Serve, channelVars
<1>1. CASE HandleMonitor \/ HandleDemonitor
  <2>1. UNCHANGED <<table, server, work>>
    BY <1>1 DEF HandleMonitor, HandleDemonitor, tableVars, jobVars
  <2> QED
    BY <1>0, <2>1 DEF LastingOK, EndsDuly
<1>2. CASE HandleDown
  <2>1. table' = table /\ \A job \in work' : table[job.topic] = job.row
    BY <1>2 DEF HandleDown, tableVars, JobOf
  <2> QED
    BY <1>0, <2>1 DEF LastingOK, EndsDuly
<1>3. CASE HandleSweep
  <2>1. table' = table /\ work' = {}
    BY <1>3 DEF HandleSweep, Remove, tableVars
  <2> QED
    BY <1>0, <2>1 DEF LastingOK, EndsDuly
<1>4. CASE RemoveRow
  <2>1. PICK job \in work : Erase(job.topic) /\ work' = work \ {job}
    BY <1>4 DEF RemoveRow
  <2>2. server = "remove" /\ job \in Job /\ job.topic \in Topic /\ job.row \in Row
    BY <1>4 DEF RemoveRow, TypeOK, ArbiterOK, Job
  <2>3. table[job.topic] = job.row /\ ~Alive(job.row.pid)
    BY <2>2 DEF LastingOK, DisconnectsOnlyTheDead, TypeOK, ArbiterOK
  <2>4. \A t \in Topic \ {job.topic} : table'[t] = table[t]
    BY <2>1 DEF Erase, TypeOK
  <2>5. \A q \in Pid : pc[q] = "delete" => TopicOf[q] \in Topic \ {job.topic}
    BY <2>3 DEF LastingOK, Alive
  <2>6. \A other \in work' : other \in work /\ other.topic \in Topic \ {job.topic}
    BY <2>1 DEF WorkOK, TypeOK, ArbiterOK, Job
  <2>7. LastingOK'
    BY <1>0, <2>2, <2>4, <2>5, <2>6 DEF LastingOK
  <2> QED
    BY <2>3, <2>4, <2>7 DEF EndsDuly
<1>5. CASE AnnounceRemoval
  <2>1. UNCHANGED <<table, work>> /\ server = "announce"
    BY <1>5 DEF AnnounceRemoval, tableVars
  <2> QED
    BY <1>0, <2>1 DEF LastingOK, EndsDuly
<1> QED
  BY <1>1, <1>2, <1>3, <1>4, <1>5 DEF Serve, Restart, Rebuild

LEMMA LastingStep ==
  ASSUME OneDevice, IInv, IInv', TInv, DisconnectsOnlyTheDead, EInv, [Next]_vars
  PROVE  EInv' /\ (Undisturbed' => EndsDuly)
<1> SUFFICES ASSUME Undisturbed' PROVE LastingOK' /\ EndsDuly
  BY DEF EInv
<1> USE ConstAssumption DEF ConstAssumption
<1>0. TypeOK /\ TypeOK' /\ RowsOK /\ WorkOK /\ RowsGiven
  BY DEF IInv, TInv
<1>1. Undisturbed /\ LastingOK
  BY <1>0, UndisturbedStable DEF EInv
<1>2. reason # "expired" /\ reason' # "expired" /\ crashes = 0 /\ crashes' = 0 /\ server \notin {"down", "init"}
  BY <1>1 DEF Undisturbed, TInv
<1>3. ASSUME NEW p \in Pid, Continue(p) PROVE LastingOK' /\ EndsDuly
  BY <1>0, <1>1, <1>2, <1>3, ContinueLasts
<1>4. ASSUME NEW p \in Pid, Event(p) PROVE LastingOK' /\ EndsDuly
  <2>1. UNCHANGED <<table, server, work>>
    BY <1>4 DEF Event, tableVars, jobVars
  <2>2. \A q \in Pid : pc'[q] = "delete" => pc[q] = "delete" /\ seen'[q] = seen[q]
    BY <1>0, <1>4 DEF Event, Press, Release, Terminate, CheckFrame, Kill, Goto, TypeOK, ChannelsOK
  <2> QED
    BY <1>1, <2>1, <2>2 DEF LastingOK, EndsDuly
<1>5. CASE \/ \E r \in Ref : DownArrives(r)
           \/ \E t \in Topic : Ripen(t)
           \/ SweepTimer \/ UNCHANGED vars
  <2>1. UNCHANGED <<table, pc, seen, server, work>>
    BY <1>5 DEF DownArrives, Ripen, SweepTimer, vars, tableVars, channelVars, jobVars
  <2> QED
    BY <1>1, <2>1 DEF LastingOK, EndsDuly
<1>6. CASE Fail
  BY <1>0, <1>2, <1>6 DEF Fail, Crash, TypeOK
<1>7. CASE Serve
  BY <1>0, <1>1, <1>2, <1>7, ServeLasts
<1> QED
  BY <1>3, <1>4, <1>5, <1>6, <1>7 DEF Next

\* With one process per user in a topic, a live member keeps the floor until it
\* lets go of it, as long as no hold expires and the arbiter does not crash:
\* whoever is killed or leaves meanwhile, and however late the arbiter hears.
THEOREM HoldsCorrect == ASSUME OneDevice PROVE Spec => HoldsEndDuly
<1>1. Init => TInv /\ DisconnectsOnlyTheDead /\ EInv
  BY ConstAssumption DEF ConstAssumption, Init, TInv, RowsGiven, LeavingOK, ReleaseOK, EventsOK, Held,
                         DisconnectsOnlyTheDead, EInv, LastingOK
<1>2. IInv /\ TInv /\ DisconnectsOnlyTheDead /\ [Next]_vars => TInv' /\ DisconnectsOnlyTheDead'
  BY ToldStep, DisconnectStep
<1>3. IInv /\ IInv' /\ TInv /\ DisconnectsOnlyTheDead /\ EInv /\ [Next]_vars
        => EInv' /\ (Undisturbed' => EndsDuly)
  BY LastingStep
<1>4. (Undisturbed' => EndsDuly) => [Undisturbed' => EndsDuly]_vars
  OBVIOUS
<1>5. [Undisturbed' => EndsDuly]_vars =>
        [Undisturbed' => \A t \in Topic : Held(t) /\ table'[t] # table[t] =>
           ~Alive(table[t].pid) \/ Delete(table[t].pid)]_vars
  BY DEF EndsDuly
<1> QED
  BY <1>1, <1>2, <1>3, <1>4, <1>5, InvariantHolds, PTL DEF Spec, HoldsEndDuly
=============================================================================
