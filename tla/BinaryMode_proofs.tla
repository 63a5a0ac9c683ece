--------------------------- MODULE BinaryMode_proofs --------------------------
(* Proofs about BinaryMode, for every value of its constants. *)
EXTENDS BinaryMode, FiniteSetTheorems, TLAPS

\* A row is its process's only one, carries what the process asked for, and its
\* process has called and was not refused; one that is joined has its row.
RowsOK ==
  /\ \A r \in table :
       /\ r.topic = TopicOf[r.pid] /\ r.mode = mode[r.pid]
       /\ pc[r.pid] \notin {"new", "refused"}
       /\ r.pid \notin queue
  /\ \A p \in Pid : pc[p] = "joined" \/ p = current =>
       [topic |-> TopicOf[p], pid |-> p, mode |-> mode[p]] \in table
  /\ \A p \in queue : pc[p] \in {"calling", "dead"}
  /\ current # NoPid => pc[current] \in {"calling", "dead"}
  /\ \A p \in Pid : pc[p] = "calling" => server # "down"
  /\ work \subseteq table

\* The rows of a topic share one mode, those of the dead included.
OneMode == \A r, s \in table : r.topic = s.topic => r.mode = s.mode

IInv == TypeOK /\ RowsOK /\ OneMode /\ MembersWatched

LEMMA InitOK == Init => IInv
  BY ConstAssumption DEF ConstAssumption, Init, IInv, TypeOK, RowsOK, OneMode, MembersWatched, Mode

LEMMA TypeStep == TypeOK /\ [Next]_vars => TypeOK'
  <1> SUFFICES ASSUME TypeOK, [Next]_vars PROVE TypeOK'
    OBVIOUS
  <1> USE ConstAssumption DEF ConstAssumption, TypeOK, Answer
  <1>1. ASSUME NEW p \in Pid, Join(p) PROVE TypeOK'
    BY <1>1 DEF Join
  <1>2. ASSUME NEW p \in Pid, Die(p) PROVE TypeOK'
    BY <1>2 DEF Die
  <1>3. ASSUME NEW p \in Pid, Refuse(p) PROVE TypeOK'
    BY <1>3 DEF Refuse, Members, RowsOf
  <1>4. ASSUME NEW p \in Pid, Accept(p) PROVE TypeOK'
    <2>1. [topic |-> TopicOf[p], pid |-> p, mode |-> mode[p]] \in Row
      BY DEF Row
    <2>2. table' \subseteq Row
      BY <1>4, <2>1 DEF Accept, Members, RowsOf
    <2> QED
      BY <1>4, <2>2 DEF Accept
  <1>5. CASE Watch
    BY <1>5 DEF Watch
  <1>6. ASSUME NEW p \in Pid, HandleDown(p) PROVE TypeOK'
    BY <1>6 DEF HandleDown
  <1>7. CASE Restart
    BY <1>7 DEF Restart
  <1>8. CASE Rebuild
    <2>1. refs' \subseteq Pid /\ table' \subseteq Row
      BY <1>8 DEF Rebuild, Row
    <2> QED
      BY <1>8, <2>1 DEF Rebuild
  <1>9. CASE Crash
    BY <1>9 DEF Crash
  <1>10. CASE UNCHANGED vars
    BY <1>10 DEF vars
  <1> QED
    BY <1>1, <1>2, <1>3, <1>4, <1>5, <1>6, <1>7, <1>8, <1>9, <1>10 DEF Next, Serve

\* What is left of the table after the dead rows of topic t are pruned.
LEMMA Pruned ==
  ASSUME NEW t
  PROVE  /\ (table \ RowsOf(t)) \union Members(t) \subseteq table
         /\ \A r \in table : Alive(r.pid) \/ r.topic # t => r \in (table \ RowsOf(t)) \union Members(t)
         /\ \A r \in (table \ RowsOf(t)) \union Members(t) : r.topic = t => r \in Members(t)
  BY DEF RowsOf, Members

LEMMA InvariantStep == IInv /\ [Next]_vars => IInv'
  <1> SUFFICES ASSUME IInv, [Next]_vars PROVE IInv'
    OBVIOUS
  <1> USE ConstAssumption DEF ConstAssumption
  <1>0. TypeOK /\ TypeOK'
    BY TypeStep DEF IInv
  <1>1. ASSUME NEW p \in Pid, Join(p) PROVE IInv'
    <2>1. pc[p] = "new" /\ \A r \in table : r.pid # p
      BY <1>1 DEF Join, IInv, RowsOK
    <2>2. /\ UNCHANGED <<table, server, refs, current, work>> /\ queue' \subseteq queue \union {p}
          /\ \A q \in Pid \ {p} : pc'[q] = pc[q] /\ mode'[q] = mode[q]
          /\ pc'[p] \in {"calling", "dead"} /\ (pc'[p] = "calling" => server # "down")
      BY <1>0, <1>1 DEF Join, TypeOK
    <2>3. \A r \in table : r.pid \in Pid
      BY <1>0 DEF TypeOK, Row
    <2>4. RowsOK'
      BY <1>0, <2>1, <2>2, <2>3 DEF IInv, RowsOK, TypeOK
    <2>5. OneMode' /\ MembersWatched'
      BY <2>2 DEF IInv, OneMode, MembersWatched
    <2> QED
      BY <1>0, <2>4, <2>5 DEF IInv
  <1>2. ASSUME NEW p \in Pid, Die(p) PROVE IInv'
    <2>1. /\ UNCHANGED <<mode, table, server, queue, refs, current, work>>
          /\ \A q \in Pid \ {p} : pc'[q] = pc[q]
          /\ pc'[p] = "dead"
      BY <1>0, <1>2 DEF Die, TypeOK
    <2>2. \A r \in table : r.pid \in Pid
      BY <1>0 DEF TypeOK, Row
    <2> QED
      BY <1>0, <2>1, <2>2 DEF IInv, RowsOK, OneMode, MembersWatched, TypeOK
  <1>3. ASSUME NEW p \in Pid, Refuse(p) PROVE IInv'
    <2>1. /\ server = "idle" /\ p \in queue /\ queue' = queue \ {p}
          /\ UNCHANGED <<mode, server, refs, current, work>>
          /\ table' \subseteq table
          /\ \A r \in table : Alive(r.pid) \/ r.topic # TopicOf[p] => r \in table'
          /\ \A q \in Pid \ {p} : pc'[q] = pc[q]
          /\ pc'[p] \in {"refused", "dead"} /\ (pc[p] # "calling" => pc'[p] = pc[p])
      BY <1>0, <1>3, Pruned DEF Refuse, Answer, IInv, RowsOK, TypeOK
    <2>2. current = NoPid /\ work = {}
      BY <1>0, <2>1 DEF TypeOK
    <2>3. \A r \in table : r.pid \in Pid /\ r.pid # p
      BY <1>0, <2>1 DEF IInv, RowsOK, TypeOK, Row
    <2>4. RowsOK'
      <3>1. \A q \in Pid : pc'[q] = "joined" => [topic |-> TopicOf[q], pid |-> q, mode |-> mode[q]] \in table'
        BY <2>1 DEF IInv, RowsOK, Alive
      <3> QED
        BY <1>0, <2>1, <2>2, <2>3, <3>1 DEF IInv, RowsOK, TypeOK
    <2>5. OneMode' /\ MembersWatched'
      BY <2>1 DEF IInv, OneMode, MembersWatched
    <2> QED
      BY <1>0, <2>4, <2>5 DEF IInv
  <1>4. ASSUME NEW p \in Pid, Accept(p) PROVE IInv'
    <2> DEFINE new == [topic |-> TopicOf[p], pid |-> p, mode |-> mode[p]]
               kept == (table \ RowsOf(TopicOf[p])) \union Members(TopicOf[p])
    <2>1. /\ server = "idle" /\ server' = "answer" /\ p \in queue /\ queue' = queue \ {p}
          /\ UNCHANGED <<pc, mode, refs, work>> /\ current' = p
          /\ table' = kept \union {new}
      BY <1>4 DEF Accept
    <2>2. /\ kept \subseteq table
          /\ \A r \in table : Alive(r.pid) \/ r.topic # TopicOf[p] => r \in kept
          /\ \A r \in kept : r.topic = TopicOf[p] => r \in Members(TopicOf[p])
      BY Pruned
    <2>3. work = {} /\ pc[p] \in {"calling", "dead"}
      BY <1>0, <2>1 DEF TypeOK, IInv, RowsOK
    <2>4. \A r \in kept : r.topic = TopicOf[p] => r.mode = mode[p]
      <3>1. PICK c \in Current(TopicOf[p]) : ~Mismatch(c, mode[p])
        BY <1>4 DEF Accept
      <3> SUFFICES ASSUME NEW r \in kept, r.topic = TopicOf[p] PROVE r.mode = mode[p]
        OBVIOUS
      <3>2. r \in Members(TopicOf[p])
        BY <2>2
      <3>3. PICK s \in Members(TopicOf[p]) : s.mode = c
        BY <3>1, <3>2 DEF Current
      <3>4. s \in table /\ r \in table /\ s.topic = r.topic
        BY <3>2, <3>3 DEF Members, RowsOf
      <3>5. r.mode = c /\ c \in Mode
        BY <1>0, <3>3, <3>4 DEF IInv, OneMode, TypeOK, Row
      <3>6. c # "none"
        BY <3>5 DEF Mode
      <3> QED
        BY <3>1, <3>5, <3>6 DEF Mismatch
    <2> HIDE DEF kept
    <2>5. OneMode'
      BY <2>1, <2>2, <2>4 DEF IInv, OneMode
    <2>6. RowsOK'
      <3>1. \A q \in Pid : pc[q] = "joined" => [topic |-> TopicOf[q], pid |-> q, mode |-> mode[q]] \in table'
        BY <2>1, <2>2 DEF IInv, RowsOK, Alive
      <3>2. new \in table' /\ p \in Pid
        BY <2>1
      <3>3. \A r \in table' : /\ r.topic = TopicOf[r.pid] /\ r.mode = mode[r.pid]
                              /\ pc[r.pid] \notin {"new", "refused"} /\ r.pid \notin queue'
        BY <2>1, <2>2, <2>3 DEF IInv, RowsOK
      <3> QED
        BY <2>1, <2>3, <3>1, <3>2, <3>3 DEF IInv, RowsOK
    <2>7. MembersWatched'
      <3>1. current = NoPid /\ \A r \in table : r.pid # NoPid
        BY <1>0, <2>1 DEF TypeOK, Row
      <3> QED
        BY <2>1, <2>2, <2>3, <3>1 DEF IInv, MembersWatched
    <2> QED
      BY <1>0, <2>5, <2>6, <2>7 DEF IInv
  <1>5. CASE Watch
    <2>1. /\ server = "answer" /\ current \in Pid /\ refs' = refs \union {current}
          /\ server' = "idle" /\ current' = NoPid /\ UNCHANGED <<mode, table, queue, work>>
          /\ \A q \in Pid \ {current} : pc'[q] = pc[q]
          /\ pc'[current] \in {"joined", "dead"} /\ [topic |-> TopicOf[current], pid |-> current, mode |-> mode[current]] \in table
      BY <1>0, <1>5 DEF Watch, Answer, TypeOK, IInv, RowsOK
    <2>2. current \notin queue /\ \A r \in table : r.pid \in Pid
      BY <1>0, <2>1 DEF IInv, RowsOK, TypeOK, Row
    <2>3. RowsOK'
      BY <1>0, <2>1, <2>2 DEF IInv, RowsOK, TypeOK
    <2>4. OneMode' /\ MembersWatched'
      BY <2>1 DEF IInv, OneMode, MembersWatched
    <2> QED
      BY <1>0, <2>3, <2>4 DEF IInv
  <1>6. ASSUME NEW p \in Pid, HandleDown(p) PROVE IInv'
    <2>1. /\ server = "idle" /\ ~Alive(p) /\ refs' = refs \ {p} /\ table' \subseteq table
          /\ UNCHANGED <<pc, mode, server, queue, current, work>>
          /\ \A r \in table : r.pid # p => r \in table'
      BY <1>6 DEF HandleDown
    <2>2. \A r \in table' : r.pid # p
      BY <1>6 DEF HandleDown, IInv, RowsOK
    <2>3. current = NoPid /\ work = {}
      BY <1>0, <2>1 DEF TypeOK
    <2>4. RowsOK'
      BY <2>1, <2>3 DEF IInv, RowsOK, Alive
    <2>5. OneMode' /\ MembersWatched'
      BY <2>1, <2>2, <2>3 DEF IInv, OneMode, MembersWatched
    <2> QED
      BY <1>0, <2>4, <2>5 DEF IInv
  <1>7. CASE Restart
    BY <1>0, <1>7 DEF Restart, IInv, RowsOK, OneMode, MembersWatched, TypeOK
  <1>8. CASE Rebuild
    <2>1. PICK r \in work : /\ work' = work \ {r}
                            /\ \/ Alive(r.pid) /\ refs' = refs \union {r.pid} /\ UNCHANGED table
                               \/ ~Alive(r.pid) /\ table' = table \ {r} /\ UNCHANGED refs
      BY <1>8 DEF Rebuild
    <2>2. server = "init" /\ UNCHANGED <<pc, mode, queue, current>> /\ server' # "down"
      BY <1>8 DEF Rebuild
    <2>3. current = NoPid
      BY <1>0, <2>2 DEF TypeOK
    <2>4. RowsOK'
      <3>1. \A q \in Pid : pc[q] = "joined" => [topic |-> TopicOf[q], pid |-> q, mode |-> mode[q]] \in table'
        BY <2>1 DEF IInv, RowsOK, Alive
      <3> QED
        BY <1>0, <2>1, <2>2, <2>3, <3>1 DEF IInv, RowsOK, TypeOK
    <2>5. OneMode' /\ MembersWatched'
      BY <2>1, <2>2 DEF IInv, OneMode, MembersWatched
    <2> QED
      BY <1>0, <2>4, <2>5 DEF IInv
  <1>9. CASE Crash
    BY <1>0, <1>9 DEF Crash, IInv, RowsOK, OneMode, MembersWatched, TypeOK, Row
  <1>10. CASE UNCHANGED vars
    BY <1>0, <1>10 DEF vars, IInv, RowsOK, OneMode, MembersWatched
  <1> QED
    BY <1>1, <1>2, <1>3, <1>4, <1>5, <1>6, <1>7, <1>8, <1>9, <1>10 DEF Next, Serve

LEMMA InvariantHolds == Spec => []IInv
  BY InitOK, InvariantStep, PTL DEF Spec

\* Every state variable keeps its type.
THEOREM TypeCorrect == Spec => []TypeOK
  BY InvariantHolds, PTL DEF IInv

\* A joined member's cached mode is the mode of its topic, whatever crashes.
THEOREM CacheCorrect == Spec => []CacheFresh
  <1>1. IInv => CacheFresh
    <2> SUFFICES ASSUME IInv, NEW p \in Pid, pc[p] = "joined"
                 PROVE  {r.mode : r \in RowsOf(TopicOf[p])} = {mode[p]}
      BY DEF CacheFresh
    <2>1. [topic |-> TopicOf[p], pid |-> p, mode |-> mode[p]] \in RowsOf(TopicOf[p])
      BY DEF IInv, RowsOK, RowsOf
    <2> QED
      BY <2>1 DEF IInv, OneMode, RowsOf
  <1> QED
    BY <1>1, InvariantHolds, PTL

\* Whoever is recorded is watched, or will be, whatever crashes.
THEOREM WatchCorrect == Spec => []MembersWatched
  BY InvariantHolds, PTL DEF IInv

\* A process whose join was refused holds no row.
THEOREM RefusalCorrect == Spec => []RefusedLeaveNoTrace
  <1>1. IInv => RefusedLeaveNoTrace
    BY DEF IInv, RowsOK, RefusedLeaveNoTrace
  <1> QED
    BY <1>1, InvariantHolds, PTL
-----------------------------------------------------------------------------
(* The member ceiling *)

\* The members of a topic are no more than the processes.
LEMMA MembersFinite ==
  ASSUME IInv, NEW t
  PROVE  IsFiniteSet(Members(t))
  <1> DEFINE row == [p \in Pid |-> [topic |-> TopicOf[p], pid |-> p, mode |-> mode[p]]]
             all == {row[p] : p \in Pid}
  <1>1. row \in Surjection(Pid, all)
    BY DEF Surjection
  <1>2. IsFiniteSet(all)
    BY <1>1, FS_Surjection, ConstAssumption DEF ConstAssumption
  <1>3. Members(t) \subseteq all
    <2> SUFFICES ASSUME NEW r \in Members(t) PROVE r \in all
      OBVIOUS
    <2>1. /\ r \in Row /\ r.pid \in Pid
          /\ r.topic = TopicOf[r.pid] /\ r.mode = mode[r.pid]
      BY DEF IInv, TypeOK, RowsOK, Members, RowsOf, Row
    <2>2. r = row[r.pid]
      BY <2>1 DEF Row
    <2> QED
      BY <2>1, <2>2
  <1> QED
    BY <1>2, <1>3, FS_Subset

\* A multiplex topic never has more live members than the ceiling.
THEOREM CeilingCorrect == Spec => []Ceiling
  <1> USE ConstAssumption DEF ConstAssumption
  <1> DEFINE talkers(t) == {r \in Members(t) : r.mode = "multiplex"}
  <1>1. Init => Ceiling
    <2> SUFFICES ASSUME Init, NEW t \in Topic, MaxMembers > 0 PROVE Cardinality(talkers(t)) <= MaxMembers
      BY DEF Ceiling
    <2>1. talkers(t) = {}
      BY DEF Init, Members, RowsOf
    <2> QED
      BY <2>1, FS_EmptySet
  <1>2. IInv /\ IInv' /\ Ceiling /\ [Next]_vars => Ceiling'
    <2> SUFFICES ASSUME IInv, IInv', Ceiling, [Next]_vars, NEW t \in Topic, MaxMembers > 0
                 PROVE  Cardinality(talkers(t)') <= MaxMembers
      BY DEF Ceiling
    <2>1. IsFiniteSet(talkers(t)) /\ Cardinality(talkers(t)) \in Nat /\ Cardinality(talkers(t)) <= MaxMembers
      BY MembersFinite, FS_Subset, FS_CardinalityType DEF Ceiling
    <2>2. ASSUME talkers(t)' \subseteq talkers(t) PROVE Cardinality(talkers(t)') <= MaxMembers
      BY <2>1, <2>2, FS_Subset, FS_CardinalityType
    <2>3. ASSUME NEW p \in Pid, Accept(p), TopicOf[p] = t, mode[p] = "multiplex"
          PROVE  Cardinality(talkers(t)') <= MaxMembers
      <3> DEFINE new == [topic |-> t, pid |-> p, mode |-> mode[p]]
      <3>1. IsFiniteSet(Members(t)) /\ Cardinality(Members(t)) \in Nat
        BY MembersFinite, FS_CardinalityType
      <3>2. Cardinality(Members(t)) < MaxMembers
        BY <2>3, <3>1 DEF Accept, Full
      <3>3. talkers(t)' \subseteq Members(t) \union {new}
        BY <2>3 DEF Accept, Members, RowsOf, Alive
      <3>4. /\ IsFiniteSet(Members(t) \union {new})
            /\ Cardinality(Members(t) \union {new}) <= Cardinality(Members(t)) + 1
            /\ Cardinality(Members(t) \union {new}) \in Nat
        <4>1. /\ IsFiniteSet(Members(t) \union {new})
              /\ Cardinality(Members(t) \union {new}) = IF new \in Members(t) THEN Cardinality(Members(t))
                                                         ELSE Cardinality(Members(t)) + 1
          BY <3>1, FS_AddElement
        <4> HIDE DEF new
        <4> QED
          BY <3>1, <4>1
      <3>5. Cardinality(talkers(t)') <= Cardinality(Members(t) \union {new}) /\ Cardinality(talkers(t)') \in Nat
        BY <3>3, <3>4, FS_Subset, FS_CardinalityType
      <3> QED
        BY <3>1, <3>2, <3>4, <3>5
    <2>4. ASSUME NEW p \in Pid, Accept(p), ~(TopicOf[p] = t /\ mode[p] = "multiplex")
          PROVE  talkers(t)' \subseteq talkers(t)
      BY <2>4 DEF Accept, Members, RowsOf, Alive
    <2>5. ASSUME ~ \E p \in Pid : Accept(p) PROVE talkers(t)' \subseteq talkers(t)
      <3>1. table' \subseteq table
        BY <2>5, Pruned DEF Next, Serve, Join, Die, Refuse, Watch, HandleDown, Restart, Rebuild, Crash, vars
      <3>2. \A r \in table : Alive(r.pid)' => Alive(r.pid)
        <4>1. \A r \in table : r.pid \in Pid /\ pc[r.pid] # "new"
          BY DEF IInv, TypeOK, RowsOK, Row
        <4>2. ASSUME NEW q \in Pid, pc[q] # "new", Alive(q)' PROVE Alive(q)
          BY <2>5, <4>2 DEF IInv, TypeOK, Alive, Next, Serve, Join, Die, Refuse, Answer, Watch, HandleDown,
             Restart, Rebuild, Crash, vars
        <4> QED
          BY <4>1, <4>2
      <3> QED
        BY <3>1, <3>2 DEF Members, RowsOf
    <2> QED
      BY <2>2, <2>3, <2>4, <2>5
  <1> QED
    BY <1>1, <1>2, InvariantHolds, PTL DEF Spec
-----------------------------------------------------------------------------
(* Refinement of TopicMode *)

\* The mode of a topic is that of whoever has joined it.
ModeIsJoined == \A t \in Topic : \A p \in Joined(t) : Cached(t) = mode[p]

LEMMA OneCachedMode == IInv => ModeIsJoined
<1> SUFFICES ASSUME IInv, NEW t \in Topic, NEW p \in Joined(t) PROVE Cached(t) = mode[p]
  BY DEF ModeIsJoined
<1>1. \A q \in Joined(t) : mode[q] = mode[p]
  BY DEF Joined, IInv, RowsOK, OneMode
<1> QED
  BY <1>1 DEF Cached

MembersMap == [t \in Topic |-> Joined(t)]
ModesMap == [t \in Topic |-> Cached(t)]

\* A step in which nobody's joining or leaving is completed is invisible.
LEMMA SameMembers ==
  ASSUME ModeIsJoined, ModeIsJoined',
         \A p \in Pid : pc'[p] = "joined" <=> pc[p] = "joined",
         \A p \in Pid : pc[p] = "joined" => mode'[p] = mode[p]
  PROVE  MembersMap' = MembersMap /\ ModesMap' = ModesMap
<1>1. \A t \in Topic : Joined(t)' = Joined(t)
  BY DEF Joined
<1>2. ASSUME NEW t \in Topic PROVE Cached(t)' = Cached(t)
  <2>1. CASE Joined(t) = {}
    BY <1>1, <2>1 DEF Cached
  <2>2. ASSUME NEW p \in Joined(t) PROVE Cached(t)' = Cached(t)
    BY <1>1, <2>2 DEF ModeIsJoined, Joined
  <2> QED
    BY <2>1, <2>2
<1> QED
  BY <1>1, <1>2 DEF MembersMap, ModesMap

\* Who has joined a topic, and a process being answered, have live rows in it.
LEMMA RoomFor ==
  ASSUME IInv, Ceiling, NEW p \in Pid, p = current, pc[p] = "calling",
         mode[p] = "multiplex", MaxMembers > 0
  PROVE  Cardinality(Joined(TopicOf[p])) < MaxMembers
<1> DEFINE t == TopicOf[p]
           J == Joined(t) \union {p}
           row(q) == [topic |-> t, pid |-> q, mode |-> "multiplex"]
           talkers == {r \in Members(t) : r.mode = "multiplex"}
           f == [q \in J |-> row(q)]
<1>0. t \in Topic /\ IsFiniteSet(Pid) /\ MaxMembers \in Nat
  BY ConstAssumption DEF ConstAssumption
<1>1. ASSUME NEW q \in J PROVE row(q) \in talkers
  <2>1. q \in Pid /\ TopicOf[q] = t /\ (pc[q] = "joined" \/ q = current) /\ Alive(q)
    BY DEF Joined, Alive
  <2>2. [topic |-> t, pid |-> q, mode |-> mode[q]] \in table
    BY <2>1 DEF IInv, RowsOK
  <2>3. [topic |-> t, pid |-> p, mode |-> mode[p]] \in table
    BY DEF IInv, RowsOK
  <2>4. mode[q] = "multiplex"
    BY <2>2, <2>3 DEF IInv, OneMode
  <2> QED
    BY <2>1, <2>2, <2>4 DEF Members, RowsOf
<1>2. f \in Injection(J, talkers)
  <2>1. f \in [J -> talkers]
    BY <1>1
  <2>2. \A a, b \in J : f[a] = f[b] => a = b
    OBVIOUS
  <2> QED
    BY <2>1, <2>2 DEF Injection, IsInjective
<1>3. IsFiniteSet(talkers) /\ Cardinality(talkers) \in Nat /\ Cardinality(talkers) <= MaxMembers
  BY <1>0, MembersFinite, FS_Subset, FS_CardinalityType DEF Ceiling
<1>4. p \notin Joined(t) /\ IsFiniteSet(Joined(t)) /\ Cardinality(Joined(t)) \in Nat
  BY <1>0, FS_Subset, FS_CardinalityType DEF Joined
<1>5. Cardinality(J) = Cardinality(Joined(t)) + 1
  BY <1>4, FS_AddElement
<1> HIDE DEF J, talkers, f
<1>6. Cardinality(J) <= Cardinality(talkers)
  BY <1>2, <1>3, FS_Injection
<1> QED
  BY <1>0, <1>3, <1>4, <1>5, <1>6

\* The member answered enters its topic.
LEMMA Entered ==
  ASSUME IInv, Ceiling, ModeIsJoined, ModeIsJoined', Watch, pc[current] = "calling"
  PROVE  Topics!Next
<1>0. PICK p \in Pid : p = current
  BY DEF Watch, IInv, TypeOK
<1> DEFINE t == TopicOf[p]
<1>1. t \in Topic /\ mode[p] \in Mode
  BY ConstAssumption DEF ConstAssumption, IInv, TypeOK
<1>2. pc' = [pc EXCEPT ![p] = "joined"] /\ mode' = mode /\ pc \in [Pid -> {"new", "calling", "joined", "refused", "exiting", "dead"}]
  BY <1>0 DEF Watch, Answer, IInv, TypeOK
<1>3. /\ Joined(t)' = Joined(t) \union {p}
      /\ \A s \in Topic \ {t} : Joined(s)' = Joined(s)
  BY <1>2 DEF Joined
<1>4. \A s \in Topic : p \notin Joined(s)
  BY <1>0 DEF Joined
<1>5. /\ Cached(t)' = mode[p]
      /\ \A s \in Topic \ {t} : Cached(s)' = Cached(s)
  <2>1. Cached(t)' = mode[p]
    BY <1>1, <1>2, <1>3 DEF ModeIsJoined
  <2>2. ASSUME NEW s \in Topic \ {t} PROVE Cached(s)' = Cached(s)
    BY <1>2, <1>3 DEF ModeIsJoined, Cached
  <2> QED
    BY <2>1, <2>2
<1>6. Cached(t) \in {"none", mode[p]}
  <2>1. CASE Joined(t) = {}
    BY <2>1 DEF Cached
  <2>2. ASSUME NEW q \in Joined(t) PROVE Cached(t) = mode[p]
    <3>1. q \in Pid /\ pc[q] = "joined" /\ TopicOf[q] = t
      BY DEF Joined
    <3>2. mode[q] = mode[p]
      BY <1>0, <3>1 DEF IInv, RowsOK, OneMode
    <3> QED
      BY <1>1, <3>2 DEF ModeIsJoined
  <2> QED
    BY <2>1, <2>2
<1>7. mode[p] = "multiplex" /\ MaxMembers > 0 => Cardinality(Joined(t)) < MaxMembers
  BY <1>0, RoomFor
<1>8. MembersMap' = [MembersMap EXCEPT ![t] = @ \union {p}] /\ ModesMap' = [ModesMap EXCEPT ![t] = mode[p]]
  BY <1>1, <1>3, <1>5 DEF MembersMap, ModesMap
<1>9. Topics!Enter(t, p, mode[p])
  <2>1. /\ \A s \in Topic : MembersMap[s] = Joined(s) /\ p \notin Joined(s)
        /\ MembersMap[t] = Joined(t) /\ ModesMap[t] \in {"none", mode[p]}
    BY <1>1, <1>4, <1>6 DEF MembersMap, ModesMap
  <2>2. Topics!HasRoom(t, mode[p])
    <3>1. MembersMap[t] = Joined(t)
      BY <1>1 DEF MembersMap
    <3>2. Topics!HasRoom(t, mode[p]) <=>
            (mode[p] = "multiplex" /\ MaxMembers > 0 => Cardinality(MembersMap[t]) < MaxMembers)
      BY DEF Topics!HasRoom, MembersMap, Topics!Cardinality, Cardinality
    <3> QED
      BY <1>7, <3>1, <3>2
  <2> QED
    BY <1>8, <2>1, <2>2 DEF Topics!Enter, MembersMap, ModesMap
<1> QED
  BY <1>1, <1>9 DEF Topics!Next, Topics!Mode, Mode

\* A joined member that dies leaves its topic.
LEMMA Left ==
  ASSUME IInv, ModeIsJoined, ModeIsJoined', NEW p \in Pid, Die(p), pc[p] = "joined"
  PROVE  Topics!Next
<1> DEFINE t == TopicOf[p]
<1>1. t \in Topic
  BY ConstAssumption DEF ConstAssumption
<1>2. pc' = [pc EXCEPT ![p] = "dead"] /\ mode' = mode /\ pc \in [Pid -> {"new", "calling", "joined", "refused", "exiting", "dead"}]
  BY DEF Die, IInv, TypeOK
<1>3. /\ Joined(t)' = Joined(t) \ {p} /\ p \in Joined(t)
      /\ \A s \in Topic \ {t} : Joined(s)' = Joined(s)
  BY <1>2 DEF Joined
<1>4. \A s \in Topic \ {t} : Cached(s)' = Cached(s)
  BY <1>2, <1>3 DEF ModeIsJoined, Cached
<1>5. CASE Joined(t) = {p}
  <2>1. Cached(t)' = "none"
    BY <1>3, <1>5 DEF Cached
  <2>2. MembersMap' = [MembersMap EXCEPT ![t] = @ \ {p}] /\ ModesMap' = [ModesMap EXCEPT ![t] = "none"]
    BY <1>1, <1>3, <1>4, <2>1 DEF MembersMap, ModesMap
  <2>3. Topics!Leave(t, p)
    BY <1>1, <1>3, <1>5, <2>2 DEF Topics!Leave, MembersMap, ModesMap
  <2> QED
    BY <1>1, <2>3 DEF Topics!Next
<1>6. CASE Joined(t) # {p}
  <2>1. PICK q \in Joined(t) : q # p
    BY <1>3, <1>6
  <2>2. Cached(t)' = Cached(t)
    BY <1>1, <1>2, <1>3, <2>1 DEF ModeIsJoined
  <2>3. MembersMap' = [MembersMap EXCEPT ![t] = @ \ {p}] /\ ModesMap' = ModesMap
    BY <1>1, <1>3, <1>4, <2>2 DEF MembersMap, ModesMap
  <2>4. Topics!Leave(t, p)
    BY <1>1, <1>3, <1>6, <2>3 DEF Topics!Leave, MembersMap, ModesMap
  <2> QED
    BY <1>1, <2>4 DEF Topics!Next
<1> QED
  BY <1>5, <1>6

\* To its members, a topic has one mode from the first join to the last leave
\* and never too many of them: what the registry does with rows, monitors,
\* calls and crashes is a step of TopicMode or invisible.
THEOREM ImplementsMode == Spec => ModeSafe
<1>1. Init => Topics!Init
  <2> SUFFICES ASSUME Init, NEW t \in Topic PROVE Joined(t) = {} /\ Cached(t) = "none"
    BY DEF Topics!Init
  <2>1. Joined(t) = {}
    BY DEF Init, Joined
  <2> QED
    BY <2>1 DEF Cached
<1>2. ASSUME IInv, Ceiling, ModeIsJoined, ModeIsJoined', [Next]_vars
      PROVE  Topics!Next \/ (MembersMap' = MembersMap /\ ModesMap' = ModesMap)
  <2>0. pc \in [Pid -> {"new", "calling", "joined", "refused", "exiting", "dead"}]
    BY <1>2 DEF IInv, TypeOK
  <2>1. ASSUME NEW p \in Pid, Join(p) PROVE MembersMap' = MembersMap /\ ModesMap' = ModesMap
    BY <1>2, <2>0, <2>1, SameMembers DEF Join, IInv, TypeOK
  <2>2. ASSUME NEW p \in Pid, Die(p), pc[p] # "joined" PROVE MembersMap' = MembersMap /\ ModesMap' = ModesMap
    BY <1>2, <2>0, <2>2, SameMembers DEF Die
  <2>3. ASSUME NEW p \in Pid, Refuse(p) PROVE MembersMap' = MembersMap /\ ModesMap' = ModesMap
    BY <1>2, <2>0, <2>3, SameMembers DEF Refuse, Answer
  <2>4. ASSUME NEW p \in Pid, Accept(p) \/ HandleDown(p) PROVE MembersMap' = MembersMap /\ ModesMap' = ModesMap
    BY <1>2, <2>4, SameMembers DEF Accept, HandleDown
  <2>5. ASSUME Watch, pc[current] # "calling" PROVE MembersMap' = MembersMap /\ ModesMap' = ModesMap
    BY <1>2, <2>5, SameMembers DEF Watch, Answer
  <2>6. ASSUME Restart \/ Rebuild \/ UNCHANGED vars PROVE MembersMap' = MembersMap /\ ModesMap' = ModesMap
    BY <1>2, <2>6, SameMembers DEF Restart, Rebuild, vars
  <2>7. ASSUME Crash PROVE MembersMap' = MembersMap /\ ModesMap' = ModesMap
    BY <1>2, <2>0, <2>7, SameMembers DEF Crash
  <2> QED
    BY <1>2, <2>1, <2>2, <2>3, <2>4, <2>5, <2>6, <2>7, Entered, Left DEF Next, Serve
<1>3. IInv /\ Ceiling /\ ModeIsJoined /\ ModeIsJoined' /\ [Next]_vars => [Topics!Next]_(Topics!vars)
  BY <1>2 DEF Topics!vars, MembersMap, ModesMap
<1>4. ModeSafe <=> Topics!Init /\ [][Topics!Next]_(Topics!vars)
  BY DEF ModeSafe, Topics!Spec
<1> QED
  BY <1>1, <1>3, <1>4, OneCachedMode, InvariantHolds, CeilingCorrect, PTL DEF Spec
=============================================================================
