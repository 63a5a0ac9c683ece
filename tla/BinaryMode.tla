----------------------------- MODULE BinaryMode -----------------------------
(***************************************************************************)
(* Konet.BinaryMode: which binary mode a topic runs, and who is in it.      *)
(*                                                                          *)
(* A channel process claims its mode while it joins, in a call to the       *)
(* Konet.BinaryMode process, and caches it.  The rows of the members live   *)
(* in a table that outlives that process; its monitors do not.  A handler   *)
(* of the process is one step, except that it may crash between recording a *)
(* member and watching and answering it.                                    *)
(***************************************************************************)
EXTENDS Naturals, FiniteSets

CONSTANTS
  Topic,       \* topics
  Pid,         \* channel processes; each joins one topic, once
  TopicOf,     \* TopicOf[p]: that topic
  NoPid,
  MaxMembers,  \* multiplex_max_members, 0 for none
  MaxCrashes   \* bound: crashes of the process

Mode == {"exclusive", "multiplex"}
Row == [topic : Topic, pid : Pid, mode : Mode]

ASSUME ConstAssumption ==
  /\ IsFiniteSet(Pid) /\ NoPid \notin Pid
  /\ TopicOf \in [Pid -> Topic]
  /\ MaxMembers \in Nat /\ MaxCrashes \in Nat

VARIABLES
  pc,       \* where each channel process is
  mode,     \* mode[p]: the mode p asks for, and caches once it has joined
  table,    \* the ETS bag
  server,   \* what the Konet.BinaryMode process is doing
  queue,    \* processes whose call is in its mailbox
  refs,     \* processes it monitors
  current,  \* the member it has recorded and still has to watch and answer
  work,     \* rows init/1 still has to go through
  crashes   \* crashes so far

vars == <<pc, mode, table, server, queue, refs, current, work, crashes>>

\* What Process.alive?/1 says of a process that has called.
Alive(p) == pc[p] \in {"calling", "joined", "exiting"}

RowsOf(t) == {r \in table : r.topic = t}

Init ==
  /\ pc = [p \in Pid |-> "new"] /\ mode = [p \in Pid |-> "exclusive"]
  /\ table = {} /\ server = "idle" /\ queue = {} /\ refs = {}
  /\ current = NoPid /\ work = {} /\ crashes = 0

-----------------------------------------------------------------------------
(* The channel process *)

\* join/3 claims last, when nothing else can refuse the join any more.  A call
\* to a name nobody owns exits.
Join(p) ==
  /\ pc[p] = "new"
  /\ \E m \in Mode : mode' = [mode EXCEPT ![p] = m]
  /\ \/ /\ server # "down"
        /\ pc' = [pc EXCEPT ![p] = "calling"]
        /\ queue' = queue \union {p}
     \/ /\ server = "down"
        /\ pc' = [pc EXCEPT ![p] = "dead"]
        /\ UNCHANGED queue
  /\ UNCHANGED <<table, server, refs, current, work, crashes>>

\* The member leaves, is killed, or gives up its call after five seconds; the
\* request of a caller that gives up stays where it is.
Die(p) ==
  /\ Alive(p)
  /\ pc' = [pc EXCEPT ![p] = "dead"]
  /\ UNCHANGED <<mode, table, server, queue, refs, current, work, crashes>>

-----------------------------------------------------------------------------
(* The Konet.BinaryMode process *)

\* A caller that is gone gets no answer.
Answer(p, a) == pc' = IF pc[p] = "calling" THEN [pc EXCEPT ![p] = a] ELSE pc

\* Rows of the topic whose process is alive; the others are deleted.
Members(t) == {r \in RowsOf(t) : Alive(r.pid)}

\* The modes the first row found may have: a bag does not say which that is.
Current(t) == IF Members(t) = {} THEN {"none"} ELSE {r.mode : r \in Members(t)}

Mismatch(c, m) == c # "none" /\ c # m

Full(t, m) == m = "multiplex" /\ MaxMembers > 0 /\ Cardinality(Members(t)) >= MaxMembers

MutRefuse(p) ==                             \* mutant: recorded first, checked afterwards
  LET t == TopicOf[p] IN
  /\ server = "idle" /\ p \in queue
  /\ \E c \in Current(t) : Mismatch(c, mode[p]) \/ Full(t, mode[p])
  /\ queue' = queue \ {p}
  /\ table' = table \union {[topic |-> t, pid |-> p, mode |-> mode[p]]}
  /\ Answer(p, "refused")
  /\ UNCHANGED <<mode, server, refs, current, work, crashes>>

Refuse(p) ==
  LET t == TopicOf[p] IN
  /\ server = "idle" /\ p \in queue
  /\ \E c \in Current(t) : Mismatch(c, mode[p]) \/ Full(t, mode[p])
  /\ queue' = queue \ {p}
  /\ table' = (table \ RowsOf(t)) \union Members(t)
  /\ Answer(p, "refused")
  /\ UNCHANGED <<mode, server, refs, current, work, crashes>>

Accept(p) ==
  LET t == TopicOf[p] IN
  /\ server = "idle" /\ p \in queue
  /\ \E c \in Current(t) : ~Mismatch(c, mode[p])
  /\ ~Full(t, mode[p])
  /\ queue' = queue \ {p}
  /\ table' = (table \ RowsOf(t)) \union Members(t) \union {[topic |-> t, pid |-> p, mode |-> mode[p]]}
  /\ server' = "answer"
  /\ current' = p
  /\ UNCHANGED <<pc, mode, refs, work, crashes>>

MutWatch ==                                 \* mutant: no monitor
  /\ server = "answer"
  /\ Answer(current, "joined")
  /\ server' = "idle" /\ current' = NoPid
  /\ UNCHANGED <<mode, table, queue, refs, work, crashes>>

Watch ==
  /\ server = "answer"
  /\ refs' = refs \union {current}
  /\ Answer(current, "joined")
  /\ server' = "idle" /\ current' = NoPid
  /\ UNCHANGED <<mode, table, queue, work, crashes>>

MutHandleDown(p) ==                         \* mutant: match_delete of {topic, _, _}
  /\ server = "idle" /\ p \in refs /\ ~Alive(p)
  /\ refs' = refs \ {p}
  /\ table' = table \ RowsOf(TopicOf[p])
  /\ UNCHANGED <<pc, mode, server, queue, current, work, crashes>>

HandleDown(p) ==
  /\ server = "idle" /\ p \in refs /\ ~Alive(p)
  /\ refs' = refs \ {p}
  /\ table' = {r \in table : ~(r.topic = TopicOf[p] /\ r.pid = p)}
  /\ UNCHANGED <<pc, mode, server, queue, current, work, crashes>>

\* The calls in the mailbox are lost with it, and their callers exit.
Crash ==
  /\ server # "down" /\ crashes < MaxCrashes
  /\ server' = "down" /\ queue' = {} /\ refs' = {} /\ current' = NoPid /\ work' = {}
  /\ pc' = [p \in Pid |-> IF pc[p] = "calling" THEN "exiting" ELSE pc[p]]
  /\ crashes' = crashes + 1
  /\ UNCHANGED <<mode, table>>

Restart ==
  /\ server = "down"
  /\ work' = table
  /\ server' = IF table = {} THEN "idle" ELSE "init"
  /\ UNCHANGED <<pc, mode, table, queue, refs, current, crashes>>

MutRebuild ==                               \* mutant: dead rows are left alone
  /\ server = "init"
  /\ \E r \in work :
       /\ work' = work \ {r}
       /\ IF Alive(r.pid) THEN refs' = refs \union {r.pid} ELSE UNCHANGED refs
  /\ server' = IF work' = {} THEN "idle" ELSE "init"
  /\ UNCHANGED <<pc, mode, table, queue, current, crashes>>

Rebuild ==
  /\ server = "init"
  /\ \E r \in work :
       /\ work' = work \ {r}
       /\ \/ /\ Alive(r.pid)
             /\ refs' = refs \union {r.pid}
             /\ UNCHANGED table
          \/ /\ ~Alive(r.pid)
             /\ table' = table \ {r}
             /\ UNCHANGED refs
  /\ server' = IF work' = {} THEN "idle" ELSE "init"
  /\ UNCHANGED <<pc, mode, queue, current, crashes>>

Serve ==
  \/ \E p \in Pid : Refuse(p) \/ Accept(p) \/ HandleDown(p)
  \/ Watch \/ Restart \/ Rebuild

Next == Serve \/ Crash \/ \E p \in Pid : Join(p) \/ Die(p)

Spec == Init /\ [][Next]_vars

\* The process works through its mailbox, exit signals arrive in it, and its
\* supervisor restarts it.  Nothing makes a member join or leave.
FairSpec == Spec /\ WF_vars(Serve)

-----------------------------------------------------------------------------
TypeOK ==
  /\ pc \in [Pid -> {"new", "calling", "joined", "refused", "exiting", "dead"}]
  /\ mode \in [Pid -> Mode]
  /\ table \subseteq Row /\ work \subseteq Row
  /\ server \in {"down", "init", "idle", "answer"}
  /\ queue \subseteq Pid /\ refs \subseteq Pid /\ current \in Pid \union {NoPid}
  /\ crashes \in 0 .. MaxCrashes
  /\ server = "answer" <=> current # NoPid
  /\ server = "init" <=> work # {}

\* A member's cached mode never goes stale: as long as it is joined, its topic
\* has a mode, and it is that one (binary_mode.ex 35).  The runs check it, and
\* the ceiling, by what they come to for the members: ModeSafe below.
CacheFresh ==
  \A p \in Pid : pc[p] = "joined" => {r.mode : r \in RowsOf(TopicOf[p])} = {mode[p]}

\* A multiplex topic never has more live members than the ceiling, those whose
\* join is just being answered included (binary_mode.ex 26).
Ceiling ==
  \A t \in Topic : MaxMembers > 0 =>
    Cardinality({r \in Members(t) : r.mode = "multiplex"}) <= MaxMembers

\* A process whose join was refused is in no topic (room_channel.ex 10).
RefusedLeaveNoTrace ==
  \A r \in table : pc[r.pid] \notin {"new", "refused"}

\* Every recorded member is watched, or will be when the process is done with
\* what it is doing: no crash loses one (binary_mode.ex 75).
MembersWatched ==
  \A r \in table :
    r.pid \in refs \/ r.pid = current \/ server = "down" \/ r \in work

\* What the members of a topic see of it: who has joined, and the mode they
\* have cached.  It implements TopicMode: rows, crashes, a table pruned late and
\* members that die half way in show as nothing else (binary_mode.ex 15-18, 26).
Joined(t) == {p \in Pid : pc[p] = "joined" /\ TopicOf[p] = t}
Cached(t) == IF Joined(t) = {} THEN "none" ELSE mode[CHOOSE p \in Joined(t) : TRUE]
Topics == INSTANCE TopicMode WITH
  member <- [t \in Topic |-> Joined(t)], mode <- [t \in Topic |-> Cached(t)]
ModeSafe == Topics!Spec

\* A member that is gone does not hold its topic in its mode for ever.
DeadForgotten ==
  \A p \in Pid : (pc[p] = "dead") ~> (pc[p] = "dead" /\ \A r \in table : r.pid # p)
=============================================================================
