-------------------------------- MODULE Floor --------------------------------
(***************************************************************************)
(* Exclusive floor control (Konet.Floor) together with the part of         *)
(* KonetWeb.RoomChannel that drives it.                                     *)
(*                                                                          *)
(* The floor of a topic is one row of an ETS table.  Channel processes read *)
(* and write that table directly, in several steps per event; the           *)
(* Konet.Floor process only watches holders and sweeps long holds, and      *)
(* hears of acquisitions and releases through casts in its mailbox.  Each   *)
(* action is one step between two points where another process can run: an  *)
(* ETS operation, a cast with the webhook that follows it, a broadcast.     *)
(*                                                                          *)
(* A hold is the tenure of one row.  Its number stands for the two          *)
(* timestamps the row carries; `ripe` says that the monotonic one is at     *)
(* least max_hold_ms old.                                                   *)
(***************************************************************************)
EXTENDS Naturals, Sequences

CONSTANTS
  Topic,        \* exclusive topics
  Pid,          \* channel processes, one per member and topic
  User,         \* user ids
  Ref,          \* monitor references
  TopicOf,      \* TopicOf[p]: the topic process p joined
  UserOf,       \* UserOf[p]: the user id of its token
  NoRow, NoRef, NoUser, NoJob,
  MaxAttempts,  \* @max_acquire_attempts
  MaxHolds,     \* bound: acquisitions in a behaviour
  MaxCrashes,   \* bound: crashes of the Konet.Floor process
  Killable,     \* processes that may die without running terminate/2
  CanRipen      \* whether a hold may last max_hold_ms

Hold == 1 .. MaxHolds
Row == [user : User, pid : Pid, hold : Hold]
Job == [topic : Topic, row : Row]

ASSUME ConstAssumption ==
  /\ TopicOf \in [Pid -> Topic] /\ UserOf \in [Pid -> User]
  /\ NoRow \notin Row /\ NoRef \notin Ref /\ NoRef \notin [topic : Topic, pid : Pid]
  /\ NoUser \notin User /\ NoJob \notin Job
  /\ MaxAttempts \in Nat \ {0} /\ MaxHolds \in Nat /\ MaxCrashes \in Nat
  /\ Killable \subseteq Pid /\ CanRipen \in BOOLEAN

VARIABLES
  table,     \* the ETS table: the row of each topic
  ripe,      \* topics whose row has reached max_hold_ms
  said,      \* the holder named by the last konet:floor broadcast
  pc,        \* where each channel process is
  seen,      \* the row it inserted or looked up
  tries,     \* do_acquire's attempts_left
  leaving,   \* processes that run, or have run, terminate/2
  server,    \* what the Konet.Floor process is doing
  mailbox,   \* its mailbox
  refs,      \* state.refs, with the process each reference watches
  topics,    \* state.topics
  timer,     \* whether the sweep timer is running
  work,      \* rows it has read and still has to act on
  current,   \* the one it has just removed
  reason,    \* why: the `reason` of the floor_released event
  holds,     \* acquisitions so far
  crashes,   \* crashes so far
  events,    \* webhooks: <<hold, "acquired">> and <<hold, reason of its release>>
  exposed    \* history: holds whose watch a late cast or an early death undid

tableVars == <<table, ripe>>
channelVars == <<pc, seen, tries, leaving>>
watchVars == <<mailbox, refs, topics>>
jobVars == <<work, current, reason>>
histVars == <<holds, crashes, events, exposed>>
vars == <<tableVars, said, channelVars, server, watchVars, timer, jobVars, histVars>>

MonitorMsg(t, p) == [kind |-> "monitor", topic |-> t, pid |-> p]
DemonitorMsg(t) == [kind |-> "demonitor", topic |-> t]
DownMsg(r) == [kind |-> "DOWN", ref |-> r]
SweepMsg == [kind |-> "sweep"]
Message == {MonitorMsg(t, p) : t \in Topic, p \in Pid} \union {DemonitorMsg(t) : t \in Topic}
             \union {DownMsg(r) : r \in Ref} \union {SweepMsg}

Alive(p) == pc[p] # "dead"
Held(t) == table[t] # NoRow
Holds(t, u) == Held(t) /\ table[t].user = u
JobOf(t) == [topic |-> t, row |-> table[t]]

Init ==
  /\ table = [t \in Topic |-> NoRow] /\ ripe = {} /\ said = [t \in Topic |-> NoUser]
  /\ pc = [p \in Pid |-> "idle"] /\ seen = [p \in Pid |-> NoRow]
  /\ tries = [p \in Pid |-> 0] /\ leaving = {}
  /\ server = "idle" /\ mailbox = <<>> /\ timer = TRUE
  /\ refs = [r \in Ref |-> NoRef] /\ topics = [t \in Topic |-> NoRef]
  /\ work = {} /\ current = NoJob /\ reason = "none"
  /\ holds = 0 /\ crashes = 0 /\ events = {} /\ exposed = {}

\* :ets.delete/2 takes the topic: it removes whatever row is there by now.
Erase(t) ==
  /\ table' = [table EXCEPT ![t] = NoRow]
  /\ ripe' = ripe \ {t}

Goto(p, at) == pc' = [pc EXCEPT ![p] = at]

\* The handler returns; after terminate/2 the process is gone.
Return(p) ==
  /\ Goto(p, IF p \in leaving THEN "dead" ELSE "idle")
  /\ seen' = [seen EXCEPT ![p] = NoRow]
  /\ tries' = [tries EXCEPT ![p] = 0]
  /\ UNCHANGED leaving

\* GenServer.cast/2 to a name: lost, without an error, while nobody owns it.
Cast(m) == mailbox' = IF server = "down" THEN mailbox ELSE Append(mailbox, m)

\* A cast about topic t sent while somebody else's row is in the table, and its
\* own cast is out already, comes too late: it undoes the watch on that row.
Overtaken(t, p) ==
  IF Held(t) /\ table[t].pid # p /\ pc[table[t].pid] # "cast_monitor"
  THEN {table[t].hold} ELSE {}

-----------------------------------------------------------------------------
(* handle_in "konet:floor_acquire" and Floor.acquire/3 *)

Press(p) ==
  /\ pc[p] = "idle" /\ holds < MaxHolds
  /\ Goto(p, "insert")
  /\ tries' = [tries EXCEPT ![p] = MaxAttempts]
  /\ UNCHANGED <<seen, leaving, exposed>>

\* :ets.insert_new/2
MutCanInsert(t) == TRUE               \* mutant: insert/2
CanInsert(t) == ~Held(t)

InsertNew(p) ==
  LET t == TopicOf[p]
      row == [user |-> UserOf[p], pid |-> p, hold |-> holds + 1]
  IN
  /\ pc[p] = "insert"
  /\ \/ /\ CanInsert(t) /\ holds < MaxHolds
        /\ table' = [table EXCEPT ![t] = row]
        /\ holds' = holds + 1
        /\ seen' = [seen EXCEPT ![p] = row]
        /\ Goto(p, "cast_monitor")
     \/ /\ ~CanInsert(t)
        /\ Goto(p, "read")
        /\ UNCHANGED <<table, holds, seen>>
  /\ UNCHANGED <<ripe, said, tries, leaving, mailbox, crashes, events, exposed>>

MutCastMonitor(p) ==                  \* mutant: the arbiter never hears of the holder
  /\ pc[p] = "cast_monitor"
  /\ Goto(p, "announce_holder")
  /\ UNCHANGED <<tableVars, said, seen, tries, leaving, mailbox, histVars>>

CastMonitor(p) ==
  /\ pc[p] = "cast_monitor"
  /\ Cast(MonitorMsg(TopicOf[p], p))
  /\ exposed' = exposed \union Overtaken(TopicOf[p], p)
  /\ events' = events \union {<<seen[p].hold, "acquired">>}
  /\ Goto(p, "announce_holder")
  /\ UNCHANGED <<tableVars, said, seen, tries, leaving, holds, crashes>>

LastAttempt(p) == tries[p] = 1

\* insert_new/2 failed: whose floor is it?  Asked again when it is free by now,
\* until the attempts run out; then the caller is refused whatever it reads.
ReadHolder(p) ==
  LET t == TopicOf[p] IN
  /\ pc[p] = "read"
  /\ \/ /\ Holds(t, UserOf[p])
        /\ Goto(p, "announce_holder")
        /\ UNCHANGED <<seen, tries, leaving>>
     \/ /\ Held(t) /\ ~Holds(t, UserOf[p])
        /\ Return(p)
     \/ /\ ~Held(t) /\ ~LastAttempt(p)
        /\ Goto(p, "insert")
        /\ tries' = [tries EXCEPT ![p] = @ - 1]
        /\ UNCHANGED <<seen, leaving>>
     \/ /\ ~Held(t) /\ LastAttempt(p)
        /\ Return(p)
  /\ UNCHANGED <<tableVars, said, mailbox, histVars>>

AnnounceHolder(p) ==
  /\ pc[p] = "announce_holder"
  /\ said' = [said EXCEPT ![TopicOf[p]] = UserOf[p]]
  /\ Return(p)
  /\ UNCHANGED <<tableVars, mailbox, histVars>>

-----------------------------------------------------------------------------
(* handle_in "konet:floor_release", terminate/2 and Floor.release/2 *)

Release(p) ==
  /\ pc[p] = "idle"
  /\ Goto(p, "lookup")
  /\ UNCHANGED <<seen, tries, leaving, exposed>>

MutTerminate(p) ==                    \* mutant: terminate/2 does not release
  /\ pc[p] = "idle"
  /\ leaving' = leaving \union {p}
  /\ Goto(p, "dead")
  /\ UNCHANGED <<seen, tries, exposed>>

\* The transport closed, or the member left: terminate/2 releases as well.
Terminate(p) ==
  /\ pc[p] = "idle"
  /\ leaving' = leaving \union {p}
  /\ Goto(p, "lookup")
  /\ UNCHANGED <<seen, tries, exposed>>

Lookup(p) ==
  LET t == TopicOf[p] IN
  /\ pc[p] = "lookup"
  /\ \/ /\ Holds(t, UserOf[p])
        /\ seen' = [seen EXCEPT ![p] = table[t]]
        /\ Goto(p, "delete")
        /\ UNCHANGED <<tries, leaving>>
     \/ /\ ~Holds(t, UserOf[p])
        /\ Return(p)
  /\ UNCHANGED <<tableVars, said, mailbox, histVars>>

Delete(p) ==
  /\ pc[p] = "delete"
  /\ Erase(TopicOf[p])
  /\ Goto(p, "cast_demonitor")
  /\ UNCHANGED <<said, seen, tries, leaving, mailbox, histVars>>

CastDemonitor(p) ==
  /\ pc[p] = "cast_demonitor"
  /\ Cast(DemonitorMsg(TopicOf[p]))
  /\ exposed' = exposed \union Overtaken(TopicOf[p], p)
  /\ events' = events \union {<<seen[p].hold, "released">>}
  /\ Goto(p, "announce_free")
  /\ UNCHANGED <<tableVars, said, seen, tries, leaving, holds, crashes>>

AnnounceFree(p) ==
  /\ pc[p] = "announce_free"
  /\ said' = [said EXCEPT ![TopicOf[p]] = NoUser]
  /\ Return(p)
  /\ UNCHANGED <<tableVars, mailbox, histVars>>

-----------------------------------------------------------------------------
(* handle_in of a binary frame: may_send_binary?/1, then broadcast_from!/3 *)

CheckFrame(p) ==
  /\ pc[p] = "idle" /\ Holds(TopicOf[p], UserOf[p])
  /\ Goto(p, "send_frame")
  /\ UNCHANGED <<seen, tries, leaving, exposed>>

SendFrame(p) ==
  /\ pc[p] = "send_frame"
  /\ Return(p)
  /\ UNCHANGED <<tableVars, said, mailbox, histVars>>

\* Death without terminate/2: an exit signal, such as the one Phoenix sends the
\* old channel process when a client joins the same topic twice.
Kill(p) ==
  LET t == TopicOf[p] IN
  /\ Alive(p) /\ p \in Killable
  /\ Goto(p, "dead")
  /\ seen' = [seen EXCEPT ![p] = NoRow]
  /\ tries' = [tries EXCEPT ![p] = 0]
  /\ leaving' = leaving \ {p}
  /\ exposed' = IF pc[p] = "cast_monitor" /\ Held(t) /\ table[t].pid = p
                THEN exposed \union {table[t].hold} ELSE exposed

-----------------------------------------------------------------------------
(* Time and signals *)

\* The runtime signals the death of a watched process once per reference.
DownArrives(r) ==
  /\ refs[r] # NoRef /\ ~Alive(refs[r].pid)
  /\ \A i \in DOMAIN mailbox : mailbox[i] # DownMsg(r)
  /\ mailbox' = Append(mailbox, DownMsg(r))
  /\ UNCHANGED <<tableVars, said, channelVars, server, refs, topics, timer, jobVars, histVars>>

\* A held topic reaches max_hold_ms.
Ripen(t) ==
  /\ CanRipen /\ Held(t) /\ t \notin ripe
  /\ ripe' = ripe \union {t}
  /\ UNCHANGED <<table, said, channelVars, server, watchVars, timer, jobVars, histVars>>

SweepTimer ==
  /\ timer
  /\ timer' = FALSE
  /\ mailbox' = Append(mailbox, SweepMsg)
  /\ UNCHANGED <<tableVars, said, channelVars, server, refs, topics, jobVars, histVars>>

-----------------------------------------------------------------------------
(* The Konet.Floor process *)

MutScheduleSweep == UNCHANGED timer   \* mutant: forgotten
ScheduleSweep == timer' = TRUE

\* Process.monitor/1 returns a reference nobody uses.
CanMonitor == \E r \in Ref : refs[r] = NoRef
NewRef == CHOOSE r \in Ref : refs[r] = NoRef

RefsWithout(t) == [r \in Ref |-> IF r = topics[t] THEN NoRef ELSE refs[r]]

MutFlush(box, r) == box               \* mutant: Process.demonitor(ref)
\* Process.demonitor(ref, [:flush]) also takes the reference's DOWN message
\* out of the mailbox, if it is there.
Flush(box, r) ==
  IF \E i \in DOMAIN box : box[i] = DownMsg(r)
  THEN LET k == CHOOSE i \in DOMAIN box : box[i] = DownMsg(r)
       IN [i \in 1 .. Len(box) - 1 |-> IF i < k THEN box[i] ELSE box[i + 1]]
  ELSE box

Receive(kind) == server = "idle" /\ mailbox # <<>> /\ Head(mailbox).kind = kind

HandleMonitor ==
  /\ Receive("monitor") /\ CanMonitor
  /\ LET t == Head(mailbox).topic IN
       /\ refs' = [RefsWithout(t) EXCEPT ![NewRef] = [topic |-> t, pid |-> Head(mailbox).pid]]
       /\ topics' = [topics EXCEPT ![t] = NewRef]
       /\ mailbox' = Flush(Tail(mailbox), topics[t])
  /\ UNCHANGED <<tableVars, said, server, timer, jobVars, crashes, events>>

HandleDemonitor ==
  /\ Receive("demonitor")
  /\ LET t == Head(mailbox).topic IN
       /\ refs' = RefsWithout(t)
       /\ topics' = [topics EXCEPT ![t] = NoRef]
       /\ mailbox' = Flush(Tail(mailbox), topics[t])
  /\ UNCHANGED <<tableVars, said, server, timer, jobVars, crashes, events>>

\* Whether there are rows to remove, given the new value of work.
Remove(why) ==
  /\ server' = IF work' = {} THEN "idle" ELSE "remove"
  /\ reason' = IF work' = {} THEN "none" ELSE why

\* :ets.match_object/2 on the topic and the process
MutStillHeldBy(t, p) == Held(t)       \* mutant: on the topic alone
StillHeldBy(t, p) == Held(t) /\ table[t].pid = p

\* The topic comes from the reference; its row is removed only if the process
\* that died is still the one in it.
HandleDown ==
  /\ Receive("DOWN")
  /\ LET r == Head(mailbox).ref
         watched == {t \in Topic : refs[r] # NoRef /\ refs[r].topic = t}
     IN
       /\ work' = {JobOf(t) : t \in {s \in watched : StillHeldBy(s, refs[r].pid)}}
       /\ Remove("disconnected")
       /\ topics' = [t \in Topic |-> IF t \in watched THEN NoRef ELSE topics[t]]
       /\ refs' = [refs EXCEPT ![r] = NoRef]
  /\ mailbox' = Tail(mailbox)
  /\ UNCHANGED <<tableVars, said, timer, current, crashes, events>>

HandleSweep ==
  /\ Receive("sweep")
  /\ work' = {JobOf(t) : t \in {s \in ripe : Held(s)}}
  /\ Remove("expired")
  /\ IF work' = {} THEN ScheduleSweep ELSE UNCHANGED timer
  /\ mailbox' = Tail(mailbox)
  /\ UNCHANGED <<tableVars, said, refs, topics, current, crashes, events>>

RemoveRow ==
  /\ server = "remove"
  /\ \E job \in work :
       /\ Erase(job.topic)
       /\ current' = job
       /\ work' = work \ {job}
  /\ server' = "announce"
  /\ UNCHANGED <<said, watchVars, timer, reason, crashes, events>>

\* emit_released and announce_free.  A sweep also drops the topic's monitor, and
\* is scheduled again at its end.
AnnounceRemoval ==
  LET t == current.topic
      last == work = {}
  IN
  /\ server = "announce"
  /\ events' = events \union {<<current.row.hold, reason>>}
  /\ said' = [said EXCEPT ![t] = NoUser]
  /\ IF reason = "expired"
     THEN /\ refs' = RefsWithout(t)
          /\ topics' = [topics EXCEPT ![t] = NoRef]
          /\ mailbox' = Flush(mailbox, topics[t])
     ELSE UNCHANGED watchVars
  /\ IF last /\ reason = "expired" THEN ScheduleSweep ELSE UNCHANGED timer
  /\ server' = IF last THEN "idle" ELSE "remove"
  /\ reason' = IF last THEN "none" ELSE reason
  /\ current' = NoJob
  /\ UNCHANGED <<tableVars, work, crashes>>

\* A crash takes the state and the mailbox; the table belongs to Konet.Tables.
Crash ==
  /\ server # "down" /\ crashes < MaxCrashes
  /\ server' = "down" /\ mailbox' = <<>> /\ timer' = FALSE
  /\ refs' = [r \in Ref |-> NoRef] /\ topics' = [t \in Topic |-> NoRef]
  /\ work' = {} /\ current' = NoJob /\ reason' = "none"
  /\ crashes' = crashes + 1
  /\ UNCHANGED <<tableVars, said, events>>

\* :ets.tab2list/1
MutTableRows == {}                    \* mutant: nothing is rebuilt
TableRows == {JobOf(t) : t \in {s \in Topic : Held(s)}}

\* init/1: schedule the sweep, read the whole table, then go through the rows.
Restart ==
  /\ server = "down"
  /\ work' = TableRows
  /\ server' = IF work' = {} THEN "idle" ELSE "init"
  /\ ScheduleSweep
  /\ UNCHANGED <<tableVars, said, watchVars, current, reason, crashes, events>>

Rebuild ==
  /\ server = "init"
  /\ \E job \in work :
       /\ \/ /\ Alive(job.row.pid) /\ CanMonitor
             /\ refs' = [refs EXCEPT ![NewRef] = [topic |-> job.topic, pid |-> job.row.pid]]
             /\ topics' = [topics EXCEPT ![job.topic] = NewRef]
             /\ UNCHANGED tableVars
          \/ /\ ~Alive(job.row.pid)
             /\ Erase(job.topic)
             /\ UNCHANGED <<refs, topics>>
       /\ work' = work \ {job}
  /\ server' = IF work' = {} THEN "idle" ELSE "init"
  /\ UNCHANGED <<said, mailbox, timer, current, reason, crashes, events>>

-----------------------------------------------------------------------------
\* The steps of a handler that is running.
Continue(p) ==
  /\ \/ InsertNew(p) \/ CastMonitor(p) \/ ReadHolder(p) \/ AnnounceHolder(p)
     \/ Lookup(p) \/ Delete(p) \/ CastDemonitor(p) \/ AnnounceFree(p) \/ SendFrame(p)
  /\ UNCHANGED <<server, refs, topics, timer, jobVars>>

\* What a client, the network or an exit signal starts.
Event(p) ==
  /\ Press(p) \/ Release(p) \/ Terminate(p) \/ CheckFrame(p) \/ Kill(p)
  /\ UNCHANGED <<tableVars, said, server, watchVars, timer, jobVars, holds, crashes, events>>

Serve ==
  /\ \/ HandleMonitor \/ HandleDemonitor \/ HandleDown \/ HandleSweep
     \/ RemoveRow \/ AnnounceRemoval \/ Restart \/ Rebuild
  /\ UNCHANGED <<channelVars, holds, exposed>>

Fail == Crash /\ UNCHANGED <<channelVars, holds, exposed>>

Next ==
  \/ \E p \in Pid : Continue(p) \/ Event(p)
  \/ \E r \in Ref : DownArrives(r)
  \/ \E t \in Topic : Ripen(t)
  \/ SweepTimer \/ Serve \/ Fail

Spec == Init /\ [][Next]_vars

\* The scheduler runs every process that can run, the supervisor restarts the
\* arbiter, timers fire and exit signals arrive.  Nothing makes a client press,
\* release or leave, and whether a hold lasts max_hold_ms is left open.
Fairness ==
  /\ \A p \in Pid : WF_vars(Continue(p))
  /\ \A r \in Ref : WF_vars(DownArrives(r))
  /\ WF_vars(SweepTimer) /\ WF_vars(Serve)

FairSpec == Spec /\ Fairness

-----------------------------------------------------------------------------
ChannelsOK ==
  /\ pc \in [Pid -> {"idle", "insert", "cast_monitor", "read", "announce_holder", "lookup",
                     "delete", "cast_demonitor", "announce_free", "send_frame", "dead"}]
  /\ seen \in [Pid -> Row \union {NoRow}]
  /\ tries \in [Pid -> 0 .. MaxAttempts]
  /\ leaving \subseteq Pid
  /\ \A p \in Pid :
       /\ pc[p] \in {"cast_monitor", "delete", "cast_demonitor"} => seen[p] # NoRow
       /\ pc[p] \in {"insert", "read"} => tries[p] > 0

ArbiterOK ==
  /\ server \in {"down", "init", "idle", "remove", "announce"}
  /\ refs \in [Ref -> [topic : Topic, pid : Pid] \union {NoRef}]
  /\ topics \in [Topic -> Ref \union {NoRef}]
  /\ timer \in BOOLEAN
  /\ work \subseteq Job /\ current \in Job \union {NoJob}
  /\ reason \in {"none", "disconnected", "expired"}
  /\ server = "announce" <=> current # NoJob
  /\ server \in {"remove", "announce"} <=> reason # "none"

TypeOK ==
  /\ table \in [Topic -> Row \union {NoRow}] /\ ripe \subseteq Topic
  /\ said \in [Topic -> User \union {NoUser}]
  /\ ChannelsOK /\ ArbiterOK
  /\ mailbox \in Seq(Message)
  /\ holds \in 0 .. MaxHolds /\ crashes \in 0 .. MaxCrashes
  /\ events \subseteq Hold \X {"acquired", "released", "disconnected", "expired"}
  /\ exposed \subseteq Hold

\* state.refs and state.topics are inverse to each other, so that no monitor
\* leaks and none is forgotten (floor.ex 118, 170), ...
MapsInverse ==
  /\ \A t \in Topic : topics[t] # NoRef =>
       refs[topics[t]] # NoRef /\ refs[topics[t]].topic = t
  /\ \A r \in Ref : refs[r] # NoRef => topics[refs[r].topic] = r

\* ... and every DOWN message in the mailbox is the only one for a reference
\* the process still knows (floor.ex 245).
DownsCurrent ==
  \A r \in Ref : \A i \in DOMAIN mailbox : mailbox[i] = DownMsg(r) =>
    /\ refs[r] # NoRef
    /\ ~Alive(refs[r].pid)
    /\ \A j \in DOMAIN mailbox : mailbox[j] = DownMsg(r) => j = i

MonitorsAgree == MapsInverse /\ DownsCurrent

\* A message that changes which process is watched for topic t.
About(t, m) == m.kind \in {"monitor", "demonitor"} /\ m.topic = t

NoWord(box, t) == \A i \in DOMAIN box : ~About(t, box[i])

\* The last word about t in a mailbox is to watch p.
WillHear(box, t, p) ==
  \E i \in DOMAIN box :
    /\ box[i] = MonitorMsg(t, p)
    /\ \A j \in DOMAIN box : j > i => ~About(t, box[j])

Monitored(t, p) == topics[t] # NoRef /\ refs[topics[t]].pid = p

\* A holder is watched once the mailbox has been worked through, or will be: by
\* a cast it still has to send, or by the rebuild after a crash; or the arbiter
\* is already at work on its row.  The exceptions are the holds in `exposed`.
\* In particular a crash and restart at any point loses nobody (floor.ex 142).
HoldersWatched ==
  \A t \in Topic : Held(t) /\ table[t].hold \notin exposed =>
    \/ pc[table[t].pid] = "cast_monitor"
    \/ server = "down"
    \/ JobOf(t) \in work
    \/ WillHear(mailbox, t, table[t].pid)
    \/ NoWord(mailbox, t) /\ Monitored(t, table[t].pid)

\* The sweep never stops coming, whatever crashes: exactly one is due, queued or
\* under way while the arbiter is up (floor.ex 19, 149, 235).
SweepComing ==
  server # "down" =>
    /\ (timer \/ reason = "expired") <=> (\A i \in DOMAIN mailbox : mailbox[i] # SweepMsg)
    /\ ~(timer /\ reason = "expired")
    /\ \A i, j \in DOMAIN mailbox : mailbox[i] = SweepMsg /\ mailbox[j] = SweepMsg => i = j

\* What the arbiter sets out to remove as "disconnected" is a dead process's:
\* a topic that was re-acquired when it handles the death is left alone
\* (floor.ex 191).  HoldsEndDuly below is what it comes to for the members.
DisconnectsOnlyTheDead ==
  reason = "disconnected" =>
    /\ \A job \in work : ~Alive(job.row.pid)
    /\ server = "announce" => ~Alive(current.row.pid)

\* Nothing is in progress anywhere.
Quiet ==
  /\ \A p \in Pid : pc[p] \in {"idle", "dead"}
  /\ server = "idle" /\ mailbox = <<>>
  /\ \A r \in Ref : refs[r] # NoRef => Alive(refs[r].pid)

\* So far processes ended through terminate/2 only, and the arbiter has neither
\* crashed nor removed a row itself.
Calm ==
  /\ crashes = 0
  /\ \A p \in Pid : ~Alive(p) => p \in leaving
  /\ \A e \in events : e[2] \in {"acquired", "released"}

\* Among members who press, release and leave, in any interleaving, each with one
\* process in the topic, the backend is told of every acquisition and of the end
\* of every hold that is over, and a process that is gone holds nothing
\* (floor.ex 46).
BackendToldOfEveryHold ==
  Quiet /\ Calm => \A h \in 1 .. holds :
    /\ <<h, "acquired">> \in events
    /\ \/ \E t \in Topic : Held(t) /\ table[t].hold = h /\ Alive(table[t].pid)
       \/ <<h, "released">> \in events

\* A release removes the hold its caller looked up, never a later one
\* (floor.ex 110).
ReleasesOnlyOwnHold ==
  [][\A p \in Pid : Delete(p) /\ Held(TopicOf[p]) => table[TopicOf[p]] = seen[p]]_vars

\* No hold has reached max_hold_ms in front of a sweep, and the arbiter has not
\* crashed.
Undisturbed == crashes = 0 /\ reason # "expired" /\ \A e \in events : e[2] # "expired"

\* Then a live member keeps the floor until it lets go of it: neither the release
\* of an earlier holder that comes late, nor the death of one that the arbiter
\* handles late, ends a later hold (floor.ex 110, 189).
HoldsEndDuly ==
  [][Undisturbed' => \A t \in Topic : Held(t) /\ table'[t] # table[t] =>
       ~Alive(table[t].pid) \/ Delete(table[t].pid)]_vars

\* A dead process does not keep the floor until max_hold_ms, unless its hold is
\* one of the exposed ones: the monitor frees it (floor.ex 19).
DeadHoldersFreed ==
  \A t \in Topic : \A h \in Hold :
    (Held(t) /\ table[t].hold = h /\ ~Alive(table[t].pid))
      ~> (~Held(t) \/ table[t].hold # h \/ h \in exposed \/ t \in ripe)

\* Floor implements the abstract lock: a step of the table is a step of the
\* lock; and, if time passes, every hold ends.
Holder == [t \in Topic |-> IF Held(t) THEN table[t].user ELSE NoUser]
Lock == INSTANCE FloorLock WITH holder <- Holder
LockSafe == Lock!Safety
LockLive == (\A t \in Topic : WF_vars(Ripen(t))) => Lock!Fairness
=============================================================================
