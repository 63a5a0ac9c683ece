--------------------------------- MODULE Room --------------------------------
(***************************************************************************)
(* A room as its members and the backend see it: the life of a channel      *)
(* process (KonetWeb.RoomChannel), the count of subscribers and the         *)
(* channel_occupied and channel_vacated events (Konet.ChannelRegistry), and *)
(* the replay buffer (Konet.History).                                       *)
(*                                                                          *)
(* Both workers are told by casts.  A mailbox keeps the order of one        *)
(* sender's casts only, so it is a set from which any cast may be taken     *)
(* that has none of its sender's before it.  The mode a joining process     *)
(* claims is in BinaryMode, the floor in Floor.                             *)
(***************************************************************************)
EXTENDS Naturals, Sequences, FiniteSets

CONSTANTS
  Room,        \* rooms
  Pid,         \* channel processes; each joins one room, once
  Api,         \* requests of the REST API and the Studio to broadcast
  RoomOf,      \* RoomOf[s]: the room of a process or request
  Sends,       \* bound: Sends[s], how many messages s broadcasts
  Limit,       \* history_limit, 0 for no replay
  Killable,    \* processes that may die without running terminate/2
  NoEvent,
  MaxCrashes   \* bound: crashes of the two workers

Sender == Pid \union Api
Message == UNION {[from : {s}, nth : 1 .. Sends[s]] : s \in Sender}
RoomEvent == [room : Room, is : {"occupied", "vacated"}]

ASSUME ConstAssumption ==
  /\ IsFiniteSet(Pid) /\ Pid \intersect Api = {}
  /\ RoomOf \in [Sender -> Room] /\ Sends \in [Sender -> Nat]
  /\ Limit \in Nat /\ MaxCrashes \in Nat
  /\ Killable \subseteq Pid /\ NoEvent \notin RoomEvent

VARIABLES
  pc,         \* where each process and request is
  sent,       \* sent[s]: messages s has started to broadcast
  said,       \* messages delivered to the subscribers of their room
  heard,      \* heard[p]: messages delivered to p's client
  replay,     \* replay[p]: the konet:history push p's client got, oldest first
  casts,      \* the mailbox of Konet.ChannelRegistry
  counts,     \* the konet_channels table, 0 for no row
  toEmit,     \* the webhook it is about to emit
  announced,  \* the last such event of each room
  registry,   \* whether it is up
  records,    \* the mailbox of Konet.History
  buffers,    \* the konet_history table, newest first
  stale,      \* rooms whose row is older than the TTL
  history,    \* whether it is up
  disturbed,  \* history variable: rooms about which a cast or an event was lost
  gone,       \* history variable: messages lost with Konet.History, or swept
  late,       \* history variable: late[p], messages too late for p's replay
  crashes     \* crashes so far

channelVars == <<pc, sent, said, heard, replay, late>>
registryVars == <<casts, counts, toEmit, announced, registry, disturbed>>
historyVars == <<records, buffers, stale, history, gone>>
vars == <<channelVars, registryVars, historyVars, crashes>>

Joined(p) == [kind |-> "joined", pid |-> p]
Left(p) == [kind |-> "left", pid |-> p]
Msg(s, n) == [from |-> s, nth |-> n]
MessageRoom(m) == RoomOf[m.from]
Elems(seq) == {seq[i] : i \in 1 .. Len(seq)}

Init ==
  /\ pc = [s \in Sender |-> "new"] /\ sent = [s \in Sender |-> 0] /\ said = {}
  /\ heard = [p \in Pid |-> {}] /\ replay = [p \in Pid |-> <<>>] /\ late = [p \in Pid |-> {}]
  /\ casts = {} /\ counts = [r \in Room |-> 0] /\ toEmit = NoEvent
  /\ announced = [r \in Room |-> "vacated"] /\ registry = "up" /\ disturbed = {}
  /\ records = {} /\ buffers = [r \in Room |-> <<>>] /\ stale = {}
  /\ history = "up" /\ gone = {} /\ crashes = 0

Goto(s, at) == pc' = [pc EXCEPT ![s] = at]

\* A cast to a name nobody owns is lost without an error.
CastToRegistry(c) ==
  /\ casts' = IF registry = "up" THEN casts \union {c} ELSE casts
  /\ disturbed' = IF registry = "up" THEN disturbed ELSE disturbed \union {RoomOf[c.pid]}
  /\ UNCHANGED <<counts, toEmit, announced, registry>>

\* History.record/3
RecordMessage(m) ==
  /\ IF Limit > 0 /\ history = "up"
     THEN records' = records \union {m} /\ UNCHANGED gone
     ELSE gone' = gone \union {m} /\ UNCHANGED records
  /\ UNCHANGED <<buffers, stale, history>>

Subscribed(p) == pc[p] \in {"replay", "joined", "saying"}

\* The fastlane writes a broadcast to the socket of every subscriber.
Deliver(m) ==
  /\ said' = said \union {m}
  /\ heard' = [p \in Pid |-> IF Subscribed(p) /\ RoomOf[p] = MessageRoom(m)
                             THEN heard[p] \union {m} ELSE heard[p]]
  /\ UNCHANGED <<replay, late>>

-----------------------------------------------------------------------------
(* The channel process *)

\* A join that is refused comes to terminate/2 without a room_id.
MutRefuse(p) ==                             \* mutant: it is counted out all the same
  /\ pc[p] = "new"
  /\ Goto(p, "refused")
  /\ CastToRegistry(Left(p))
  /\ UNCHANGED <<sent, said, heard, replay, late, historyVars, crashes>>

Refuse(p) ==
  /\ pc[p] = "new"
  /\ Goto(p, "refused")
  /\ UNCHANGED <<sent, said, heard, replay, late, registryVars, historyVars, crashes>>

\* Everything was granted: the registry is told.
Join(p) ==
  /\ pc[p] = "new"
  /\ Goto(p, "joining")
  /\ CastToRegistry(Joined(p))
  /\ UNCHANGED <<sent, said, heard, replay, late, historyVars, crashes>>

\* The member_joined webhook is emitted and join/3 returns: Phoenix subscribes
\* the process to its topic before it handles :after_join.
Subscribe(p) ==
  /\ pc[p] = "joining"
  /\ Goto(p, "replay")
  /\ UNCHANGED <<sent, said, heard, replay, late, registryVars, historyVars, crashes>>

\* :after_join, once the presence is tracked.
Replay(p) ==
  LET r == RoomOf[p] IN
  /\ pc[p] = "replay"
  /\ Goto(p, "joined")
  /\ replay' = [replay EXCEPT ![p] =
       [i \in 1 .. Len(buffers[r]) |-> buffers[r][Len(buffers[r]) + 1 - i]]]
  /\ late' = [late EXCEPT ![p] =
       {m \in said : m \in records \/ (m.from \in Api /\ pc[m.from] = "saying")}]
  /\ UNCHANGED <<sent, said, heard, registryVars, historyVars, crashes>>

\* handle_in "broadcast", within the rate: History is told first.
MutRecord(p) ==                             \* mutant: it is told by nobody
  /\ pc[p] = "joined" /\ sent[p] < Sends[p]
  /\ Goto(p, "saying")
  /\ sent' = [sent EXCEPT ![p] = @ + 1]
  /\ UNCHANGED <<said, heard, replay, late, registryVars, historyVars, crashes>>

Record(p) ==
  /\ pc[p] = "joined" /\ sent[p] < Sends[p]
  /\ Goto(p, "saying")
  /\ sent' = [sent EXCEPT ![p] = @ + 1]
  /\ RecordMessage(Msg(p, sent[p] + 1))
  /\ UNCHANGED <<said, heard, replay, late, registryVars, crashes>>

Say(p) ==
  /\ pc[p] = "saying"
  /\ Goto(p, "joined")
  /\ Deliver(Msg(p, sent[p]))
  /\ UNCHANGED <<sent, registryVars, historyVars, crashes>>

\* What its client knows of the room goes with the process.
Forget(p) ==
  /\ Goto(p, "dead")
  /\ heard' = [heard EXCEPT ![p] = {}]
  /\ replay' = [replay EXCEPT ![p] = <<>>]
  /\ late' = [late EXCEPT ![p] = {}]

\* terminate/2: the client leaves, its socket closes, or a handler raises.  The
\* registry is told, the member_left webhook emitted, and the process is gone.
Terminate(p) ==
  /\ pc[p] \in {"replay", "joined", "saying"}
  /\ Forget(p)
  /\ CastToRegistry(Left(p))
  /\ UNCHANGED <<sent, said, historyVars, crashes>>

\* Gone before terminate/2 has counted it out: join/3 raises, when it has not
\* assigned the room_id yet, or Phoenix closes the channel of a client that
\* joins its topic again with an exit signal.
Kill(p) ==
  /\ p \in Killable
  /\ pc[p] \in {"joining", "replay", "joined", "saying"}
  /\ Forget(p)
  /\ disturbed' = disturbed \union {RoomOf[p]}
  /\ UNCHANGED <<sent, said, casts, counts, toEmit, announced, registry,
                 historyVars, crashes>>

\* POST /api/broadcast and the Studio broadcast first.
ApiSay(a) ==
  /\ pc[a] = "new" /\ sent[a] < Sends[a]
  /\ Goto(a, "saying")
  /\ sent' = [sent EXCEPT ![a] = @ + 1]
  /\ Deliver(Msg(a, sent[a] + 1))
  /\ UNCHANGED <<registryVars, historyVars, crashes>>

ApiRecord(a) ==
  /\ pc[a] = "saying"
  /\ Goto(a, "new")
  /\ RecordMessage(Msg(a, sent[a]))
  /\ UNCHANGED <<sent, said, heard, replay, late, registryVars, crashes>>

-----------------------------------------------------------------------------
(* Konet.ChannelRegistry *)

MutHandleJoined(p) ==                       \* mutant: >= 1 for == 1
  LET r == RoomOf[p] IN
  /\ registry = "up" /\ toEmit = NoEvent /\ Joined(p) \in casts
  /\ casts' = casts \ {Joined(p)}
  /\ counts' = [counts EXCEPT ![r] = @ + 1]
  /\ toEmit' = [room |-> r, is |-> "occupied"]
  /\ UNCHANGED <<announced, registry, disturbed, channelVars, historyVars, crashes>>

HandleJoined(p) ==
  LET r == RoomOf[p] IN
  /\ registry = "up" /\ toEmit = NoEvent /\ Joined(p) \in casts
  /\ casts' = casts \ {Joined(p)}
  /\ counts' = [counts EXCEPT ![r] = @ + 1]
  /\ toEmit' = IF counts[r] = 0 THEN [room |-> r, is |-> "occupied"] ELSE NoEvent
  /\ UNCHANGED <<announced, registry, disturbed, channelVars, historyVars, crashes>>

MutCountOut(n) == IF n <= 1 THEN n ELSE n - 1   \* mutant: the last row is not deleted

\* A room without a row stays without one.
CountOut(n) == IF n = 0 THEN 0 ELSE n - 1

MutVacates(n) == FALSE                      \* mutant: < 1 for <= 1
Vacates(n) == n = 1

HandleLeft(p) ==
  LET r == RoomOf[p] IN
  /\ registry = "up" /\ toEmit = NoEvent /\ Left(p) \in casts /\ Joined(p) \notin casts
  /\ casts' = casts \ {Left(p)}
  /\ counts' = [counts EXCEPT ![r] = CountOut(@)]
  /\ toEmit' = IF Vacates(counts[r]) THEN [room |-> r, is |-> "vacated"] ELSE NoEvent
  /\ UNCHANGED <<announced, registry, disturbed, channelVars, historyVars, crashes>>

Emit ==
  /\ registry = "up" /\ toEmit # NoEvent
  /\ announced' = [announced EXCEPT ![toEmit.room] = toEmit.is]
  /\ toEmit' = NoEvent
  /\ UNCHANGED <<casts, counts, registry, disturbed, channelVars, historyVars, crashes>>

\* Its mailbox is lost, and the event when starting the delivery raised; the
\* table is Konet.Tables' and stays.
RegistryCrash ==
  /\ registry = "up" /\ crashes < MaxCrashes
  /\ registry' = "down" /\ casts' = {} /\ toEmit' = NoEvent
  /\ disturbed' = disturbed \union {RoomOf[c.pid] : c \in casts}
       \union (IF toEmit = NoEvent THEN {} ELSE {toEmit.room})
  /\ crashes' = crashes + 1
  /\ UNCHANGED <<counts, announced, channelVars, historyVars>>


RegistryRestart ==
  /\ registry = "down"
  /\ registry' = "up"
  /\ UNCHANGED <<casts, counts, toEmit, announced, disturbed, channelVars, historyVars, crashes>>

-----------------------------------------------------------------------------
(* Konet.History *)

Take(n, seq) == SubSeq(seq, 1, IF Len(seq) < n THEN Len(seq) ELSE n)

MutPrepend(m, entries) == Take(Limit, Append(entries, m))   \* mutant: added at the other end
Prepend(m, entries) == Take(Limit, <<m>> \o entries)

HandleRecord(m) ==
  LET r == MessageRoom(m) IN
  /\ history = "up" /\ m \in records
  /\ \A o \in records : o.from = m.from => o.nth >= m.nth
  /\ records' = records \ {m}
  /\ buffers' = [buffers EXCEPT ![r] = Prepend(m, @)]
  /\ stale' = stale \ {r}
  /\ UNCHANGED <<history, gone, channelVars, registryVars, crashes>>

\* What its process has written so far of a room's messages.
Handled(r) ==
  {m \in Message : /\ MessageRoom(m) = r /\ m.nth <= sent[m.from] /\ m \notin records
                    /\ m.from \in Api /\ m.nth = sent[m.from] => pc[m.from] # "saying"}

\* Time passes.
Age(r) ==
  /\ buffers[r] # <<>>
  /\ stale' = stale \union {r}
  /\ UNCHANGED <<records, buffers, history, gone, channelVars, registryVars, crashes>>

Sweep ==
  /\ history = "up"
  /\ buffers' = [r \in Room |-> IF r \in stale THEN <<>> ELSE buffers[r]]
  /\ gone' = gone \union UNION {Handled(r) : r \in stale}
  /\ stale' = {}
  /\ UNCHANGED <<records, history, channelVars, registryVars, crashes>>

HistoryCrash ==
  /\ history = "up" /\ crashes < MaxCrashes
  /\ history' = "down"
  /\ records' = {} /\ gone' = gone \union records
  /\ crashes' = crashes + 1
  /\ UNCHANGED <<buffers, stale, channelVars, registryVars>>

HistoryRestart ==
  /\ history = "down"
  /\ history' = "up"
  /\ UNCHANGED <<records, buffers, stale, gone, channelVars, registryVars, crashes>>

-----------------------------------------------------------------------------
Registry == Emit \/ RegistryRestart \/ \E p \in Pid : HandleJoined(p) \/ HandleLeft(p)

History == Sweep \/ HistoryRestart \/ \E m \in records : HandleRecord(m)

Member(p) ==
  \/ Refuse(p) \/ Join(p) \/ Subscribe(p) \/ Replay(p) \/ Record(p) \/ Say(p)
  \/ Terminate(p) \/ Kill(p)

Next ==
  \/ Registry \/ History \/ RegistryCrash \/ HistoryCrash
  \/ \E r \in Room : Age(r)
  \/ \E p \in Pid : Member(p)
  \/ \E a \in Api : ApiSay(a) \/ ApiRecord(a)

Spec == Init /\ [][Next]_vars

\* The registry handles what it is sent, and its supervisor restarts it.
FairSpec == Spec /\ WF_vars(Registry)

-----------------------------------------------------------------------------
TypeOK ==
  /\ pc \in [Sender -> {"new", "refused", "joining", "replay", "joined", "saying", "dead"}]
  /\ sent \in [Sender -> Nat] /\ said \subseteq Message
  /\ \A s \in Sender : sent[s] <= Sends[s] /\ (pc[s] = "saying" => sent[s] > 0)
  /\ heard \in [Pid -> SUBSET Message] /\ replay \in [Pid -> Seq(Message)]
  /\ late \in [Pid -> SUBSET Message]
  /\ casts \subseteq [kind : {"joined", "left"}, pid : Pid]
  /\ counts \in [Room -> Nat] /\ toEmit \in RoomEvent \union {NoEvent}
  /\ announced \in [Room -> {"occupied", "vacated"}] /\ registry \in {"up", "down"}
  /\ records \subseteq Message /\ buffers \in [Room -> Seq(Message)]
  /\ stale \subseteq Room /\ history \in {"up", "down"}
  /\ disturbed \subseteq Room /\ gone \subseteq Message /\ crashes \in 0 .. MaxCrashes

\* Members that have been counted in and not yet out.
Counted(p) ==
  /\ pc[p] \notin {"new", "refused"} /\ Joined(p) \notin casts
  /\ pc[p] = "dead" => Left(p) \in casts

CountedIn(r) == {p \in Pid : RoomOf[p] = r /\ Counted(p)}

\* The count of a room is the number of its members, give or take the casts in
\* the mailbox, and a crash of the registry does not change that as long as no
\* cast about the room was lost (tables.ex 8).
CountsRight == \A r \in Room \ disturbed : counts[r] = Cardinality(CountedIn(r))

\* The backend is told of every change between empty and occupied, once, and in
\* order: what it was told last is what the table says, but for the event that
\* is just being sent (webhooks.ex 8).
BackendKnowsOccupied ==
  \A r \in Room \ disturbed :
    announced[r] = IF (counts[r] > 0) = (toEmit = NoEvent \/ toEmit.room # r)
                   THEN "occupied" ELSE "vacated"

\* To a backend that sees the events only, a room is one of Occupancy: however
\* joins and leaves overtake each other, no change between empty and occupied
\* is skipped over, told late or told out of order (webhooks.ex 8-9).
Inside(r) == IF r \in disturbed THEN {} ELSE CountedIn(r)
Reported(r) == IF r \in disturbed THEN "vacated" ELSE announced[r]
Backend == INSTANCE Occupancy WITH
  inside <- [r \in Room |-> Inside(r)], told <- [r \in Room |-> Reported(r)], lost <- disturbed
OccupancySafe == Backend!Spec

\* A room everybody has left is in the end reported as vacated.
EmptyRoomVacated ==
  \A r \in Room :
    (\A p \in Pid : RoomOf[p] = r => pc[p] = "dead")
      ~> (announced[r] = "vacated" \/ r \in disturbed)

\* Between what it is replayed and what it hears, a member that has joined
\* misses no message of its room, unless Konet.History lost or swept it or was
\* still to hear of it, or newer ones filled the buffer (history.ex 3).
NoGap ==
  \A p \in Pid : pc[p] = "joined" =>
    \A m \in said : RoomOf[p] = MessageRoom(m) =>
      \/ m \in heard[p] \union Elems(replay[p]) \union gone \union late[p]
      \/ /\ Len(replay[p]) = Limit
         /\ \A o \in Elems(replay[p]) : o.from = m.from => o.nth > m.nth

\* A replay has the messages of one sender in the order they were sent, each
\* once (history.ex 49).
ReplayInOrder ==
  \A p \in Pid : \A i, j \in 1 .. Len(replay[p]) :
    i < j /\ replay[p][i].from = replay[p][j].from => replay[p][i].nth < replay[p][j].nth
=============================================================================
