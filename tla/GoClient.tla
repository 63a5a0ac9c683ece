------------------------------- MODULE GoClient -------------------------------
(***************************************************************************)
(* The Go SDK's Client (konet.go): Connect and Disconnect, called by        *)
(* goroutines of the application, and the two loops the first Connect       *)
(* spawns, a read loop that also reconnects and a heartbeat loop.           *)
(*                                                                          *)
(* An action is a critical section of c.mu, a dial, a blocking read that    *)
(* ends, or a select; what a goroutine does in between touches nothing that *)
(* another reads.  The two loops of one Connect share a number, their life. *)
(* Channels are in GoChannel.  The websocket library is external: a read of *)
(* a closed or broken socket fails, and a dead peer shows on neither side.  *)
(***************************************************************************)
EXTENDS Naturals

CONSTANTS
  Caller,             \* goroutines of the application
  MaxReconnectTries,  \* opts.MaxReconnectTries
  MaxLives,           \* bound: times that loops are spawned
  MaxSockets,         \* bound: dials that succeed
  MaxUpsets,          \* bound: sockets that break or fall silent, late heartbeat replies
  MaxCalls            \* bound: calls of Connect and Disconnect

ASSUME ConstAssumption ==
  /\ MaxReconnectTries \in Nat /\ MaxLives \in Nat /\ MaxSockets \in Nat
  /\ MaxUpsets \in Nat /\ MaxCalls \in Nat

Socket == 1 .. MaxSockets
Life == 1 .. MaxLives
None == 0                \* nil, "" and no life

VARIABLES
  conn,       \* c.conn
  started,    \* c.started
  stop,       \* c.stop: the life whose context it cancels
  done,       \* c.done is closed
  pending,    \* c.pendingHeartbeat: the life whose loop made the ref
  cancelled,  \* the lives whose context is cancelled
  caller,     \* where each goroutine of the application is in its call
  reader,     \* where each readLoop is, reconnect() included
  beater,     \* where each heartbeatLoop is
  lives,      \* lives spawned so far
  told,       \* what OnStatus was called with last
  opened,     \* sockets opened so far
  link,       \* each socket: open, silent (the peer is gone unnoticed), lost, closed
  probed,     \* the socket on which the pending probe is with the server
  aimed,      \* history: the socket the pending probe was made for
  doubled,    \* history: a socket was put in the place of another
  upsets, calls

appVars == <<caller, calls>>
connVars == <<conn, started, stop>>
probeVars == <<pending, probed, aimed>>
netVars == <<opened, link>>
vars == <<connVars, done, probeVars, cancelled, appVars, reader, beater, lives, told,
          netVars, doubled, upsets>>

Upset == upsets < MaxUpsets /\ upsets' = upsets + 1
Call == calls < MaxCalls /\ calls' = calls + 1

AtCaller == {"idle", "dialing", "adopting", "spawning", "detaching", "closing"}
AtReader == {"none", "top", "picking", "reading", "dropping", "backoff", "dialing",
             "adopting", "announcing", "ended"}
AtBeater == {"none", "waiting", "sending", "closing", "ended"}

Idle == [at |-> "idle", sock |-> None, life |-> None, first |-> FALSE]
NewReader == [at |-> "none", sock |-> None, attempt |-> 0]
NewBeater == [at |-> "none", sock |-> None]

Init ==
  /\ conn = None /\ started = FALSE /\ stop = None /\ done = FALSE
  /\ pending = None /\ probed = None /\ aimed = None /\ cancelled = {}
  /\ caller = [p \in Caller |-> Idle]
  /\ reader = [l \in Life |-> NewReader] /\ beater = [l \in Life |-> NewBeater]
  /\ lives = 0 /\ told = "none"
  /\ opened = 0 /\ link = [s \in Socket |-> "none"]
  /\ doubled = FALSE /\ upsets = 0 /\ calls = 0

Reading(s) == \E l \in Life : reader[l].at = "reading" /\ reader[l].sock = s

\* dial(): the handshake succeeded, on a socket of its own.
Opens ==
  /\ opened < MaxSockets /\ opened' = opened + 1
  /\ link' = [link EXCEPT ![opened + 1] = "open"]

Close(s) == link' = IF s = None THEN link ELSE [link EXCEPT ![s] = "closed"]

Forget == pending' = None /\ probed' = None /\ aimed' = None     \* pendingHeartbeat = ""

-----------------------------------------------------------------------------
(* Connect *)

Connect(p) ==
  /\ Call /\ caller[p].at = "idle"
  /\ caller' = [caller EXCEPT ![p].at = "dialing"]
  /\ told' = "connecting"
  /\ UNCHANGED <<connVars, done, probeVars, cancelled, reader, beater, lives, netVars, doubled, upsets>>

Dial(p) ==
  /\ caller[p].at = "dialing"
  /\ \/ /\ Opens /\ told' = "connected"
        /\ caller' = [caller EXCEPT ![p].at = "adopting", ![p].sock = opened + 1]
     \/ caller' = [caller EXCEPT ![p] = Idle] /\ UNCHANGED <<netVars, told>>
  /\ UNCHANGED <<connVars, done, probeVars, cancelled, reader, beater, lives, doubled, upsets, calls>>

MutSpawns == TRUE                       \* mutant: every Connect spawns loops
Spawns == ~started

Adopt(p) ==
  /\ caller[p].at = "adopting"
  /\ conn' = caller[p].sock /\ started' = TRUE /\ Forget
  /\ doubled' = (doubled \/ conn # None)
  /\ caller' = [caller EXCEPT ![p] = IF Spawns THEN [Idle EXCEPT !.at = "spawning"] ELSE Idle]
  /\ UNCHANGED <<stop, done, cancelled, reader, beater, lives, told, netVars, upsets, calls>>

Spawn(p) ==
  /\ caller[p].at = "spawning" /\ lives < MaxLives
  /\ lives' = lives + 1 /\ stop' = lives + 1
  /\ reader' = [reader EXCEPT ![lives + 1].at = "top"]
  /\ beater' = [beater EXCEPT ![lives + 1].at = "waiting"]
  /\ caller' = [caller EXCEPT ![p] = Idle]
  /\ UNCHANGED <<conn, started, done, probeVars, cancelled, told, netVars, doubled, upsets, calls>>

-----------------------------------------------------------------------------
(* Disconnect *)

Disconnect(p) ==
  /\ Call /\ caller[p].at = "idle"
  /\ done' = TRUE
  /\ caller' = [caller EXCEPT ![p] = [Idle EXCEPT !.at = "detaching", !.first = ~done]]
  /\ UNCHANGED <<connVars, probeVars, cancelled, reader, beater, lives, told, netVars, doubled, upsets>>

Detach(p) ==
  /\ caller[p].at = "detaching"
  /\ caller' = [caller EXCEPT ![p].at = "closing", ![p].sock = conn, ![p].life = stop]
  /\ conn' = None /\ started' = FALSE /\ stop' = None
  /\ UNCHANGED <<done, probeVars, cancelled, reader, beater, lives, told, netVars, doubled, upsets, calls>>

Shut(p) ==
  /\ caller[p].at = "closing"
  /\ cancelled' = cancelled \union ({caller[p].life} \ {None})
  /\ Close(caller[p].sock)
  /\ told' = IF caller[p].first THEN "disconnected" ELSE told
  /\ caller' = [caller EXCEPT ![p] = Idle]
  /\ UNCHANGED <<connVars, done, probeVars, reader, beater, lives, opened, doubled, upsets, calls>>

-----------------------------------------------------------------------------
(* The read loop and its reconnections *)

At(l, place) == reader' = [reader EXCEPT ![l].at = place]

Top(l) ==
  /\ reader[l].at = "top"
  /\ At(l, IF done THEN "ended" ELSE "picking")
  /\ UNCHANGED <<connVars, done, probeVars, cancelled, appVars, beater, lives, told, netVars, doubled, upsets>>

Pick(l) ==
  /\ reader[l].at = "picking"
  /\ reader' = [reader EXCEPT ![l].at = IF conn = None THEN "dropping" ELSE "reading", ![l].sock = conn]
  /\ UNCHANGED <<connVars, done, probeVars, cancelled, appVars, beater, lives, told, netVars, doubled, upsets>>

\* Read returns an error; a cancelled context closes its socket.
ReadFails(l) ==
  /\ reader[l].at = "reading"
  /\ link[reader[l].sock] \in {"lost", "closed"} \/ l \in cancelled
  /\ At(l, IF done THEN "ended" ELSE "dropping")
  /\ Close(reader[l].sock)
  /\ UNCHANGED <<connVars, done, probeVars, cancelled, appVars, beater, lives, told, opened, doubled, upsets>>

\* handleText: the reply to the pending probe.
HeartbeatReply(l) ==
  /\ reader[l].at = "reading" /\ reader[l].sock = probed /\ link[probed] = "open"
  /\ Forget
  /\ UNCHANGED <<connVars, done, cancelled, appVars, reader, beater, lives, told, netVars, doubled, upsets>>

MutGiveUpTold == "reconnecting"         \* mutant: the loop ends without a word
GiveUpTold == "failed"

Tried(n) == n >= MaxReconnectTries

\* The head of reconnect()'s loop, before attempt n.
Attempt(l, n) ==
  /\ reader' = [reader EXCEPT ![l] =
       [at |-> IF Tried(n) THEN "ended" ELSE "backoff", sock |-> None, attempt |-> n]]
  /\ told' = IF Tried(n) THEN GiveUpTold ELSE "reconnecting"

MutForgetOnDrop == UNCHANGED probeVars  \* mutant: the old socket's probe stays pending
ForgetOnDrop == Forget

DropConn(l) ==
  /\ reader[l].at = "dropping"
  /\ conn' = None /\ ForgetOnDrop
  /\ Close(conn)
  /\ Attempt(l, 0)
  /\ UNCHANGED <<started, stop, done, cancelled, appVars, beater, lives, opened, doubled, upsets>>

Backoff(l) ==
  /\ reader[l].at = "backoff"
  /\ \/ (done \/ l \in cancelled) /\ At(l, "ended") /\ UNCHANGED told
     \/ At(l, "dialing") /\ told' = "connecting"
  /\ UNCHANGED <<connVars, done, probeVars, cancelled, appVars, beater, lives, netVars, doubled, upsets>>

Redial(l) ==
  /\ reader[l].at = "dialing"
  /\ \/ /\ l \notin cancelled /\ Opens /\ UNCHANGED told
        /\ reader' = [reader EXCEPT ![l].at = "adopting", ![l].sock = opened + 1]
     \/ Attempt(l, reader[l].attempt + 1) /\ UNCHANGED netVars
  /\ UNCHANGED <<connVars, done, probeVars, cancelled, appVars, beater, lives, doubled, upsets>>

AdoptRedial(l) ==
  /\ reader[l].at = "adopting"
  /\ conn' = reader[l].sock
  /\ doubled' = (doubled \/ conn # None)
  /\ At(l, "announcing")
  /\ UNCHANGED <<started, stop, done, probeVars, cancelled, appVars, beater, lives, told, netVars, upsets>>

\* The rejoin goroutine is GoChannel's.
Announce(l) ==
  /\ reader[l].at = "announcing"
  /\ told' = "connected"
  /\ reader' = [reader EXCEPT ![l] = [NewReader EXCEPT !.at = "top"]]
  /\ UNCHANGED <<connVars, done, probeVars, cancelled, appVars, beater, lives, netVars, doubled, upsets>>

-----------------------------------------------------------------------------
(* The heartbeat loop *)

\* One tick.  It counts as an upset when it comes before a reply that is on its way.
Tick(l) ==
  /\ beater[l].at = "waiting" /\ conn # None
  /\ \/ /\ pending = None
        /\ pending' = l /\ aimed' = conn /\ UNCHANGED <<probed, upsets>>
        /\ beater' = [beater EXCEPT ![l].at = "sending"]
     \/ /\ pending # None
        /\ beater' = [beater EXCEPT ![l].at = "closing", ![l].sock = conn]
        /\ IF link[conn] = "open" /\ Reading(conn) THEN Upset ELSE UNCHANGED upsets
        /\ UNCHANGED probeVars
  /\ UNCHANGED <<connVars, done, cancelled, appVars, reader, lives, told, netVars, doubled>>

\* send(): a write to a broken socket may still succeed, to a silent one always does.
SendProbe(l) ==
  /\ beater[l].at = "sending"
  /\ beater' = [beater EXCEPT ![l].at = "waiting"]
  /\ \/ /\ conn # None /\ link[conn] \in {"open", "silent", "lost"}
        /\ probed' = IF pending = l /\ link[conn] = "open" THEN conn ELSE probed
        /\ UNCHANGED <<pending, aimed>>
     \/ /\ conn \notin {s \in Socket : link[s] \in {"open", "silent"}}
        /\ IF pending = l THEN Forget ELSE UNCHANGED probeVars
  /\ UNCHANGED <<connVars, done, cancelled, appVars, reader, lives, told, netVars, doubled, upsets>>

MutCloseDead(s) == link' = link         \* mutant: only the reference is dropped
CloseDead(s) == Close(s)

Unanswered(l) ==
  /\ beater[l].at = "closing"
  /\ CloseDead(beater[l].sock)
  /\ beater' = [beater EXCEPT ![l] = [NewBeater EXCEPT !.at = "waiting"]]
  /\ UNCHANGED <<connVars, done, probeVars, cancelled, appVars, reader, lives, told, opened, doubled, upsets>>

BeaterEnds(l) ==
  /\ beater[l].at = "waiting" /\ (done \/ l \in cancelled)
  /\ beater' = [beater EXCEPT ![l].at = "ended"]
  /\ UNCHANGED <<connVars, done, probeVars, cancelled, appVars, reader, lives, told, netVars, doubled, upsets>>

-----------------------------------------------------------------------------
\* The network and the server.
Break(s) ==
  /\ Upset
  /\ \/ link[s] = "open" /\ link' = [link EXCEPT ![s] = "silent"]
     \/ link[s] \in {"open", "silent"} /\ link' = [link EXCEPT ![s] = "lost"]
  /\ UNCHANGED <<connVars, done, probeVars, cancelled, appVars, reader, beater, lives, told, opened, doubled>>

ReadLoop(l) ==
  \/ Top(l) \/ Pick(l) \/ ReadFails(l) \/ HeartbeatReply(l) \/ DropConn(l)
  \/ Backoff(l) \/ Redial(l) \/ AdoptRedial(l) \/ Announce(l)

HeartbeatLoop(l) == Tick(l) \/ SendProbe(l) \/ Unanswered(l) \/ BeaterEnds(l)

\* What a call that has begun goes on with.
Return(p) == Dial(p) \/ Adopt(p) \/ Spawn(p) \/ Detach(p) \/ Shut(p)

Next ==
  \/ \E p \in Caller : Connect(p) \/ Disconnect(p) \/ Return(p)
  \/ \E l \in Life : ReadLoop(l) \/ HeartbeatLoop(l)
  \/ \E s \in Socket : Break(s)

Spec == Init /\ [][Next]_vars

\* Goroutines are scheduled, timers fire, dials end, replies arrive.  Nothing
\* makes the application call anything.
Fairness ==
  /\ \A p \in Caller : WF_vars(Return(p))
  /\ \A l \in Life : WF_vars(ReadLoop(l)) /\ WF_vars(HeartbeatReply(l)) /\ WF_vars(HeartbeatLoop(l))

FairSpec == Spec /\ Fairness

-----------------------------------------------------------------------------
TypeOK ==
  /\ conn \in Socket \union {None} /\ stop \in Life \union {None}
  /\ pending \in Life \union {None} /\ {probed, aimed} \subseteq Socket \union {None}
  /\ {started, done, doubled} \subseteq BOOLEAN /\ cancelled \subseteq Life
  /\ caller \in [Caller -> [at : AtCaller, sock : Socket \union {None},
                            life : Life \union {None}, first : BOOLEAN]]
  /\ reader \in [Life -> [at : AtReader, sock : Socket \union {None}, attempt : 0 .. MaxReconnectTries]]
  /\ beater \in [Life -> [at : AtBeater, sock : Socket \union {None}]]
  /\ lives \in 0 .. MaxLives
  /\ told \in {"none", "connecting", "connected", "reconnecting", "disconnected", "failed"}
  /\ opened \in 0 .. MaxSockets
  /\ link \in [Socket -> {"none", "open", "silent", "lost", "closed"}]
  /\ upsets \in 0 .. MaxUpsets /\ calls \in 0 .. MaxCalls

\* One read loop and one heartbeat loop live across all reconnections, however
\* Connect and Disconnect interleave: two are never at work unless Disconnect is
\* ending them both (konet.go 28-32, a heartbeat goroutine leaked per attempt).
AtWork(loop) == {l \in Life : loop[l].at \notin {"none", "ended"}}

LoopsOnce ==
  ~done => \A l, k \in AtWork(reader) \union AtWork(beater) : l = k

\* The probe that is pending was made for the socket in use: an unanswered probe
\* never closes a socket it was not sent on (konet.go 438-442, 480-484).  Only a
\* Connect or Disconnect that races the reconnection can break this.
ProbesPresentSocket == pending # None /\ conn # None /\ ~done /\ ~doubled => aimed = conn

\* An application that shows "reconnecting" learns how it ended: connected again,
\* or given up (konet.go 50-53, 528), unless it disconnects.
ReconnectionSettles == told = "reconnecting" ~> (told \in {"connected", "failed"} \/ done)

\* A read loop does not stay on a socket whose peer is gone without a word, as
\* long as no socket took the place of another (konet.go 449-454).
DeadSocketReplaced ==
  \A s \in Socket : (Reading(s) /\ link[s] = "silent") ~> (~Reading(s) \/ doubled)
=============================================================================
