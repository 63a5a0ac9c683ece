------------------------------- MODULE JsClient -------------------------------
(***************************************************************************)
(* The JavaScript SDK: KonetClient (client.ts), one Channel per topic      *)
(* (channel.ts), and what they need of the browser and of the server.      *)
(*                                                                          *)
(* JavaScript runs one callback at a time, so an action is a whole callback *)
(* or a whole call of the application, with everything it calls.  Sockets   *)
(* are numbered in the order they are made; every join takes a fresh ref.   *)
(* A socket carries the frames of each topic in order, both ways.  Phoenix  *)
(* is external: a join of a topic that is joined already replaces the old   *)
(* channel, and the phx_close of the old one follows the reply to the new.  *)
(***************************************************************************)
EXTENDS Naturals, Sequences

CONSTANTS
  Topic,                 \* the channels of the application
  MaxReconnectAttempts,  \* opts.maxReconnectAttempts
  MaxSockets,            \* bound: sockets made in a behaviour
  MaxUpsets,             \* bound: lost sockets, false alarms, crashed channels, disconnect()
  MaxCalls               \* bound: calls of subscribe(), unsubscribe() and send()

ASSUME ConstAssumption ==
  /\ MaxReconnectAttempts \in Nat /\ MaxSockets \in Nat /\ MaxUpsets \in Nat
  /\ MaxCalls \in Nat

Socket == 1 .. MaxSockets
None == 0                \* null, for a socket and for a ref

VARIABLES
  state,         \* KonetClient.state; "closing" never outlives disconnect()
  ws,            \* this.ws
  reconnecting,  \* reconnectTimer is set
  attempts,      \* reconnectAttempts
  beating,       \* heartbeatTimer is set
  strays,        \* an interval that heartbeatTimer no longer names is running
  probe,         \* pendingHeartbeatRef: the socket it was sent on
  deadline,      \* heartbeatDeadline is set
  closedByUser,
  status,        \* what onStatus() handlers were told last
  chan,          \* the Channel of each topic
  buffer,        \* sendBuffer, by topic
  lastRef,       \* refCounter, of joins
  opened,        \* sockets made so far
  link,          \* each socket as the browser sees it
  up, down,      \* frames under way to and from the server, by socket and topic
  joins,         \* the join the server holds, by socket and topic
  leaving,       \* those that are being left
  accepted,      \* history: <<socket, join>> pairs the server accepted
  doubled,       \* history: connect() was called while a reconnection was pending
  upsets, calls

timerVars == <<reconnecting, attempts, beating, strays, probe, deadline>>
clientVars == <<state, ws, timerVars, closedByUser, status>>
channelVars == <<chan, buffer, lastRef>>
serverVars == <<joins, leaving, accepted>>
netVars == <<opened, link, up, down>>
vars == <<clientVars, channelVars, netVars, serverVars, doubled, upsets, calls>>

\* Frames: a reply carries the ref of its join, the others their join_ref.
Frame(kind, ref) == [kind |-> kind, ref |-> ref]
Upward == {"phx_join", "phx_leave", "broadcast"}
Downward == {"ok", "error", "phx_close", "phx_error"}

ChannelState == {"idle", "joining", "joined", "errored"}
NewChannel == [state |-> "idle", joinRef |-> None, wantsJoin |-> FALSE, waiting |-> FALSE]

Open(s) == s # None /\ link[s] \in {"open", "silent"}     \* readyState === OPEN
IsOpen == Open(ws)

Init ==
  /\ state = "disconnected" /\ ws = None /\ closedByUser = FALSE /\ status = "none"
  /\ reconnecting = FALSE /\ attempts = 0
  /\ beating = FALSE /\ strays = FALSE /\ probe = None /\ deadline = FALSE
  /\ chan = [t \in Topic |-> NewChannel] /\ buffer = [t \in Topic |-> <<>>] /\ lastRef = 0
  /\ opened = 0 /\ link = [s \in Socket |-> "none"]
  /\ up = [s \in Socket |-> [t \in Topic |-> <<>>]] /\ down = up
  /\ joins = [s \in Socket |-> [t \in Topic |-> None]] /\ leaving = {} /\ accepted = {}
  /\ doubled = FALSE /\ upsets = 0 /\ calls = 0

Upset == upsets < MaxUpsets /\ upsets' = upsets + 1
Call == calls < MaxCalls /\ calls' = calls + 1

-----------------------------------------------------------------------------
(* Timers, channels and sockets, as several methods treat them *)

\* clearTimers(), but for the reconnect timer.  An interval whose handle was
\* overwritten runs on.
ClearTimers == beating' = FALSE /\ probe' = None /\ deadline' = FALSE /\ UNCHANGED strays

Exhausted(n) == n >= MaxReconnectAttempts

MutToldAfter(n) == IF Exhausted(n) THEN status ELSE "reconnecting"   \* mutant: gives up silently
ToldAfter(n) == IF Exhausted(n) THEN "failed" ELSE "reconnecting"

ScheduleReconnect(n) ==
  /\ attempts' = IF Exhausted(n) THEN n ELSE n + 1
  /\ reconnecting' = ~Exhausted(n)
  /\ status' = ToldAfter(n)

MutClosedChannel(c) == [c EXCEPT !.joinRef = None]     \* mutant: state is left alone
ClosedChannel(c) ==
  [c EXCEPT !.state = IF @ \in {"joined", "joining"} THEN "idle" ELSE @, !.joinRef = None]

CloseChannels == chan' = [t \in Topic |-> ClosedChannel(chan[t])] /\ UNCHANGED lastRef

MutClearBuffer == UNCHANGED buffer                     \* mutant: sent on the next socket
ClearBuffer == buffer' = [t \in Topic |-> <<>>]

OpenSocket ==
  /\ opened < MaxSockets
  /\ opened' = opened + 1 /\ ws' = opened + 1
  /\ link' = [link EXCEPT ![opened + 1] = "opening"]
  /\ state' = "connecting" /\ status' = "connecting"
  /\ UNCHANGED <<up, down, serverVars>>

\* A socket ends: nothing under way on it arrives, and the server drops its joins.
End(s, how) ==
  /\ link' = [link EXCEPT ![s] = how]
  /\ up' = [up EXCEPT ![s] = [t \in Topic |-> <<>>]]
  /\ down' = [down EXCEPT ![s] = [t \in Topic |-> <<>>]]
  /\ joins' = [joins EXCEPT ![s] = [t \in Topic |-> None]]
  /\ leaving' = {l \in leaving : l[1] # s}
  /\ UNCHANGED <<opened, accepted>>

\* Frames written to a socket that only looks open go nowhere.
Write(s, t, f) == up' = IF link[s] = "open" THEN [up EXCEPT ![s][t] = Append(@, f)] ELSE up

-----------------------------------------------------------------------------
(* connect(), disconnect(), checkConnection() and the timers *)

Connect ==
  /\ state = "disconnected"
  /\ closedByUser' = FALSE /\ attempts' = 0 /\ doubled' = (doubled \/ reconnecting)
  /\ OpenSocket
  /\ UNCHANGED <<reconnecting, beating, strays, probe, deadline, channelVars, upsets, calls>>

Disconnect ==
  /\ Upset
  /\ status' = IF state # "disconnected" \/ reconnecting THEN "disconnected" ELSE status
  /\ closedByUser' = TRUE /\ state' = "disconnected" /\ ws' = None
  /\ reconnecting' = FALSE /\ ClearTimers /\ UNCHANGED attempts
  /\ ClearBuffer /\ CloseChannels
  /\ IF ws = None THEN UNCHANGED <<netVars, serverVars>> ELSE End(ws, "closed")
  /\ UNCHANGED <<doubled, calls>>

ReconnectTimer ==
  /\ reconnecting /\ reconnecting' = FALSE
  /\ OpenSocket
  /\ UNCHANGED <<attempts, beating, strays, probe, deadline, closedByUser, channelVars, doubled, upsets, calls>>

\* A heartbeat is sent, unless one is under way.
MutArm == UNCHANGED deadline                           \* mutant: nobody waits for the reply
Arm == deadline' = TRUE

SendHeartbeat ==
  /\ IsOpen /\ probe = None
  /\ probe' = ws /\ Arm
  /\ UNCHANGED <<state, ws, reconnecting, attempts, beating, strays, closedByUser, status,
                 channelVars, netVars, serverVars, doubled, upsets, calls>>

\* It counts as an upset where the server would still have answered.
ForceReconnect ==
  /\ ws' = None /\ state' = "disconnected"
  /\ ClearTimers /\ ClearBuffer /\ CloseChannels
  /\ ScheduleReconnect(0)
  /\ IF link[ws] = "open" THEN Upset ELSE UNCHANGED upsets
  /\ End(ws, "closed")
  /\ UNCHANGED <<closedByUser, doubled, calls>>

HeartbeatTick == (beating \/ strays) /\ SendHeartbeat

\* Also what a tick of the interval does that comes much too late.
CheckConnection ==
  /\ ~closedByUser
  /\ \/ /\ state = "disconnected" /\ ~reconnecting
        /\ attempts' = 0 /\ OpenSocket
        /\ UNCHANGED <<reconnecting, beating, strays, probe, deadline, closedByUser, channelVars, doubled, upsets, calls>>
     \/ state = "connected" /\ (~IsOpen \/ probe # None) /\ ForceReconnect
     \/ state = "connected" /\ SendHeartbeat

HeartbeatDeadline ==
  /\ deadline
  /\ \/ probe # None /\ ForceReconnect
     \/ /\ probe = None /\ deadline' = FALSE
        /\ UNCHANGED <<state, ws, reconnecting, attempts, beating, strays, probe, closedByUser, status,
                       channelVars, netVars, serverVars, doubled, upsets, calls>>

\* handleFrame: the reply to the heartbeat under way.
HeartbeatReply ==
  /\ probe # None /\ link[probe] = "open"
  /\ probe' = None /\ deadline' = FALSE
  /\ UNCHANGED <<state, ws, reconnecting, attempts, beating, strays, closedByUser, status,
                 channelVars, netVars, serverVars, doubled, upsets, calls>>

-----------------------------------------------------------------------------
(* The callbacks of a socket *)

MutRejoins(c) == c.wantsJoin /\ c.state = "idle"       \* mutant: a refused channel stays out
Rejoins(c) == c.wantsJoin /\ c.state \notin {"joined", "joining"}

\* sendJoin().  Refs are only compared within a topic, so the joins of one
\* callback may share a number.
Joining(c) == [c EXCEPT !.state = "joining", !.joinRef = lastRef + 1]
JoinFrame == Frame("phx_join", lastRef + 1)

\* Joins go out before what was buffered.
OnOpen(s) ==
  /\ link[s] = "opening" /\ link' = [link EXCEPT ![s] = "open"]
  /\ \/ /\ ws = s
        /\ state' = "connected" /\ status' = "connected" /\ attempts' = 0 /\ probe' = None
        /\ chan' = [t \in Topic |-> IF Rejoins(chan[t]) THEN Joining(chan[t]) ELSE chan[t]]
        /\ up' = [up EXCEPT ![s] = [t \in Topic |->
                    (IF Rejoins(chan[t]) THEN <<JoinFrame>> ELSE <<>>) \o buffer[t]]]
        /\ lastRef' = lastRef + 1
        /\ strays' = (strays \/ beating) /\ beating' = TRUE
        /\ buffer' = [t \in Topic |-> <<>>]
     \/ /\ ws # s
        /\ UNCHANGED <<state, status, attempts, probe, beating, strays, channelVars, up>>
  /\ UNCHANGED <<ws, reconnecting, deadline, closedByUser, opened, down, serverVars, doubled, upsets, calls>>

OnClose(s) ==
  /\ link[s] = "lost" /\ link' = [link EXCEPT ![s] = "closed"]
  /\ \/ /\ ws = s
        /\ ws' = None /\ state' = "disconnected"
        /\ ClearTimers /\ CloseChannels /\ ClearBuffer
        /\ IF closedByUser THEN reconnecting' = FALSE /\ UNCHANGED <<attempts, status>>
           ELSE ScheduleReconnect(attempts)
     \/ /\ ws # s
        /\ UNCHANGED <<state, ws, timerVars, status, channelVars>>
  /\ UNCHANGED <<closedByUser, opened, up, down, serverVars, doubled, upsets, calls>>

\* The reply to a join, unless another join or a closed socket superseded it.
JoinReplied(c, f) ==
  IF c.joinRef # f.ref THEN c
  ELSE [c EXCEPT !.state = IF f.kind = "ok" THEN "joined" ELSE "errored", !.waiting = FALSE]

\* Channel._receive: phx_close and phx_error are not compared with joinRef.
Received(c, f) ==
  CASE f.kind \in {"ok", "error"} -> JoinReplied(c, f)
    [] f.kind = "phx_close" -> [c EXCEPT !.state = "idle"]
    [] f.kind = "phx_error" -> [c EXCEPT !.state = "errored"]

OnMessage(s, t) ==
  /\ link[s] = "open" /\ down[s][t] # <<>>
  /\ chan' = [chan EXCEPT ![t] = Received(@, Head(down[s][t]))]
  /\ down' = [down EXCEPT ![s][t] = Tail(@)]
  /\ UNCHANGED <<clientVars, buffer, lastRef, opened, link, up, serverVars, doubled, upsets, calls>>

-----------------------------------------------------------------------------
(* What the application does with a channel *)

Subscribe(t) ==
  /\ Call
  /\ LET c == [chan[t] EXCEPT !.wantsJoin = TRUE, !.waiting = @ \/ chan[t].state # "joined"] IN
     \/ /\ IsOpen /\ c.state \notin {"joined", "joining"}
        /\ chan' = [chan EXCEPT ![t] = Joining(c)] /\ lastRef' = lastRef + 1
        /\ Write(ws, t, JoinFrame)
     \/ /\ ~IsOpen \/ c.state \in {"joined", "joining"}
        /\ chan' = [chan EXCEPT ![t] = c]
        /\ UNCHANGED <<lastRef, up>>
  /\ UNCHANGED <<clientVars, buffer, opened, link, down, serverVars, doubled, upsets>>

\* A join under way is forgotten, not left.
Unsubscribe(t) ==
  /\ Call
  /\ \/ chan[t].state = "joined" /\ IsOpen /\ Write(ws, t, Frame("phx_leave", chan[t].joinRef))
     \/ (chan[t].state # "joined" \/ ~IsOpen) /\ UNCHANGED up
  /\ chan' = [chan EXCEPT ![t] = NewChannel]
  /\ UNCHANGED <<clientVars, buffer, lastRef, opened, link, down, serverVars, doubled, upsets>>

\* send() on a socket that is not open is buffered.  The replies to sends change
\* none of this state.
Send(t) ==
  /\ Call /\ chan[t].state = "joined"
  /\ LET f == Frame("broadcast", chan[t].joinRef) IN
     \/ IsOpen /\ Write(ws, t, f) /\ UNCHANGED buffer
     \/ ~IsOpen /\ buffer' = [buffer EXCEPT ![t] = Append(@, f)] /\ UNCHANGED up
  /\ UNCHANGED <<clientVars, chan, lastRef, opened, link, down, serverVars, doubled, upsets>>

-----------------------------------------------------------------------------
(* The network and the server *)

\* A connection is refused, or breaks, and the browser notices; or it does not.
Lose(s) == link[s] \in {"opening", "open", "silent"} /\ End(s, "lost")
FallSilent(s) == link[s] = "open" /\ End(s, "silent")

Break(s) ==
  /\ Upset /\ (Lose(s) \/ FallSilent(s))
  /\ UNCHANGED <<clientVars, channelVars, doubled, calls>>

Take(s, t, kind) ==
  /\ up[s][t] # <<>> /\ Head(up[s][t]).kind = kind
  /\ up' = [up EXCEPT ![s][t] = Tail(@)]

\* Phoenix answers the new join before it closes the old one.
TakeJoin(s, t) ==
  /\ Take(s, t, "phx_join")
  /\ LET ref == Head(up[s][t]).ref
         old == joins[s][t]
         closes == IF old = None THEN <<>> ELSE <<Frame("phx_close", old)>>
     IN
     \/ /\ joins' = [joins EXCEPT ![s][t] = ref]
        /\ accepted' = accepted \union {<<s, t, ref>>}
        /\ down' = [down EXCEPT ![s][t] = @ \o <<Frame("ok", ref)>> \o closes]
     \/ /\ joins' = [joins EXCEPT ![s][t] = None]
        /\ down' = [down EXCEPT ![s][t] = @ \o <<Frame("error", ref)>> \o closes]
        /\ UNCHANGED accepted
  /\ leaving' = leaving \ {<<s, t>>}

TakeLeave(s, t) ==
  /\ Take(s, t, "phx_leave")
  /\ leaving' = IF joins[s][t] = Head(up[s][t]).ref THEN leaving \union {<<s, t>>} ELSE leaving
  /\ UNCHANGED <<joins, accepted, down>>

TakeBroadcast(s, t) == Take(s, t, "broadcast") /\ UNCHANGED <<joins, leaving, accepted, down>>

CloseLeft(s, t) ==
  /\ <<s, t>> \in leaving
  /\ down' = [down EXCEPT ![s][t] = Append(@, Frame("phx_close", joins[s][t]))]
  /\ joins' = [joins EXCEPT ![s][t] = None]
  /\ leaving' = leaving \ {<<s, t>>}
  /\ UNCHANGED <<up, accepted>>

Serve(s, t) ==
  /\ TakeJoin(s, t) \/ TakeLeave(s, t) \/ TakeBroadcast(s, t) \/ CloseLeft(s, t)
  /\ UNCHANGED <<clientVars, channelVars, opened, link, doubled, upsets, calls>>

ChannelCrash(s, t) ==
  /\ Upset /\ joins[s][t] # None
  /\ down' = [down EXCEPT ![s][t] = Append(@, Frame("phx_error", joins[s][t]))]
  /\ joins' = [joins EXCEPT ![s][t] = None]
  /\ leaving' = leaving \ {<<s, t>>}
  /\ UNCHANGED <<clientVars, channelVars, opened, link, up, accepted, doubled, calls>>
-----------------------------------------------------------------------------
Timers == ReconnectTimer \/ HeartbeatTick \/ HeartbeatDeadline

Next ==
  \/ Connect \/ Disconnect \/ CheckConnection \/ Timers \/ HeartbeatReply
  \/ \E s \in Socket :
       \/ OnOpen(s) \/ OnClose(s) \/ Break(s)
       \/ \E t \in Topic : OnMessage(s, t) \/ Serve(s, t) \/ ChannelCrash(s, t)
  \/ \E t \in Topic : Subscribe(t) \/ Unsubscribe(t) \/ Send(t)

Spec == Init /\ [][Next]_vars

\* Timers fire, a socket that is being made opens or fails, a lost one reports
\* it, frames arrive and are served.  Nothing makes the application do anything.
Fairness ==
  /\ WF_vars(ReconnectTimer) /\ WF_vars(HeartbeatTick) /\ WF_vars(HeartbeatDeadline)
  /\ WF_vars(HeartbeatReply)
  /\ \A s \in Socket :
       /\ WF_vars(OnOpen(s)) /\ WF_vars(OnClose(s))
       /\ \A t \in Topic : WF_vars(OnMessage(s, t)) /\ WF_vars(Serve(s, t))

FairSpec == Spec /\ Fairness

-----------------------------------------------------------------------------
FrameSeq(kinds) == Seq([kind : kinds, ref : Nat])

TypeOK ==
  /\ state \in {"disconnected", "connecting", "connected"}
  /\ ws \in Socket \union {None} /\ probe \in Socket \union {None}
  /\ attempts \in 0 .. MaxReconnectAttempts
  /\ {reconnecting, beating, strays, deadline, closedByUser, doubled} \subseteq BOOLEAN
  /\ status \in {"none", "connecting", "connected", "reconnecting", "disconnected", "failed"}
  /\ chan \in [Topic -> [state : ChannelState, joinRef : Nat, wantsJoin : BOOLEAN, waiting : BOOLEAN]]
  /\ buffer \in [Topic -> FrameSeq(Upward)] /\ lastRef \in Nat
  /\ opened \in 0 .. MaxSockets
  /\ link \in [Socket -> {"none", "opening", "open", "silent", "lost", "closed"}]
  /\ up \in [Socket -> [Topic -> FrameSeq(Upward)]]
  /\ down \in [Socket -> [Topic -> FrameSeq(Downward)]]
  /\ joins \in [Socket -> [Topic -> Nat]] /\ leaving \subseteq Socket \X Topic
  /\ accepted \subseteq Socket \X Topic \X Nat
  /\ upsets \in 0 .. MaxUpsets /\ calls \in 0 .. MaxCalls

\* What the application was told last is what the client is doing; when nothing
\* is under way and nothing is going to be, it was told so (client.ts 18-27, 403).
StatusTrue ==
  /\ status = "connecting" <=> state = "connecting"
  /\ status = "connected" <=> state = "connected"
  /\ status = "reconnecting" <=> state = "disconnected" /\ reconnecting
  /\ status = "disconnected" => closedByUser

\* A channel counts as joined only while the server holds that very join on the
\* present socket, unless the word that it ended is on its way: the client never
\* looks connected while the server knows nothing of its topics (client.ts 222).
NoDeadTopic ==
  \A t \in Topic : chan[t].state = "joined" /\ state = "connected" /\ link[ws] = "open" =>
    \/ joins[ws][t] = chan[t].joinRef /\ joins[ws][t] # None
    \/ \E i \in DOMAIN down[ws][t] :
         down[ws][t][i] \in {Frame("phx_close", chan[t].joinRef), Frame("phx_error", chan[t].joinRef)}

\* So it is, as long as the application leaves a reconnection that is pending
\* alone (client.ts 81, 413).
JoinedIsKnown == ~doubled => NoDeadTopic

\* Until then a message never reaches the server on a socket where the join it
\* was sent under was not accepted either (client.ts 224, 252).
SendsLand ==
  [][\A s \in Socket, t \in Topic :
       TakeBroadcast(s, t) => doubled \/ <<s, t, Head(up[s][t]).ref>> \in accepted]_vars

\* A promise of subscribe() is settled, through any number of reconnections,
\* unless the client gives up or is disconnected (channel.ts 158, client.ts 222).
SubscribeSettles ==
  \A t \in Topic :
    chan[t].waiting ~> (~chan[t].waiting \/ (state = "disconnected" /\ ~reconnecting) \/ doubled)

\* A socket that looks open and is dead does not stay (client.ts 372, 380).
DeadSocketReplaced ==
  \A s \in Socket : (ws = s /\ link[s] = "silent") ~> (ws # s)
=============================================================================
