----------------------------- MODULE JsClient_proofs --------------------------
(***************************************************************************)
(* Proofs about JsClient: every variable keeps its type, and the status the  *)
(* application was told is true; then, while the application leaves a        *)
(* pending reconnection alone, a channel that counts as joined is known to   *)
(* the server, and no message reaches a socket its join was not made on.     *)
(***************************************************************************)
EXTENDS JsClient, SequenceTheorems, TLAPS

Chan == [state : ChannelState, joinRef : Nat, wantsJoin : BOOLEAN, waiting : BOOLEAN]
FrameOf(kinds) == [kind : kinds, ref : Nat]
Wire(kinds) == [Socket -> [Topic -> Seq(FrameOf(kinds))]]

\* What keeps the status true: there is a socket exactly while the client is
\* connecting or connected, and a client closed by the user has nothing running.
ClientOK ==
  /\ state = "disconnected" <=> ws = None
  /\ probe # None => ws # None
  /\ closedByUser => ws = None /\ ~reconnecting /\ ~deadline

SInv == TypeOK /\ ClientOK /\ StatusTrue

-----------------------------------------------------------------------------
(* Types of the parts *)

LEMMA SocketFacts == Socket \subseteq Nat /\ None \notin Socket
  BY ConstAssumption DEF Socket, None

LEMMA FrameType == ASSUME NEW K, NEW k \in K, NEW r \in Nat PROVE Frame(k, r) \in FrameOf(K)
  BY DEF Frame, FrameOf

LEMMA ChanType ==
  ASSUME NEW c \in Chan, lastRef \in Nat
  PROVE  /\ ClosedChannel(c) \in Chan /\ Joining(c) \in Chan /\ NewChannel \in Chan
         /\ [c EXCEPT !.wantsJoin = TRUE, !.waiting = @ \/ c.state # "joined"] \in Chan
         /\ \A f \in FrameOf(Downward) : Received(c, f) \in Chan
<1>1. ClosedChannel(c) \in Chan /\ Joining(c) \in Chan /\ NewChannel \in Chan
  <2>1. \A st \in ChannelState, r \in Nat : [c EXCEPT !.state = st, !.joinRef = r] \in Chan
    BY Zenon DEF Chan
  <2>2. c.state \in ChannelState /\ "idle" \in ChannelState /\ "joining" \in ChannelState /\ None \in Nat
    BY DEF Chan, ChannelState, None
  <2>3. PICK st \in ChannelState : ClosedChannel(c) = [c EXCEPT !.state = st, !.joinRef = None]
    <3> HIDE DEF ChannelState, None
    <3>1. CASE c.state \in {"joined", "joining"}
      BY <2>2, <3>1 DEF ClosedChannel
    <3>2. CASE c.state \notin {"joined", "joining"}
      BY <2>2, <3>2 DEF ClosedChannel
    <3> QED
      BY <3>1, <3>2
  <2>4. ClosedChannel(c) \in Chan
    BY <2>1, <2>2, <2>3
  <2>5. lastRef + 1 \in Nat
    OBVIOUS
  <2>6. Joining(c) \in Chan
    BY <2>1, <2>2, <2>5 DEF Joining
  <2>7. NewChannel \in Chan
    BY DEF Chan, ChannelState, NewChannel, None
  <2> QED
    BY <2>4, <2>6, <2>7
<1>2. [c EXCEPT !.wantsJoin = TRUE, !.waiting = @ \/ c.state # "joined"] \in Chan
  <2> HIDE DEF ChannelState
  <2> QED
    BY Zenon DEF Chan
<1>3. ASSUME NEW f \in FrameOf(Downward) PROVE Received(c, f) \in Chan
  <2>1. f.kind \in {"ok", "error", "phx_close", "phx_error"}
    BY DEF FrameOf, Downward
  <2>2. JoinReplied(c, f) \in Chan
    BY DEF Chan, ChannelState, JoinReplied
  <2>3. [c EXCEPT !.state = "idle"] \in Chan /\ [c EXCEPT !.state = "errored"] \in Chan
    BY DEF Chan, ChannelState
  <2> QED
    BY <2>1, <2>2, <2>3 DEF Received
<1> QED
  BY <1>1, <1>2, <1>3

LEMMA WireType ==
  ASSUME NEW K, NEW q \in Wire(K), NEW s \in Socket, NEW t \in Topic,
         NEW v \in Seq(FrameOf(K)), NEW w \in [Topic -> Seq(FrameOf(K))]
  PROVE  /\ [q EXCEPT ![s][t] = v] \in Wire(K)
         /\ [q EXCEPT ![s] = w] \in Wire(K)
  BY DEF Wire

LEMMA EmptyType == ASSUME NEW K PROVE [t \in Topic |-> <<>>] \in [Topic -> Seq(FrameOf(K))]
  OBVIOUS

LEMMA EndType ==
  ASSUME TypeOK, NEW s \in Socket, NEW how \in {"lost", "silent", "closed"}, End(s, how)
  PROVE  /\ opened' \in 0 .. MaxSockets
         /\ link' \in [Socket -> {"none", "opening", "open", "silent", "lost", "closed"}]
         /\ up' \in Wire(Upward) /\ down' \in Wire(Downward)
         /\ joins' \in [Socket -> [Topic -> Nat]] /\ leaving' \subseteq Socket \X Topic
         /\ accepted' \subseteq Socket \X Topic \X Nat
<1>1. up' \in Wire(Upward) /\ down' \in Wire(Downward)
  <2>1. up \in Wire(Upward) /\ down \in Wire(Downward)
    BY DEF TypeOK, FrameSeq, Wire, FrameOf
  <2>2. [t \in Topic |-> <<>>] \in [Topic -> Seq(FrameOf(Upward))]
    BY EmptyType
  <2>3. [t \in Topic |-> <<>>] \in [Topic -> Seq(FrameOf(Downward))]
    BY EmptyType
  <2>4. /\ up' = [up EXCEPT ![s] = [t \in Topic |-> <<>>]]
        /\ down' = [down EXCEPT ![s] = [t \in Topic |-> <<>>]]
    BY DEF End
  <2> QED
    BY <2>1, <2>2, <2>3, <2>4 DEF Wire
<1>2. joins' \in [Socket -> [Topic -> Nat]]
  BY DEF TypeOK, End, None
<1> QED
  BY <1>1, <1>2 DEF TypeOK, End

LEMMA CloseType ==
  ASSUME TypeOK, CloseChannels PROVE chan' \in [Topic -> Chan] /\ lastRef' \in Nat
  BY ChanType DEF TypeOK, CloseChannels, Chan

LEMMA ClearType ==
  ASSUME ClearBuffer PROVE buffer' \in [Topic -> FrameSeq(Upward)]
  BY DEF ClearBuffer, FrameSeq

LEMMA ScheduleType ==
  ASSUME NEW n \in 0 .. MaxReconnectAttempts, ScheduleReconnect(n)
  PROVE  /\ attempts' \in 0 .. MaxReconnectAttempts /\ reconnecting' \in BOOLEAN
         /\ status' = IF reconnecting' THEN "reconnecting" ELSE "failed"
<1>1. CASE n >= MaxReconnectAttempts
  BY <1>1, ConstAssumption DEF ScheduleReconnect, Exhausted, ToldAfter
<1>2. CASE ~(n >= MaxReconnectAttempts)
  <2>1. attempts' = n + 1 /\ reconnecting' = TRUE /\ status' = "reconnecting"
    BY <1>2 DEF ScheduleReconnect, Exhausted, ToldAfter
  <2> QED
    BY <1>2, <2>1, ConstAssumption
<1> QED
  BY <1>1, <1>2

LEMMA OpenType ==
  ASSUME TypeOK, OpenSocket
  PROVE  /\ opened' \in 0 .. MaxSockets /\ ws' \in Socket
         /\ link' \in [Socket -> {"none", "opening", "open", "silent", "lost", "closed"}]
         /\ state' = "connecting" /\ status' = "connecting"
         /\ up' = up /\ down' = down /\ joins' = joins /\ leaving' = leaving /\ accepted' = accepted
<1>1. opened + 1 \in Socket
  BY ConstAssumption DEF TypeOK, OpenSocket, Socket
<1> QED
  BY <1>1, ConstAssumption DEF TypeOK, OpenSocket, serverVars, Socket

-----------------------------------------------------------------------------
(* Every action keeps the types and the status *)

LEMMA SInit == Init => SInv
<1> SUFFICES ASSUME Init PROVE SInv
  OBVIOUS
<1>1. TypeOK
  <2>1. NewChannel \in Chan
    BY DEF Chan, ChannelState, NewChannel, None
  <2>2. up \in Wire(Upward) /\ down \in Wire(Downward) /\ buffer \in [Topic -> FrameSeq(Upward)]
    BY DEF Init, Wire, FrameSeq
  <2>3. chan \in [Topic -> Chan] /\ joins \in [Socket -> [Topic -> Nat]]
    BY <2>1 DEF Init, None
  <2>4. /\ buffer \in [Topic -> FrameSeq(Upward)] /\ up \in [Socket -> [Topic -> FrameSeq(Upward)]]
        /\ down \in [Socket -> [Topic -> FrameSeq(Downward)]]
    BY <2>2 DEF Wire, FrameSeq, FrameOf
  <2>5. link \in [Socket -> {"none", "opening", "open", "silent", "lost", "closed"}]
    BY DEF Init
  <2>6. chan \in [Topic -> [state : ChannelState, joinRef : Nat, wantsJoin : BOOLEAN, waiting : BOOLEAN]]
    BY <2>3 DEF Chan
  <2>7. /\ attempts \in 0 .. MaxReconnectAttempts /\ opened \in 0 .. MaxSockets
        /\ upsets \in 0 .. MaxUpsets /\ calls \in 0 .. MaxCalls /\ lastRef \in Nat
    BY ConstAssumption DEF Init
  <2> QED
    BY <2>3, <2>4, <2>5, <2>6, <2>7 DEF Init, TypeOK
<1> QED
  BY <1>1 DEF Init, SInv, ClientOK, StatusTrue

LEMMA SConnect == ASSUME SInv, Connect PROVE SInv'
<1> USE DEF SInv
<1>a. doubled' \in BOOLEAN
  BY Zenon DEF TypeOK, Connect
<1>b. UNCHANGED <<reconnecting, beating, strays, probe, deadline, chan, buffer, lastRef, upsets, calls>>
  BY DEF Connect, channelVars
<1>c. closedByUser' = FALSE /\ attempts' = 0 /\ OpenSocket
  BY DEF Connect
<1>d. {reconnecting', beating', strays', deadline', closedByUser', doubled'} \subseteq BOOLEAN
  <2>1. {reconnecting, beating, strays, deadline} \subseteq BOOLEAN
    BY DEF TypeOK
  <2>2. closedByUser' \in BOOLEAN
    BY <1>c
  <2> QED
    BY <1>a, <1>b, <2>1, <2>2, Zenon
<1>e. attempts' \in 0 .. MaxReconnectAttempts
  BY <1>c, ConstAssumption
<1>1. TypeOK'
  BY <1>b, <1>c, <1>d, <1>e, OpenType DEF TypeOK
<1>2. ws' # None /\ ws' = opened + 1
  BY OpenType, SocketFacts DEF Connect, OpenSocket
<1> QED
  BY <1>1, <1>2, OpenType DEF Connect, OpenSocket, ClientOK, StatusTrue

LEMMA SReconnectTimer == ASSUME SInv, ReconnectTimer PROVE SInv'
<1> USE DEF SInv
<1>1. TypeOK'
  BY OpenType DEF TypeOK, ReconnectTimer, channelVars
<1>2. ws' # None
  BY OpenType, SocketFacts DEF ReconnectTimer
<1> QED
  BY <1>1, <1>2, OpenType DEF ReconnectTimer, ClientOK, StatusTrue

LEMMA SDisconnect == ASSUME SInv, Disconnect PROVE SInv'
<1> USE DEF SInv
<1>1. TypeOK'
  <2>1. /\ chan' \in [Topic -> Chan] /\ lastRef' \in Nat
        /\ buffer' \in [Topic -> FrameSeq(Upward)]
    BY CloseType, ClearType DEF Disconnect
  <2>2. /\ opened' \in 0 .. MaxSockets
        /\ link' \in [Socket -> {"none", "opening", "open", "silent", "lost", "closed"}]
        /\ up' \in Wire(Upward) /\ down' \in Wire(Downward)
        /\ joins' \in [Socket -> [Topic -> Nat]] /\ leaving' \subseteq Socket \X Topic
        /\ accepted' \subseteq Socket \X Topic \X Nat
    <3>1. CASE ws = None
      BY <3>1 DEF TypeOK, Disconnect, netVars, serverVars, Wire, FrameSeq, FrameOf
    <3>2. CASE ws # None
      BY <3>2, EndType DEF TypeOK, Disconnect
    <3> QED
      BY <3>1, <3>2
  <2>3. upsets' \in 0 .. MaxUpsets /\ calls' \in 0 .. MaxCalls
    BY ConstAssumption DEF TypeOK, Disconnect, Upset
  <2> QED
    BY <2>1, <2>2, <2>3 DEF TypeOK, Disconnect, ClearTimers, Wire, FrameSeq, FrameOf, Chan, None
<1> QED
  BY <1>1 DEF Disconnect, ClearTimers, ClientOK, StatusTrue

LEMMA SForce == ASSUME SInv, ws # None, ~closedByUser, ForceReconnect PROVE SInv'
<1> USE DEF SInv
<1>1. /\ attempts' \in 0 .. MaxReconnectAttempts /\ reconnecting' \in BOOLEAN
      /\ status' = IF reconnecting' THEN "reconnecting" ELSE "failed"
  BY ScheduleType, ConstAssumption DEF ForceReconnect
<1>2. TypeOK'
  <2>1. /\ chan' \in [Topic -> Chan] /\ lastRef' \in Nat
        /\ buffer' \in [Topic -> FrameSeq(Upward)]
    BY CloseType, ClearType DEF ForceReconnect
  <2>2. /\ opened' \in 0 .. MaxSockets
        /\ link' \in [Socket -> {"none", "opening", "open", "silent", "lost", "closed"}]
        /\ up' \in Wire(Upward) /\ down' \in Wire(Downward)
        /\ joins' \in [Socket -> [Topic -> Nat]] /\ leaving' \subseteq Socket \X Topic
        /\ accepted' \subseteq Socket \X Topic \X Nat
    BY EndType DEF TypeOK, ForceReconnect
  <2>3. upsets' \in 0 .. MaxUpsets /\ calls' \in 0 .. MaxCalls
    BY ConstAssumption DEF TypeOK, ForceReconnect, Upset
  <2> QED
    BY <1>1, <2>1, <2>2, <2>3 DEF TypeOK, ForceReconnect, ClearTimers, Wire, FrameSeq, FrameOf, Chan, None
<1> QED
  BY <1>1, <1>2 DEF ForceReconnect, ClearTimers, ClientOK, StatusTrue

LEMMA SSendHeartbeat == ASSUME SInv, SendHeartbeat, ~closedByUser PROVE SInv'
  BY DEF SInv, TypeOK, SendHeartbeat, Arm, IsOpen, Open, ClientOK, StatusTrue, channelVars, netVars, serverVars

LEMMA STick == ASSUME SInv, HeartbeatTick PROVE SInv'
<1>1. ~closedByUser
  BY DEF SInv, HeartbeatTick, SendHeartbeat, IsOpen, Open, ClientOK
<1> QED
  BY <1>1, SSendHeartbeat DEF HeartbeatTick

LEMMA SCheck == ASSUME SInv, CheckConnection PROVE SInv'
<1>1. CASE state = "disconnected" /\ OpenSocket /\ attempts' = 0
           /\ UNCHANGED <<reconnecting, beating, strays, probe, deadline, closedByUser, channelVars, doubled, upsets, calls>>
  <2>1. TypeOK'
    BY <1>1, OpenType, ConstAssumption DEF SInv, TypeOK, channelVars
  <2>2. ws' # None
    BY <1>1, OpenType, SocketFacts DEF SInv
  <2> QED
    BY <1>1, <2>1, <2>2, OpenType DEF CheckConnection, SInv, ClientOK, StatusTrue
<1>2. CASE state = "connected" /\ ForceReconnect
  BY <1>2, SForce DEF CheckConnection, SInv, ClientOK
<1>3. CASE state = "connected" /\ SendHeartbeat
  BY <1>3, SSendHeartbeat DEF CheckConnection
<1> QED
  BY <1>1, <1>2, <1>3 DEF CheckConnection

LEMMA SDeadline == ASSUME SInv, HeartbeatDeadline PROVE SInv'
<1>1. CASE probe # None /\ ForceReconnect
  BY <1>1, SForce DEF HeartbeatDeadline, SInv, ClientOK
<1>2. CASE probe = None /\ deadline' = FALSE
           /\ UNCHANGED <<state, ws, reconnecting, attempts, beating, strays, probe, closedByUser, status,
                          channelVars, netVars, serverVars, doubled, upsets, calls>>
  BY <1>2 DEF SInv, TypeOK, ClientOK, StatusTrue, channelVars, netVars, serverVars
<1> QED
  BY <1>1, <1>2 DEF HeartbeatDeadline

LEMMA SReply == ASSUME SInv, HeartbeatReply PROVE SInv'
  BY DEF SInv, TypeOK, HeartbeatReply, ClientOK, StatusTrue, channelVars, netVars, serverVars, None

\* The variables the status speaks of, and the bounded ones, do not change.
Aside == UNCHANGED <<clientVars, opened, doubled>>

LEMMA SAside == ASSUME SInv, Aside, TypeOK' PROVE SInv'
  BY DEF SInv, Aside, clientVars, timerVars, ClientOK, StatusTrue

LEMMA WireOK == ASSUME TypeOK PROVE up \in Wire(Upward) /\ down \in Wire(Downward)
  BY DEF TypeOK, Wire, FrameSeq, FrameOf

LEMMA SOnOpen == ASSUME SInv, NEW s \in Socket, OnOpen(s) PROVE SInv'
<1> USE DEF SInv
<1>1. link' \in [Socket -> {"none", "opening", "open", "silent", "lost", "closed"}]
  BY DEF TypeOK, OnOpen
<1>2. CASE ws = s
  <2> DEFINE c == [t \in Topic |-> IF Rejoins(chan[t]) THEN Joining(chan[t]) ELSE chan[t]]
             u == [t \in Topic |-> (IF Rejoins(chan[t]) THEN <<JoinFrame>> ELSE <<>>) \o buffer[t]]
  <2>1. c \in [Topic -> Chan]
    <3>1. ASSUME NEW t \in Topic PROVE c[t] \in Chan
      <4>1. chan[t] \in Chan /\ lastRef \in Nat
        BY DEF TypeOK, Chan
      <4>2. Joining(chan[t]) \in Chan
        BY <4>1, ChanType
      <4> QED
        BY <4>1, <4>2
    <3> QED
      BY <3>1
  <2>2. u \in [Topic -> Seq(FrameOf(Upward))]
    <3>1. JoinFrame \in FrameOf(Upward)
      BY DEF TypeOK, JoinFrame, Frame, FrameOf, Upward
    <3>2. ASSUME NEW t \in Topic PROVE u[t] \in Seq(FrameOf(Upward))
      <4>1. buffer[t] \in Seq(FrameOf(Upward))
        BY DEF TypeOK, FrameSeq, FrameOf
      <4>2. <<JoinFrame>> \in Seq(FrameOf(Upward)) /\ <<>> \in Seq(FrameOf(Upward))
        BY <3>1
      <4>3. (IF Rejoins(chan[t]) THEN <<JoinFrame>> ELSE <<>>) \in Seq(FrameOf(Upward))
        BY <4>2
      <4> QED
        BY <4>1, <4>3, ConcatProperties
    <3> QED
      BY <3>2
  <2>3. up' \in Wire(Upward)
    <3>1. up' = [up EXCEPT ![s] = u]
      BY <1>2 DEF OnOpen
    <3> QED
      BY <2>2, <3>1, WireOK DEF Wire
  <2>4. chan' \in [Topic -> Chan] /\ lastRef' \in Nat /\ buffer' \in [Topic -> FrameSeq(Upward)]
    <3>1. chan' = c /\ lastRef' = lastRef + 1 /\ buffer' = [t \in Topic |-> <<>>]
      BY <1>2 DEF OnOpen
    <3>2. lastRef + 1 \in Nat
      BY DEF TypeOK
    <3> HIDE DEF c
    <3> QED
      BY <2>1, <3>1, <3>2 DEF FrameSeq
  <2>5. {reconnecting', beating', strays', deadline', closedByUser', doubled'} \subseteq BOOLEAN
    <3>1. {reconnecting, beating, strays, deadline, closedByUser, doubled} \subseteq BOOLEAN
      BY DEF TypeOK
    <3>2. strays' \in BOOLEAN /\ beating' \in BOOLEAN
      BY <1>2, <3>1, Zenon DEF OnOpen
    <3>3. UNCHANGED <<reconnecting, deadline, closedByUser, doubled>>
      BY DEF OnOpen
    <3> QED
      BY <3>1, <3>2, <3>3
  <2>6. TypeOK'
    <3>1. /\ state' = "connected" /\ status' = "connected" /\ attempts' = 0 /\ probe' = None
          /\ UNCHANGED <<ws, opened, down, joins, leaving, accepted, upsets, calls>>
      BY <1>2 DEF OnOpen, serverVars
    <3>2. up' \in [Socket -> [Topic -> FrameSeq(Upward)]]
      BY <2>3 DEF Wire, FrameSeq, FrameOf
    <3>3. chan' \in [Topic -> [state : ChannelState, joinRef : Nat, wantsJoin : BOOLEAN, waiting : BOOLEAN]]
      BY <2>4 DEF Chan
    <3>4. 0 \in 0 .. MaxReconnectAttempts
      BY ConstAssumption
    <3> QED
      BY <1>1, <2>4, <2>5, <3>1, <3>2, <3>3, <3>4 DEF TypeOK
  <2> QED
    BY <1>2, <2>6, SocketFacts DEF OnOpen, ClientOK, StatusTrue
<1>3. CASE ws # s
  <2>1. Aside /\ UNCHANGED <<channelVars, up, down, serverVars, upsets, calls>>
    BY <1>3 DEF OnOpen, Aside, clientVars, timerVars
  <2>2. TypeOK'
    BY <1>1, <2>1 DEF TypeOK, Aside, clientVars, timerVars, channelVars, serverVars
  <2> QED
    BY <2>1, <2>2, SAside
<1> QED
  BY <1>2, <1>3

LEMMA SOnClose == ASSUME SInv, NEW s \in Socket, OnClose(s) PROVE SInv'
<1> USE DEF SInv
<1>1. link' \in [Socket -> {"none", "opening", "open", "silent", "lost", "closed"}]
  BY DEF TypeOK, OnClose
<1>2. CASE ws = s
  <2>a. ~closedByUser
    BY <1>2, SocketFacts DEF ClientOK
  <2>1. /\ attempts' \in 0 .. MaxReconnectAttempts /\ reconnecting' \in BOOLEAN
        /\ status' = IF reconnecting' THEN "reconnecting" ELSE "failed"
    BY <1>2, <2>a, ScheduleType, SocketFacts DEF TypeOK, OnClose
  <2>b. ws' = None /\ state' = "disconnected" /\ ClearTimers /\ CloseChannels /\ ClearBuffer
    BY <1>2 DEF OnClose
  <2>2. /\ chan' \in [Topic -> Chan] /\ lastRef' \in Nat
        /\ buffer' \in [Topic -> FrameSeq(Upward)]
    BY <2>b, CloseType, ClearType
  <2>3. TypeOK'
    BY <1>1, <2>1, <2>2, <2>b DEF TypeOK, OnClose, ClearTimers, serverVars, Chan, None
  <2> QED
    BY <2>1, <2>3, <2>a, <2>b DEF OnClose, ClearTimers, ClientOK, StatusTrue
<1>3. CASE ws # s
  <2>1. Aside /\ UNCHANGED <<channelVars, up, down, serverVars, upsets, calls>>
    BY <1>3 DEF OnClose, Aside, clientVars, timerVars
  <2>2. TypeOK'
    BY <1>1, <2>1 DEF TypeOK, Aside, clientVars, timerVars, channelVars, serverVars
  <2> QED
    BY <2>1, <2>2, SAside
<1> QED
  BY <1>2, <1>3

LEMMA SOnMessage ==
  ASSUME SInv, NEW s \in Socket, NEW t \in Topic, OnMessage(s, t) PROVE SInv'
<1> USE DEF SInv
<1>1. down[s][t] \in Seq(FrameOf(Downward)) /\ down[s][t] # <<>>
  BY WireOK DEF OnMessage, Wire
<1>2. Head(down[s][t]) \in FrameOf(Downward) /\ Tail(down[s][t]) \in Seq(FrameOf(Downward))
  BY <1>1, HeadTailProperties
<1>3. chan[t] \in Chan /\ lastRef \in Nat
  BY DEF TypeOK, Chan
<1>4. Received(chan[t], Head(down[s][t])) \in Chan
  BY <1>2, <1>3, ChanType
<1>5. chan' \in [Topic -> Chan]
  BY <1>4 DEF TypeOK, OnMessage, Chan
<1>6. down' \in Wire(Downward)
  BY <1>2, WireOK DEF OnMessage, Wire
<1>7. Aside /\ UNCHANGED <<buffer, lastRef, link, up, serverVars, upsets, calls>>
  BY DEF OnMessage, Aside
<1>8. TypeOK'
  BY <1>5, <1>6, <1>7 DEF TypeOK, Aside, clientVars, timerVars, serverVars, Wire, FrameSeq, FrameOf, Chan
<1> QED
  BY <1>7, <1>8, SAside

LEMMA WriteType ==
  ASSUME TypeOK, NEW t \in Topic, NEW f \in FrameOf(Upward), ws \in Socket, Write(ws, t, f)
  PROVE  up' \in Wire(Upward)
<1>1. up[ws][t] \in Seq(FrameOf(Upward))
  BY WireOK DEF Wire
<1>2. Append(up[ws][t], f) \in Seq(FrameOf(Upward))
  BY <1>1
<1> QED
  BY <1>2, WireOK DEF Write, Wire

LEMMA SApplication ==
  ASSUME SInv, NEW t \in Topic, Subscribe(t) \/ Unsubscribe(t) \/ Send(t) PROVE SInv'
<1> USE DEF SInv
<1>a. chan[t] \in Chan /\ lastRef \in Nat /\ chan[t].joinRef \in Nat
  BY DEF TypeOK, Chan
<1>b. calls' \in 0 .. MaxCalls
  BY ConstAssumption DEF TypeOK, Subscribe, Unsubscribe, Send, Call
<1>c. Aside /\ UNCHANGED <<link, down, serverVars, upsets>>
  BY DEF Subscribe, Unsubscribe, Send, Aside
<1>d. IsOpen => ws \in Socket
  BY DEF TypeOK, IsOpen, Open
<1>1. /\ chan' \in [Topic -> Chan] /\ lastRef' \in Nat /\ up' \in Wire(Upward)
      /\ buffer' \in [Topic -> FrameSeq(Upward)]
  <2>1. CASE Subscribe(t)
    <3> DEFINE c == [chan[t] EXCEPT !.wantsJoin = TRUE, !.waiting = @ \/ chan[t].state # "joined"]
    <3>1. c \in Chan /\ Joining(c) \in Chan
      BY <1>a, ChanType
    <3>2. JoinFrame \in FrameOf(Upward) /\ lastRef + 1 \in Nat
      BY <1>a DEF JoinFrame, Frame, FrameOf, Upward
    <3>3. CASE IsOpen /\ chan' = [chan EXCEPT ![t] = Joining(c)] /\ lastRef' = lastRef + 1 /\ Write(ws, t, JoinFrame)
      <4>1. up' \in Wire(Upward)
        BY <1>d, <3>2, <3>3, WriteType
      <4> QED
        BY <2>1, <3>1, <3>2, <3>3, <4>1 DEF TypeOK, Subscribe, Chan
    <3>4. CASE chan' = [chan EXCEPT ![t] = c] /\ UNCHANGED <<lastRef, up>>
      BY <2>1, <3>1, <3>4, WireOK DEF TypeOK, Subscribe, Chan
    <3> QED
      BY <2>1, <3>3, <3>4 DEF Subscribe
  <2>2. CASE Unsubscribe(t)
    <3>1. NewChannel \in Chan
      BY <1>a, ChanType
    <3>2. Frame("phx_leave", chan[t].joinRef) \in FrameOf(Upward)
      BY <1>a, FrameType DEF Upward
    <3>3. up' \in Wire(Upward)
      BY <1>d, <2>2, <3>2, WriteType, WireOK DEF Unsubscribe
    <3> QED
      BY <2>2, <3>1, <3>3 DEF TypeOK, Unsubscribe, Chan
  <2>3. CASE Send(t)
    <3>1. Frame("broadcast", chan[t].joinRef) \in FrameOf(Upward)
      BY <1>a, FrameType DEF Upward
    <3>2. up' \in Wire(Upward)
      BY <1>d, <2>3, <3>1, WriteType, WireOK DEF Send
    <3>3. buffer' \in [Topic -> FrameSeq(Upward)]
      <4>1. buffer[t] \in FrameSeq(Upward) /\ Append(buffer[t], Frame("broadcast", chan[t].joinRef)) \in FrameSeq(Upward)
        <5>1. buffer[t] \in Seq(FrameOf(Upward))
          BY DEF TypeOK, FrameSeq, FrameOf
        <5>2. Append(buffer[t], Frame("broadcast", chan[t].joinRef)) \in Seq(FrameOf(Upward))
          BY <3>1, <5>1, AppendProperties
        <5> QED
          BY <5>1, <5>2 DEF FrameSeq, FrameOf
      <4> QED
        BY <2>3, <4>1 DEF TypeOK, Send
    <3> QED
      BY <2>3, <3>2, <3>3 DEF TypeOK, Send, Chan
  <2> QED
    BY <2>1, <2>2, <2>3
<1>2. TypeOK'
  BY <1>1, <1>b, <1>c DEF TypeOK, Aside, clientVars, timerVars, serverVars, Wire, FrameSeq, FrameOf, Chan
<1> QED
  BY <1>2, <1>c, SAside

LEMMA SBreak == ASSUME SInv, NEW s \in Socket, Break(s) PROVE SInv'
<1> USE DEF SInv
<1>1. End(s, "lost") \/ End(s, "silent")
  BY DEF Break, Lose, FallSilent
<1>2. UNCHANGED <<clientVars, channelVars, doubled, calls>> /\ upsets' \in 0 .. MaxUpsets
  BY ConstAssumption DEF TypeOK, Break, Upset
<1>3. /\ link' \in [Socket -> {"none", "opening", "open", "silent", "lost", "closed"}]
      /\ up' \in Wire(Upward) /\ down' \in Wire(Downward)
      /\ joins' \in [Socket -> [Topic -> Nat]] /\ leaving' \subseteq Socket \X Topic
      /\ accepted' \subseteq Socket \X Topic \X Nat
  BY <1>1, EndType
<1>4. opened' = opened
  BY <1>1 DEF End
<1>5. TypeOK'
  BY <1>2, <1>3, <1>4 DEF TypeOK, clientVars, timerVars, channelVars, Wire, FrameSeq, FrameOf
<1> QED
  BY <1>2, <1>4, <1>5, SAside DEF Aside

\* What the server does with a topic changes its frames, its join and no more.
LEMMA ServerType ==
  ASSUME TypeOK, NEW s \in Socket, NEW t \in Topic, Serve(s, t) \/ ChannelCrash(s, t)
  PROVE  /\ up' \in Wire(Upward) /\ down' \in Wire(Downward)
         /\ joins' \in [Socket -> [Topic -> Nat]] /\ leaving' \subseteq Socket \X Topic
         /\ accepted' \subseteq Socket \X Topic \X Nat
<1>a. /\ up[s][t] \in Seq(FrameOf(Upward)) /\ down[s][t] \in Seq(FrameOf(Downward))
      /\ joins[s][t] \in Nat
  BY WireOK DEF Wire, TypeOK
<1>b. ASSUME up[s][t] # <<>>
      PROVE  Head(up[s][t]).ref \in Nat /\ Tail(up[s][t]) \in Seq(FrameOf(Upward))
  <2>1. Head(up[s][t]) \in FrameOf(Upward) /\ Tail(up[s][t]) \in Seq(FrameOf(Upward))
    BY <1>a, <1>b, HeadTailProperties
  <2> QED
    BY <2>1 DEF FrameOf
<1>c. \A kind \in Upward : Take(s, t, kind) => up' \in Wire(Upward) /\ Head(up[s][t]).ref \in Nat
  BY <1>b, WireOK DEF Take, Wire
<1>d. \A r \in Nat : Frame("ok", r) \in FrameOf(Downward) /\ Frame("error", r) \in FrameOf(Downward)
        /\ Frame("phx_close", r) \in FrameOf(Downward) /\ Frame("phx_error", r) \in FrameOf(Downward)
  BY DEF Frame, FrameOf, Downward
<1>e. leaving \ {<<s, t>>} \subseteq Socket \X Topic /\ leaving \union {<<s, t>>} \subseteq Socket \X Topic
  BY DEF TypeOK
<1>1. CASE TakeJoin(s, t)
  <2> DEFINE ref == Head(up[s][t]).ref
             closes == IF joins[s][t] = None THEN <<>> ELSE <<Frame("phx_close", joins[s][t])>>
  <2>1. up' \in Wire(Upward) /\ ref \in Nat
    BY <1>1, <1>c DEF TakeJoin, Upward
  <2>2. closes \in Seq(FrameOf(Downward)) /\ <<Frame("ok", ref)>> \in Seq(FrameOf(Downward))
        /\ <<Frame("error", ref)>> \in Seq(FrameOf(Downward))
    BY <1>a, <1>d, <2>1
  <2>3. ASSUME NEW q \in Seq(FrameOf(Downward)) PROVE down[s][t] \o q \o closes \in Seq(FrameOf(Downward))
    BY <1>a, <2>2, <2>3, ConcatProperties
  <2>a. PICK q \in Seq(FrameOf(Downward)), j \in Nat :
           /\ down' = [down EXCEPT ![s][t] = down[s][t] \o q \o closes]
           /\ joins' = [joins EXCEPT ![s][t] = j]
           /\ accepted' \subseteq accepted \union {<<s, t, ref>>}
    <3>1. \/ /\ down' = [down EXCEPT ![s][t] = down[s][t] \o <<Frame("ok", ref)>> \o closes]
             /\ joins' = [joins EXCEPT ![s][t] = ref]
             /\ accepted' = accepted \union {<<s, t, ref>>}
          \/ /\ down' = [down EXCEPT ![s][t] = down[s][t] \o <<Frame("error", ref)>> \o closes]
             /\ joins' = [joins EXCEPT ![s][t] = 0]
             /\ accepted' = accepted
      BY <1>1 DEF TakeJoin, None
    <3> HIDE DEF ref, closes
    <3> QED
      BY <2>1, <2>2, <3>1
  <2>4. down' \in Wire(Downward)
    <3> HIDE DEF closes
    <3> QED
      BY <2>3, <2>a, WireOK DEF Wire
  <2>5. joins' \in [Socket -> [Topic -> Nat]] /\ accepted' \subseteq Socket \X Topic \X Nat
    BY <2>1, <2>a DEF TypeOK
  <2> QED
    BY <1>1, <1>e, <2>1, <2>4, <2>5 DEF TakeJoin
<1>2. CASE TakeLeave(s, t)
  BY <1>2, <1>c, <1>e, WireOK DEF TypeOK, TakeLeave, Upward
<1>3. CASE TakeBroadcast(s, t)
  BY <1>3, <1>c, WireOK DEF TypeOK, TakeBroadcast, Upward
<1>4. CASE CloseLeft(s, t)
  <2>1. Append(down[s][t], Frame("phx_close", joins[s][t])) \in Seq(FrameOf(Downward))
    BY <1>a, <1>d, AppendProperties
  <2> QED
    BY <1>4, <1>e, <2>1, WireOK DEF TypeOK, CloseLeft, Wire, None
<1>5. CASE ChannelCrash(s, t)
  <2>1. Append(down[s][t], Frame("phx_error", joins[s][t])) \in Seq(FrameOf(Downward))
    BY <1>a, <1>d, AppendProperties
  <2> QED
    BY <1>5, <1>e, <2>1, WireOK DEF TypeOK, ChannelCrash, Wire, None
<1> QED
  BY <1>1, <1>2, <1>3, <1>4, <1>5 DEF Serve

LEMMA SServer ==
  ASSUME SInv, NEW s \in Socket, NEW t \in Topic, Serve(s, t) \/ ChannelCrash(s, t) PROVE SInv'
<1> USE DEF SInv
<1>1. Aside /\ UNCHANGED <<channelVars, link, calls>> /\ upsets' \in 0 .. MaxUpsets
  BY ConstAssumption DEF TypeOK, Serve, ChannelCrash, Aside, Upset
<1>2. TypeOK'
  BY <1>1, ServerType DEF TypeOK, Aside, clientVars, timerVars, channelVars, Wire, FrameSeq, FrameOf
<1> QED
  BY <1>1, <1>2, SAside

LEMMA SNext == ASSUME SInv, [Next]_vars PROVE SInv'
<1>1. CASE Next
  BY <1>1, SConnect, SDisconnect, SCheck, SReconnectTimer, STick, SDeadline, SReply, SOnOpen, SOnClose,
     SBreak, SOnMessage, SServer, SApplication DEF Next, Timers
<1>2. CASE UNCHANGED vars
  BY <1>2 DEF vars, clientVars, timerVars, channelVars, netVars, serverVars, SInv, TypeOK, ClientOK, StatusTrue
<1> QED
  BY <1>1, <1>2

LEMMA SInvariant == Spec => []SInv
  BY SInit, SNext, PTL DEF Spec

\* Every variable of the client, the wires and the server keeps its type, for any
\* number of channels and sockets.
THEOREM TypeCorrect == Spec => []TypeOK
<1>1. SInv => TypeOK
  BY DEF SInv
<1> QED
  BY <1>1, SInvariant, PTL

\* The status the application was told last is always true (client.ts 18-27),
\* even if it calls connect() during a reconnection.
THEOREM StatusCorrect == Spec => []StatusTrue
<1>1. SInv => StatusTrue
  BY DEF SInv
<1> QED
  BY <1>1, SInvariant, PTL

-----------------------------------------------------------------------------
(* The joins of the channels *)

Ends(r) == {Frame("phx_close", r), Frame("phx_error", r)}

\* The server holds join r, or the word that it ended comes after place i.
Backed(s, t, r, i) ==
  \/ joins[s][t] = r
  \/ \E j \in DOMAIN down[s][t] : j > i /\ down[s][t][j] \in Ends(r)

\* There is at most one socket with any life in it, it is this.ws, and channels
\* are joined and frames buffered only while it is connected.
SocketsOK ==
  /\ reconnecting => state = "disconnected"
  /\ \A s \in Socket : link[s] \notin {"none", "closed"} => s = ws
  /\ \A s \in Socket : link[s] \in {"open", "silent"} => state = "connected"
  /\ \A s \in Socket : link[s] = "opening" => state = "connecting"
  /\ state # "connected" => \A t \in Topic : chan[t].state # "joined" /\ buffer[t] = <<>>

\* A reply that accepts a join is followed by the word that it ended, if it has.
OksBacked ==
  \A s \in Socket, t \in Topic : \A i \in DOMAIN down[s][t] :
    down[s][t][i].kind = "ok" =>
      /\ down[s][t][i].ref # None
      /\ <<s, t, down[s][t][i].ref>> \in accepted
      /\ Backed(s, t, down[s][t][i].ref, i)

\* A message on its way was sent under a join accepted on the same socket.
UpOK ==
  \A s \in Socket, t \in Topic : \A i \in DOMAIN up[s][t] :
    /\ up[s][t][i].kind = "phx_join" => up[s][t][i].ref # None
    /\ up[s][t][i].kind = "broadcast" => <<s, t, up[s][t][i].ref>> \in accepted

JoinedOK ==
  \A t \in Topic : chan[t].state = "joined" /\ link[ws] = "open" =>
    /\ chan[t].joinRef # None
    /\ <<ws, t, chan[t].joinRef>> \in accepted
    /\ Backed(ws, t, chan[t].joinRef, 0)

\* Together, inductive as long as ~doubled.
Good == SocketsOK /\ OksBacked /\ UpOK /\ JoinedOK

\* What Good speaks of.
Idle == UNCHANGED <<state, ws, reconnecting, chan, buffer, link, up, down, joins, accepted>>

LEMMA Undoubled == ASSUME TypeOK, [Next]_vars, ~doubled' PROVE ~doubled
  BY DEF TypeOK, Next, Timers, Connect, Disconnect, CheckConnection, ReconnectTimer, HeartbeatTick,
     HeartbeatDeadline, HeartbeatReply, SendHeartbeat, ForceReconnect, OnOpen, OnClose, Break, OnMessage,
     Serve, ChannelCrash, Subscribe, Unsubscribe, Send, vars

LEMMA GInit == Init => Good
  BY SocketFacts DEF Init, Good, SocketsOK, OksBacked, UpOK, JoinedOK, NewChannel

LEMMA GIdle == ASSUME Good, Idle PROVE Good'
  BY DEF Good, Idle, SocketsOK, OksBacked, UpOK, JoinedOK, Backed

-----------------------------------------------------------------------------
(* Sockets come and go *)

LEMMA ClosedNotJoined == \A c \in Chan : ClosedChannel(c).state # "joined"
<1> SUFFICES ASSUME NEW c \in Chan PROVE ClosedChannel(c).state # "joined"
  OBVIOUS
<1>1. CASE c.state \in {"joined", "joining"}
  BY <1>1 DEF ClosedChannel, Chan
<1>2. CASE c.state \notin {"joined", "joining"}
  BY <1>2 DEF ClosedChannel, Chan
<1> QED
  BY <1>1, <1>2

LEMMA Closed ==
  ASSUME TypeOK, CloseChannels, ClearBuffer
  PROVE  \A t \in Topic : chan'[t].state # "joined" /\ buffer'[t] = <<>>
  BY ClosedNotJoined DEF TypeOK, Chan, CloseChannels, ClearBuffer

\* A socket is made while there is none.
LEMMA GOpenSocket ==
  ASSUME SInv, Good, OpenSocket, state = "disconnected", ~reconnecting', chan' = chan, buffer' = buffer
  PROVE  Good'
<1> USE DEF SInv
<1>1. ws = None /\ opened + 1 \in Socket /\ ws' = opened + 1
  BY ConstAssumption DEF ClientOK, TypeOK, OpenSocket, Socket
<1>2. \A s \in Socket : link[s] \in {"none", "closed"}
  BY <1>1, SocketFacts DEF Good, SocketsOK
<1>3. SocketsOK'
  BY <1>1, <1>2 DEF TypeOK, OpenSocket, Good, SocketsOK
<1>4. OksBacked' /\ UpOK'
  BY DEF OpenSocket, serverVars, Good, OksBacked, UpOK, Backed
<1>5. JoinedOK'
  BY DEF Good, SocketsOK, JoinedOK
<1> QED
  BY <1>3, <1>4, <1>5 DEF Good

\* A socket ends: nothing is on it any more.
LEMMA GEnd ==
  ASSUME TypeOK, Good, NEW s \in Socket, NEW how, End(s, how)
  PROVE  OksBacked' /\ UpOK'
<1>1. \A t \in Topic : down'[s][t] = <<>> /\ up'[s][t] = <<>>
  BY DEF TypeOK, End
<1>2. \A r \in Socket : r # s => down'[r] = down[r] /\ up'[r] = up[r] /\ joins'[r] = joins[r]
  BY DEF TypeOK, End
<1>3. accepted' = accepted
  BY DEF End
<1>4. OksBacked'
  <2> SUFFICES ASSUME NEW r \in Socket, NEW t \in Topic, NEW i \in DOMAIN down'[r][t],
                      down'[r][t][i].kind = "ok"
               PROVE  /\ down'[r][t][i].ref # None
                      /\ <<r, t, down'[r][t][i].ref>> \in accepted'
                      /\ Backed(r, t, down[r][t][i].ref, i)'
    BY DEF OksBacked
  <2>1. r # s
    BY <1>1
  <2> QED
    BY <1>2, <1>3, <2>1 DEF Good, OksBacked, Backed
<1>5. UpOK'
  <2> SUFFICES ASSUME NEW r \in Socket, NEW t \in Topic, NEW i \in DOMAIN up'[r][t]
               PROVE  /\ up'[r][t][i].kind = "phx_join" => up'[r][t][i].ref # None
                      /\ up'[r][t][i].kind = "broadcast" => <<r, t, up'[r][t][i].ref>> \in accepted'
    BY DEF UpOK
  <2>1. r # s
    BY <1>1
  <2> QED
    BY <1>2, <1>3, <2>1 DEF Good, UpOK
<1> QED
  BY <1>4, <1>5

LEMMA GTeardown ==
  ASSUME SInv, Good, ws # None, End(ws, "closed"), CloseChannels, ClearBuffer,
         state' = "disconnected", ws' = None
  PROVE  Good'
<1> USE DEF SInv
<1>1. ws \in Socket
  BY DEF TypeOK
<1>2. OksBacked' /\ UpOK'
  BY <1>1, GEnd
<1>3. \A t \in Topic : chan'[t].state # "joined" /\ buffer'[t] = <<>>
  BY Closed
<1>4. \A s \in Socket : link'[s] \in {"none", "closed"}
  BY <1>1 DEF TypeOK, End, Good, SocketsOK
<1>5. SocketsOK'
  BY <1>3, <1>4 DEF SocketsOK
<1>6. JoinedOK'
  BY <1>3 DEF JoinedOK
<1> QED
  BY <1>2, <1>5, <1>6 DEF Good

LEMMA GDisconnect == ASSUME SInv, Good, Disconnect PROVE Good'
<1>1. CASE ws # None
  BY <1>1, GTeardown DEF Disconnect
<1>2. CASE ws = None
  <2>1. UNCHANGED <<link, up, down, joins, accepted>> /\ state' = "disconnected" /\ ws' = None
    BY <1>2 DEF Disconnect, netVars, serverVars
  <2>2. \A t \in Topic : chan'[t].state # "joined" /\ buffer'[t] = <<>>
    BY Closed DEF SInv, Disconnect
  <2>3. OksBacked' /\ UpOK'
    BY <2>1 DEF Good, OksBacked, UpOK, Backed
  <2>4. \A s \in Socket : link[s] \in {"none", "closed"}
    BY <1>2, SocketFacts DEF Good, SocketsOK
  <2>5. SocketsOK' /\ JoinedOK'
    BY <2>1, <2>2, <2>4 DEF SocketsOK, JoinedOK
  <2> QED
    BY <2>3, <2>5 DEF Good
<1> QED
  BY <1>1, <1>2

LEMMA GForce == ASSUME SInv, Good, ws # None, ForceReconnect PROVE Good'
  BY GTeardown DEF ForceReconnect

LEMMA GCheck == ASSUME SInv, Good, CheckConnection PROVE Good'
<1>1. CASE state = "disconnected" /\ ~reconnecting /\ OpenSocket
           /\ UNCHANGED <<reconnecting, beating, strays, probe, deadline, closedByUser, channelVars, doubled, upsets, calls>>
  BY <1>1, GOpenSocket DEF channelVars
<1>2. CASE state = "connected" /\ ForceReconnect
  BY <1>2, GForce DEF SInv, ClientOK
<1>3. CASE SendHeartbeat
  BY <1>3, GIdle DEF SendHeartbeat, Idle, channelVars, netVars, serverVars
<1> QED
  BY <1>1, <1>2, <1>3 DEF CheckConnection

LEMMA GDeadline == ASSUME SInv, Good, HeartbeatDeadline PROVE Good'
<1>1. CASE probe # None /\ ForceReconnect
  BY <1>1, GForce DEF SInv, ClientOK
<1>2. CASE UNCHANGED <<state, ws, reconnecting, attempts, beating, strays, probe, closedByUser, status,
                       channelVars, netVars, serverVars, doubled, upsets, calls>>
  BY <1>2, GIdle DEF Idle, channelVars, netVars, serverVars
<1> QED
  BY <1>1, <1>2 DEF HeartbeatDeadline

LEMMA GBeat == ASSUME Good, HeartbeatTick \/ HeartbeatReply PROVE Good'
  BY GIdle DEF HeartbeatTick, SendHeartbeat, HeartbeatReply, Idle, channelVars, netVars, serverVars

LEMMA GConnect == ASSUME SInv, Good, Connect, ~doubled' PROVE Good'
<1>1. ~reconnecting
  BY Zenon DEF Connect
<1> QED
  BY <1>1, GOpenSocket DEF Connect, channelVars

LEMMA GReconnectTimer == ASSUME SInv, Good, ReconnectTimer PROVE Good'
<1>1. state = "disconnected"
  BY DEF ReconnectTimer, Good, SocketsOK
<1> QED
  BY <1>1, GOpenSocket DEF ReconnectTimer, channelVars

\* A socket of an earlier day is closed for good: only this.ws opens.
LEMMA GOnOpen == ASSUME SInv, Good, NEW s \in Socket, OnOpen(s) PROVE Good'
<1> USE DEF SInv
<1>1. ws = s /\ state = "connecting" /\ ~reconnecting
  BY DEF OnOpen, Good, SocketsOK
<1>2. /\ state' = "connected" /\ link' = [link EXCEPT ![s] = "open"]
      /\ UNCHANGED <<ws, reconnecting, down, joins, accepted>>
  BY <1>1 DEF OnOpen, serverVars
<1>3. \A t \in Topic : chan[t] \in Chan /\ chan[t].state # "joined" /\ buffer[t] = <<>>
  BY <1>1 DEF TypeOK, Chan, Good, SocketsOK
<1>4. \A t \in Topic : chan'[t].state # "joined"
  <2> SUFFICES ASSUME NEW t \in Topic PROVE chan'[t].state # "joined"
    OBVIOUS
  <2>1. Joining(chan[t]).state = "joining"
    BY <1>3 DEF Joining, Chan
  <2>2. chan'[t] = Joining(chan[t]) \/ chan'[t] = chan[t]
    BY <1>1 DEF OnOpen
  <2> QED
    BY <1>3, <2>1, <2>2
<1>5. SocketsOK' /\ JoinedOK'
  BY <1>1, <1>2, <1>4 DEF TypeOK, Good, SocketsOK, JoinedOK
<1>6. OksBacked'
  BY <1>2 DEF Good, OksBacked, Backed
<1>7. UpOK'
  <2> SUFFICES ASSUME NEW r \in Socket, NEW t \in Topic, NEW i \in DOMAIN up'[r][t]
               PROVE  /\ up'[r][t][i].kind = "phx_join" => up'[r][t][i].ref # None
                      /\ up'[r][t][i].kind = "broadcast" => <<r, t, up'[r][t][i].ref>> \in accepted'
    BY DEF UpOK
  <2>1. CASE r # s
    <3>1. up'[r] = up[r]
      BY <1>1, <2>1 DEF TypeOK, OnOpen
    <3> QED
      BY <1>2, <3>1 DEF Good, UpOK
  <2>2. CASE r = s
    <3>1. up'[s][t] = (IF Rejoins(chan[t]) THEN <<JoinFrame>> ELSE <<>>) \o buffer[t]
      BY <1>1 DEF TypeOK, OnOpen
    <3>2. up'[s][t] = <<JoinFrame>> \/ up'[s][t] = <<>>
      <4>1. CASE Rejoins(chan[t])
        <5>1. <<JoinFrame>> \in Seq({JoinFrame})
          OBVIOUS
        <5>2. up'[s][t] = <<JoinFrame>> \o <<>>
          BY <1>3, <3>1, <4>1
        <5> QED
          BY <5>1, <5>2, ConcatEmptySeq
      <4>2. CASE ~Rejoins(chan[t])
        BY <1>3, <3>1, <4>2
      <4> QED
        BY <4>1, <4>2
    <3>3. up'[s][t][i] = JoinFrame
      BY <2>2, <3>2
    <3>4. lastRef + 1 # None
      BY DEF TypeOK, None
    <3> QED
      BY <2>2, <3>3, <3>4 DEF JoinFrame, Frame
  <2> QED
    BY <2>1, <2>2
<1> QED
  BY <1>5, <1>6, <1>7 DEF Good

LEMMA GOnClose == ASSUME SInv, Good, NEW s \in Socket, OnClose(s) PROVE Good'
<1> USE DEF SInv
<1>1. ws = s
  BY DEF OnClose, Good, SocketsOK
<1>2. /\ ws' = None /\ state' = "disconnected" /\ link' = [link EXCEPT ![s] = "closed"]
      /\ CloseChannels /\ ClearBuffer /\ UNCHANGED <<up, down, joins, accepted>>
  BY <1>1 DEF OnClose, serverVars
<1>3. \A t \in Topic : chan'[t].state # "joined" /\ buffer'[t] = <<>>
  BY <1>2, Closed
<1>4. \A r \in Socket : link'[r] \in {"none", "closed"}
  BY <1>1, <1>2 DEF TypeOK, Good, SocketsOK
<1>5. SocketsOK' /\ JoinedOK'
  BY <1>2, <1>3, <1>4 DEF SocketsOK, JoinedOK
<1>6. OksBacked' /\ UpOK'
  BY <1>2 DEF Good, OksBacked, UpOK, Backed
<1> QED
  BY <1>5, <1>6 DEF Good

LEMMA GBreak == ASSUME SInv, Good, NEW s \in Socket, Break(s) PROVE Good'
<1> USE DEF SInv
<1>1. PICK how \in {"lost", "silent"} :
        /\ End(s, how)
        /\ how = "silent" => link[s] = "open"
        /\ link[s] \in {"opening", "open", "silent"}
  BY DEF Break, Lose, FallSilent
<1>2. link' = [link EXCEPT ![s] = how] /\ UNCHANGED <<state, ws, reconnecting, chan, buffer>>
  BY <1>1 DEF Break, End, clientVars, timerVars, channelVars
<1>3. OksBacked' /\ UpOK'
  BY <1>1, GEnd
<1>4. SocketsOK'
  BY <1>1, <1>2 DEF TypeOK, Good, SocketsOK
<1>5. JoinedOK'
  <2>1. ws = s
    BY <1>1 DEF Good, SocketsOK
  <2>2. link'[ws'] # "open"
    BY <1>1, <1>2, <2>1 DEF TypeOK
  <2> QED
    BY <2>2 DEF JoinedOK
<1> QED
  BY <1>3, <1>4, <1>5 DEF Good

-----------------------------------------------------------------------------
(* Frames to the server *)

\* A frame is written that may go up.
LEMMA GWrite ==
  ASSUME TypeOK, Good, NEW t \in Topic, NEW f, ws \in Socket, Write(ws, t, f),
         f.kind = "phx_join" => f.ref # None,
         f.kind = "broadcast" /\ link[ws] = "open" => <<ws, t, f.ref>> \in accepted,
         accepted' = accepted
  PROVE  UpOK'
<1>1. CASE link[ws] # "open"
  BY <1>1 DEF Write, Good, UpOK
<1>2. CASE link[ws] = "open"
  <2> DEFINE q == up[ws][t]
  <2>1. q \in Seq(FrameOf(Upward)) /\ up'[ws][t] = Append(q, f)
    BY <1>2, WireOK DEF Write, Wire
  <2>2. \A r \in Socket, u \in Topic : <<r, u>> # <<ws, t>> => up'[r][u] = up[r][u]
    BY <1>2, WireOK DEF Write, Wire
  <2>3. \A i \in DOMAIN up'[ws][t] : up'[ws][t][i] = f \/ (i \in DOMAIN q /\ up'[ws][t][i] = q[i])
    BY <2>1
  <2> SUFFICES ASSUME NEW r \in Socket, NEW u \in Topic, NEW i \in DOMAIN up'[r][u]
               PROVE  /\ up'[r][u][i].kind = "phx_join" => up'[r][u][i].ref # None
                      /\ up'[r][u][i].kind = "broadcast" => <<r, u, up'[r][u][i].ref>> \in accepted'
    BY DEF UpOK
  <2>4. CASE <<r, u>> # <<ws, t>>
    BY <2>2, <2>4 DEF Good, UpOK
  <2>5. CASE <<r, u>> = <<ws, t>>
    BY <1>2, <2>3, <2>5 DEF Good, UpOK
  <2> QED
    BY <2>4, <2>5
<1> QED
  BY <1>1, <1>2

\* Only one topic's channel changes, and it does not become joined.
LEMMA GChannel ==
  ASSUME TypeOK, Good, NEW t \in Topic, NEW c, chan' = [chan EXCEPT ![t] = c],
         c.state = "joined" => chan[t].state = "joined" /\ c.joinRef = chan[t].joinRef,
         UNCHANGED <<state, ws, reconnecting, buffer, link, down, joins, accepted>>
  PROVE  SocketsOK' /\ OksBacked' /\ JoinedOK'
<1>1. \A u \in Topic : chan'[u].state = "joined" =>
        chan[u].state = "joined" /\ chan'[u].joinRef = chan[u].joinRef
  BY DEF TypeOK
<1>2. SocketsOK'
  BY <1>1 DEF Good, SocketsOK
<1>3. OksBacked'
  BY DEF Good, OksBacked, Backed
<1>4. JoinedOK'
  BY <1>1 DEF Good, JoinedOK, Backed
<1> QED
  BY <1>2, <1>3, <1>4

LEMMA GSubscribe == ASSUME SInv, Good, NEW t \in Topic, Subscribe(t) PROVE Good'
<1> USE DEF SInv
<1> DEFINE c == [chan[t] EXCEPT !.wantsJoin = TRUE, !.waiting = @ \/ chan[t].state # "joined"]
<1>1. chan[t] \in Chan /\ lastRef \in Nat
  BY DEF TypeOK, Chan
<1>2. c \in Chan /\ c.state = chan[t].state /\ c.joinRef = chan[t].joinRef /\ Joining(c).state = "joining"
  BY <1>1, ChanType DEF Chan, Joining
<1>3. UNCHANGED <<state, ws, reconnecting, buffer, link, down, joins, accepted>>
  BY DEF Subscribe, clientVars, timerVars, serverVars
<1>4. CASE IsOpen /\ chan' = [chan EXCEPT ![t] = Joining(c)] /\ Write(ws, t, JoinFrame)
  <2>1. SocketsOK' /\ OksBacked' /\ JoinedOK'
    BY <1>2, <1>3, <1>4, GChannel
  <2>2. JoinFrame.kind = "phx_join" /\ JoinFrame.ref # None /\ ws \in Socket
    BY <1>1, <1>4 DEF JoinFrame, Frame, None, TypeOK, IsOpen, Open
  <2>3. UpOK'
    BY <1>3, <1>4, <2>2, GWrite
  <2> QED
    BY <2>1, <2>3 DEF Good
<1>5. CASE chan' = [chan EXCEPT ![t] = c] /\ up' = up
  <2>1. SocketsOK' /\ OksBacked' /\ JoinedOK'
    BY <1>2, <1>3, <1>5, GChannel
  <2>2. UpOK'
    BY <1>3, <1>5 DEF Good, UpOK
  <2> QED
    BY <2>1, <2>2 DEF Good
<1> QED
  BY <1>4, <1>5 DEF Subscribe

LEMMA GUnsubscribe == ASSUME SInv, Good, NEW t \in Topic, Unsubscribe(t) PROVE Good'
<1> USE DEF SInv
<1>1. /\ UNCHANGED <<state, ws, reconnecting, buffer, link, down, joins, accepted>>
      /\ chan' = [chan EXCEPT ![t] = NewChannel]
  BY DEF Unsubscribe, clientVars, timerVars, serverVars
<1>2. SocketsOK' /\ OksBacked' /\ JoinedOK'
  BY <1>1, GChannel DEF NewChannel
<1>3. UpOK'
  <2>1. CASE IsOpen /\ Write(ws, t, Frame("phx_leave", chan[t].joinRef))
    BY <1>1, <2>1, GWrite DEF Frame, TypeOK, IsOpen, Open
  <2>2. CASE up' = up
    BY <1>1, <2>2 DEF Good, UpOK
  <2> QED
    BY <2>1, <2>2 DEF Unsubscribe
<1> QED
  BY <1>2, <1>3 DEF Good

\* A message goes out under the join of the present socket; none is buffered,
\* for a channel is joined only while the socket is there.
LEMMA GSend == ASSUME SInv, Good, NEW t \in Topic, Send(t) PROVE Good'
<1> USE DEF SInv
<1>1. /\ UNCHANGED <<state, ws, reconnecting, chan, link, down, joins, accepted>>
      /\ chan[t].state = "joined"
  BY DEF Send, clientVars, timerVars, serverVars
<1>2. SocketsOK' /\ OksBacked' /\ JoinedOK'
  BY <1>1 DEF Good, SocketsOK, OksBacked, JoinedOK, Backed
<1>3. UpOK'
  <2>1. CASE IsOpen /\ Write(ws, t, Frame("broadcast", chan[t].joinRef))
    <3>1. ws \in Socket
      BY <2>1 DEF TypeOK, IsOpen, Open
    <3>2. link[ws] = "open" => <<ws, t, chan[t].joinRef>> \in accepted
      BY <1>1 DEF Good, JoinedOK
    <3> QED
      BY <1>1, <2>1, <3>1, <3>2, GWrite DEF Frame
  <2>2. CASE up' = up
    BY <1>1, <2>2 DEF Good, UpOK
  <2> QED
    BY <2>1, <2>2 DEF Send
<1> QED
  BY <1>2, <1>3 DEF Good

-----------------------------------------------------------------------------
(* Frames from the server *)

\* The frame read is the first of its queue: what followed it still follows.
LEMMA GOnMessage ==
  ASSUME SInv, Good, NEW s \in Socket, NEW t \in Topic, OnMessage(s, t) PROVE Good'
<1> USE DEF SInv
<1> DEFINE q == down[s][t]  f == Head(q)
<1>1. s = ws /\ state = "connected" /\ link[s] = "open"
  BY DEF OnMessage, Good, SocketsOK
<1>2. UNCHANGED <<state, ws, reconnecting, buffer, link, up, joins, accepted>>
  BY DEF OnMessage, clientVars, timerVars, serverVars
<1>3. /\ q \in Seq(FrameOf(Downward)) /\ q # <<>>
      /\ down'[s][t] = Tail(q)
      /\ \A r \in Socket, u \in Topic : <<r, u>> # <<s, t>> => down'[r][u] = down[r][u]
  BY WireOK DEF OnMessage, Wire
<1>4. /\ f = q[1] /\ 1 \in DOMAIN q /\ f \in FrameOf(Downward)
      /\ DOMAIN Tail(q) = 1 .. Len(q) - 1 /\ DOMAIN q = 1 .. Len(q)
      /\ \A i \in DOMAIN Tail(q) : Tail(q)[i] = q[i + 1]
  BY <1>3
<1>5. ASSUME NEW r, NEW i \in Nat, Backed(s, t, r, i + 1) PROVE Backed(s, t, r, i)'
  <2>1. CASE joins[s][t] = r
    BY <1>2, <2>1 DEF Backed
  <2>2. CASE \E j \in DOMAIN q : j > i + 1 /\ q[j] \in Ends(r)
    <3>1. PICK j \in DOMAIN q : j > i + 1 /\ q[j] \in Ends(r)
      BY <2>2
    <3>2. j \in Nat /\ j - 1 \in DOMAIN Tail(q) /\ Tail(q)[j - 1] = q[j] /\ j - 1 > i
      BY <1>3, <1>4, <3>1
    <3> HIDE DEF q
    <3>3. \E k \in DOMAIN down'[s][t] : k > i /\ down'[s][t][k] \in Ends(r)
      BY <1>3, <3>1, <3>2
    <3> QED
      BY <3>3 DEF Backed, Ends
  <2> QED
    BY <1>5, <2>1, <2>2 DEF Backed
<1>6. OksBacked'
  <2> SUFFICES ASSUME NEW r \in Socket, NEW u \in Topic, NEW i \in DOMAIN down'[r][u],
                      down'[r][u][i].kind = "ok"
               PROVE  /\ down'[r][u][i].ref # None
                      /\ <<r, u, down'[r][u][i].ref>> \in accepted'
                      /\ Backed(r, u, down[r][u][i].ref, i)'
    BY DEF OksBacked
  <2>1. CASE <<r, u>> # <<s, t>>
    BY <1>2, <1>3, <2>1 DEF Good, OksBacked, Backed
  <2>2. CASE <<r, u>> = <<s, t>>
    <3>1. i \in Nat /\ i + 1 \in DOMAIN q /\ down'[s][t][i] = q[i + 1]
      <4>1. r = s /\ u = t /\ i \in DOMAIN Tail(q)
        BY <1>3, <2>2
      <4>2. Len(q) \in Nat
        BY <1>3
      <4> HIDE DEF q
      <4> QED
        BY <1>3, <1>4, <4>1, <4>2
    <3>2. /\ q[i + 1].ref # None /\ <<s, t, q[i + 1].ref>> \in accepted
          /\ Backed(s, t, q[i + 1].ref, i + 1)
      BY <2>2, <3>1 DEF Good, OksBacked
    <3>3. Backed(s, t, down[s][t][i].ref, i)'
      BY <1>5, <3>1, <3>2
    <3> QED
      BY <1>2, <2>2, <3>1, <3>2, <3>3
  <2> QED
    BY <2>1, <2>2
<1>7. JoinedOK'
  <2> SUFFICES ASSUME NEW u \in Topic, chan'[u].state = "joined"
               PROVE  /\ chan'[u].joinRef # None
                      /\ <<s, u, chan'[u].joinRef>> \in accepted
                      /\ Backed(s, u, chan[u].joinRef, 0)'
    BY <1>1, <1>2 DEF JoinedOK
  <2>1. CASE u # t
    <3>1. chan'[u] = chan[u] /\ down'[s][u] = down[s][u]
      BY <1>3, <2>1 DEF TypeOK, OnMessage
    <3> QED
      BY <1>1, <1>2, <2>1, <3>1 DEF Good, JoinedOK, Backed
  <2>2. CASE u = t
    <3>1. chan[t] \in Chan /\ chan'[t] = Received(chan[t], f)
      BY DEF TypeOK, Chan, OnMessage
    <3>2. chan'[t].state = "joined"
      BY <2>2
    <3>3. f.kind \in {"ok", "error"} /\ chan'[t] = JoinReplied(chan[t], f)
      <4>1. f.kind \in {"ok", "error", "phx_close", "phx_error"}
        BY <1>4 DEF FrameOf, Downward
      <4>2. [chan[t] EXCEPT !.state = "idle"].state = "idle" /\ [chan[t] EXCEPT !.state = "errored"].state = "errored"
        BY <3>1 DEF Chan
      <4> HIDE DEF f
      <4> QED
        BY <3>1, <3>2, <4>1, <4>2 DEF Received
    <3>4. chan'[t].joinRef = chan[t].joinRef
      BY <3>1, <3>3 DEF JoinReplied, Chan
    <3>5. CASE chan[t].joinRef # f.ref \/ f.kind # "ok"
      <4>1. chan[t].state = "joined" /\ f.kind \in {"ok", "error"}
        BY <3>1, <3>2, <3>3, <3>5 DEF JoinReplied, Chan
      <4>2. /\ chan[t].joinRef # None /\ <<s, t, chan[t].joinRef>> \in accepted
            /\ Backed(s, t, chan[t].joinRef, 0)
        BY <1>1, <4>1 DEF Good, JoinedOK
      <4>3. Backed(s, t, chan[t].joinRef, 1)
        <5>1. ASSUME NEW j \in DOMAIN q, q[j] \in Ends(chan[t].joinRef) PROVE j > 1
          <6>1. q[j].kind \in {"phx_close", "phx_error"}
            BY <5>1 DEF Ends, Frame
          <6> QED
            BY <1>4, <4>1, <6>1
        <5> QED
          BY <4>2, <5>1 DEF Backed
      <4>4. Backed(s, t, chan[t].joinRef, 0 + 1)
        BY <4>3
      <4>5. \A r : Backed(s, t, r, 0 + 1) => Backed(s, t, r, 0)'
        BY <1>5
      <4> QED
        BY <2>2, <3>4, <4>2, <4>4, <4>5
    <3>6. CASE chan[t].joinRef = f.ref /\ f.kind = "ok"
      <4>1. f.ref # None /\ <<s, t, f.ref>> \in accepted /\ Backed(s, t, f.ref, 1)
        BY <1>4, <3>6 DEF Good, OksBacked
      <4>2. Backed(s, t, f.ref, 0 + 1)
        BY <4>1
      <4>3. \A r : Backed(s, t, r, 0 + 1) => Backed(s, t, r, 0)'
        BY <1>5
      <4> QED
        BY <2>2, <3>4, <3>6, <4>1, <4>2, <4>3
    <3> QED
      BY <3>5, <3>6
  <2> QED
    BY <2>1, <2>2
<1>8. SocketsOK'
  BY <1>1, <1>2 DEF Good, SocketsOK
<1>9. UpOK'
  BY <1>2 DEF Good, UpOK
<1> QED
  BY <1>6, <1>7, <1>8, <1>9 DEF Good

LEMMA QueueType ==
  ASSUME SInv, NEW s \in Socket, NEW t \in Topic
  PROVE  /\ up[s][t] \in Seq(FrameOf(Upward)) /\ down[s][t] \in Seq(FrameOf(Downward))
         /\ joins[s][t] \in Nat
  BY WireOK DEF SInv, TypeOK, Wire

\* The server takes a frame of a topic or none, ends the join it holds or not, and
\* says so in what it adds to the frames it sends.
Taken(s, t) == up' = up \/ (up[s][t] # <<>> /\ up' = [up EXCEPT ![s][t] = Tail(@)])
Said(s, t, q) == down' = [down EXCEPT ![s][t] = @ \o q]
Holding(s, t, j) == joins' = [joins EXCEPT ![s][t] = j]
Told(s, t, q, j) ==
  /\ \/ joins[s][t] = None \/ joins[s][t] = j
     \/ \E k \in DOMAIN q : q[k] \in Ends(joins[s][t])
  /\ \A k \in DOMAIN q : q[k].kind = "ok" =>
       q[k].ref # None /\ <<s, t, q[k].ref>> \in accepted' /\ j = q[k].ref
ClientSame == UNCHANGED <<state, ws, reconnecting, chan, buffer, link>>

LEMMA GServer ==
  ASSUME SInv, Good, NEW s \in Socket, NEW t \in Topic,
         NEW q \in Seq(FrameOf(Downward)), NEW j \in Nat,
         Taken(s, t), Said(s, t, q), Holding(s, t, j), Told(s, t, q, j),
         accepted \subseteq accepted', ClientSame
  PROVE  Good'
<1> USE DEF SInv, Taken, Said, Holding, Told, ClientSame
<1> DEFINE d == down[s][t]
<1>1. /\ d \in Seq(FrameOf(Downward)) /\ down'[s][t] = d \o q /\ joins'[s][t] = j
      /\ \A r \in Socket, u \in Topic : <<r, u>> # <<s, t>> => down'[r][u] = down[r][u] /\ joins'[r][u] = joins[r][u]
  <2>1. down'[s][t] = d \o q /\ \A r \in Socket, u \in Topic : <<r, u>> # <<s, t>> => down'[r][u] = down[r][u]
    BY WireOK DEF Wire
  <2>2. joins'[s][t] = j /\ \A r \in Socket, u \in Topic : <<r, u>> # <<s, t>> => joins'[r][u] = joins[r][u]
    BY DEF TypeOK
  <2> QED
    BY <2>1, <2>2, WireOK DEF Wire
<1>2. /\ DOMAIN (d \o q) = 1 .. Len(d) + Len(q) /\ Len(d) \in Nat /\ Len(q) \in Nat
      /\ DOMAIN d = 1 .. Len(d) /\ DOMAIN q = 1 .. Len(q)
      /\ \A i \in DOMAIN d : i \in DOMAIN (d \o q) /\ (d \o q)[i] = d[i]
      /\ \A i \in DOMAIN q : Len(d) + i \in DOMAIN (d \o q) /\ (d \o q)[Len(d) + i] = q[i]
      /\ \A i \in DOMAIN (d \o q) : i \notin DOMAIN d =>
           i - Len(d) \in DOMAIN q /\ (d \o q)[i] = q[i - Len(d)]
  <2> HIDE DEF d
  <2> QED
    BY <1>1, ConcatProperties
<1>3. ASSUME NEW r, r # None, NEW i \in Nat, i <= Len(d), Backed(s, t, r, i) PROVE Backed(s, t, r, i)'
  <2>1. CASE \E k \in DOMAIN d : k > i /\ d[k] \in Ends(r)
    <3>1. \E k \in DOMAIN down'[s][t] : k > i /\ down'[s][t][k] \in Ends(r)
      <4> HIDE DEF d
      <4> QED
        BY <1>1, <1>2, <2>1
    <3> QED
      BY <3>1 DEF Backed, Ends
  <2>2. CASE joins[s][t] = r /\ j = r
    BY <1>1, <2>2 DEF Backed
  <2>3. CASE joins[s][t] = r /\ \E k \in DOMAIN q : q[k] \in Ends(r)
    <3>1. PICK k \in DOMAIN q : q[k] \in Ends(r)
      BY <2>3
    <3>2. Len(d) + k \in DOMAIN down'[s][t] /\ down'[s][t][Len(d) + k] \in Ends(r)
      BY <1>1, <1>2, <3>1
    <3>3. Len(d) + k > i
      <4> HIDE DEF d
      <4> QED
        BY <1>2, <1>3, <3>1
    <3>4. \E m \in DOMAIN down'[s][t] : m > i /\ down'[s][t][m] \in Ends(r)
      BY <3>2, <3>3
    <3> QED
      BY <3>4 DEF Backed, Ends
  <2> QED
    BY <1>3, <2>1, <2>2, <2>3 DEF Backed
<1>4. OksBacked'
  <2> SUFFICES ASSUME NEW r \in Socket, NEW u \in Topic, NEW i \in DOMAIN down'[r][u],
                      down'[r][u][i].kind = "ok"
               PROVE  /\ down'[r][u][i].ref # None
                      /\ <<r, u, down'[r][u][i].ref>> \in accepted'
                      /\ Backed(r, u, down[r][u][i].ref, i)'
    BY DEF OksBacked
  <2>1. CASE <<r, u>> # <<s, t>>
    <3>1. down'[r][u] = down[r][u] /\ joins'[r][u] = joins[r][u]
      BY <1>1, <2>1
    <3>2. /\ down[r][u][i].ref # None /\ <<r, u, down[r][u][i].ref>> \in accepted
          /\ Backed(r, u, down[r][u][i].ref, i)
      BY <3>1 DEF Good, OksBacked
    <3> QED
      BY <3>1, <3>2 DEF Backed
  <2>2. CASE <<r, u>> = <<s, t>>
    <3>0. r = s /\ u = t /\ i \in DOMAIN (d \o q) /\ down'[s][t][i] = (d \o q)[i]
      BY <1>1, <2>2
    <3>1. CASE i \in DOMAIN d
      <4>1. down'[s][t][i] = d[i] /\ i \in Nat /\ i <= Len(d)
        BY <1>2, <3>0, <3>1
      <4>2. d[i].ref # None /\ <<s, t, d[i].ref>> \in accepted /\ Backed(s, t, d[i].ref, i)
        BY <3>0, <3>1, <4>1 DEF Good, OksBacked
      <4>3. Backed(s, t, d[i].ref, i)'
        BY <1>3, <4>1, <4>2
      <4> QED
        BY <3>0, <4>1, <4>2, <4>3 DEF Backed
    <3>2. CASE i \notin DOMAIN d
      <4>1. i - Len(d) \in DOMAIN q /\ down'[s][t][i] = q[i - Len(d)]
        BY <1>2, <3>0, <3>2
      <4>2. /\ q[i - Len(d)].ref # None /\ <<s, t, q[i - Len(d)].ref>> \in accepted'
            /\ j = q[i - Len(d)].ref
        BY <3>0, <4>1
      <4> QED
        BY <1>1, <3>0, <4>1, <4>2 DEF Backed
    <3> QED
      BY <3>1, <3>2
  <2> QED
    BY <2>1, <2>2
<1>5. JoinedOK'
  <2> SUFFICES ASSUME NEW u \in Topic, chan[u].state = "joined", link[ws] = "open"
               PROVE  /\ chan[u].joinRef # None
                      /\ <<ws, u, chan[u].joinRef>> \in accepted'
                      /\ Backed(ws, u, chan[u].joinRef, 0)'
    BY DEF JoinedOK
  <2>1. /\ chan[u].joinRef # None /\ <<ws, u, chan[u].joinRef>> \in accepted
        /\ Backed(ws, u, chan[u].joinRef, 0)
    BY DEF Good, JoinedOK
  <2>2. ws \in Socket
    BY <2>1 DEF TypeOK
  <2>3. CASE <<ws, u>> # <<s, t>>
    BY <1>1, <2>1, <2>2, <2>3 DEF Backed
  <2>4. CASE <<ws, u>> = <<s, t>>
    BY <1>2, <1>3, <2>1, <2>4
  <2> QED
    BY <2>1, <2>3, <2>4
<1>6. UpOK'
  <2>1. \A r \in Socket, u \in Topic : \A i \in DOMAIN up'[r][u] :
          \E k \in DOMAIN up[r][u] : up'[r][u][i] = up[r][u][k]
    <3>1. CASE up' = up
      BY <3>1
    <3>2. CASE up[s][t] # <<>> /\ up' = [up EXCEPT ![s][t] = Tail(@)]
      <4>1. /\ up[s][t] \in Seq(FrameOf(Upward)) /\ up'[s][t] = Tail(up[s][t])
            /\ \A r \in Socket, u \in Topic : <<r, u>> # <<s, t>> => up'[r][u] = up[r][u]
        BY <3>2, WireOK DEF Wire
      <4>2. \A i \in DOMAIN Tail(up[s][t]) : i + 1 \in DOMAIN up[s][t] /\ Tail(up[s][t])[i] = up[s][t][i + 1]
        BY <3>2, <4>1
      <4> SUFFICES ASSUME NEW r \in Socket, NEW u \in Topic, NEW i \in DOMAIN up'[r][u]
                   PROVE  \E k \in DOMAIN up[r][u] : up'[r][u][i] = up[r][u][k]
        OBVIOUS
      <4>3. CASE <<r, u>> # <<s, t>>
        <5>1. up'[r][u] = up[r][u]
          BY <4>1, <4>3
        <5> QED
          BY <5>1
      <4>4. CASE <<r, u>> = <<s, t>>
        <5>1. r = s /\ u = t /\ i \in DOMAIN Tail(up[s][t])
          BY <4>1, <4>4
        <5> QED
          BY <4>1, <4>2, <5>1
      <4> QED
        BY <4>3, <4>4
    <3> QED
      BY <3>1, <3>2
  <2> SUFFICES ASSUME NEW r \in Socket, NEW u \in Topic, NEW i \in DOMAIN up'[r][u]
               PROVE  /\ up'[r][u][i].kind = "phx_join" => up'[r][u][i].ref # None
                      /\ up'[r][u][i].kind = "broadcast" => <<r, u, up'[r][u][i].ref>> \in accepted'
    BY DEF UpOK
  <2>2. PICK k \in DOMAIN up[r][u] : up'[r][u][i] = up[r][u][k]
    BY <2>1
  <2> QED
    BY <2>2 DEF Good, UpOK
<1>7. SocketsOK'
  BY DEF Good, SocketsOK
<1> QED
  BY <1>4, <1>5, <1>6, <1>7 DEF Good

\* The server answers a join, and closes the join it replaces after the answer.
LEMMA GTakeJoin ==
  ASSUME SInv, Good, NEW s \in Socket, NEW t \in Topic, Serve(s, t), TakeJoin(s, t) PROVE Good'
<1> USE DEF SInv
<1> DEFINE ref == Head(up[s][t]).ref  old == joins[s][t]
           closes == IF old = None THEN <<>> ELSE <<Frame("phx_close", old)>>
<1>1. /\ up[s][t] \in Seq(FrameOf(Upward)) /\ up[s][t] # <<>> /\ Head(up[s][t]).kind = "phx_join"
      /\ Taken(s, t) /\ old \in Nat /\ down[s][t] \in Seq(FrameOf(Downward))
  BY QueueType DEF TakeJoin, Take, Taken
<1>2. ref \in Nat /\ ref # None
  <2>1. Head(up[s][t]) = up[s][t][1] /\ 1 \in DOMAIN up[s][t] /\ Head(up[s][t]) \in FrameOf(Upward)
    BY <1>1
  <2> QED
    BY <1>1, <2>1 DEF Good, UpOK, FrameOf
<1>3. ClientSame
  BY DEF Serve, clientVars, timerVars, channelVars, ClientSame
<1>4. closes \in Seq(FrameOf(Downward)) /\ \A k \in DOMAIN closes : closes[k].kind = "phx_close"
  <2>1. Frame("phx_close", old) \in FrameOf(Downward) /\ Frame("phx_close", old).kind = "phx_close"
    BY <1>1 DEF Frame, FrameOf, Downward
  <2> HIDE DEF old
  <2> QED
    BY <2>1
<1>5. old # None => \E k \in DOMAIN closes : closes[k] \in Ends(old)
  BY DEF Ends
<1>6. ASSUME NEW f \in FrameOf(Downward), NEW j \in Nat,
             down' = [down EXCEPT ![s][t] = @ \o <<f>> \o closes], Holding(s, t, j),
             accepted \subseteq accepted',
             f.kind = "ok" => f.ref # None /\ <<s, t, f.ref>> \in accepted' /\ j = f.ref
      PROVE  Good'
  <2> DEFINE q == <<f>> \o closes
  <2>1. <<f>> \in Seq(FrameOf(Downward))
    OBVIOUS
  <2> HIDE DEF closes
  <2>2. /\ q \in Seq(FrameOf(Downward)) /\ DOMAIN q = 1 .. 1 + Len(closes) /\ Len(closes) \in Nat
        /\ \A k \in DOMAIN q : q[k] = f \/ (k - 1 \in DOMAIN closes /\ q[k] = closes[k - 1])
        /\ \A k \in DOMAIN closes : k + 1 \in DOMAIN q /\ q[k + 1] = closes[k]
    BY <1>4, <2>1, ConcatProperties
  <2>3. down[s][t] \o <<f>> \o closes = down[s][t] \o q
    <3> DEFINE d == down[s][t]
    <3>1. d \in Seq(FrameOf(Downward))
      BY <1>1
    <3> HIDE DEF d
    <3>2. (d \o <<f>>) \o closes = d \o (<<f>> \o closes)
      BY <1>4, <2>1, <3>1, ConcatAssociative
    <3> QED
      BY <3>2 DEF d
  <2>4. Said(s, t, q)
    BY <1>6, <2>3 DEF Said
  <2>5. old = None \/ \E k \in DOMAIN q : q[k] \in Ends(old)
    BY <1>5, <2>2
  <2>6. \A k \in DOMAIN q : q[k].kind = "ok" => q[k].ref # None /\ <<s, t, q[k].ref>> \in accepted' /\ j = q[k].ref
    BY <1>4, <1>6, <2>2
  <2>7. Told(s, t, q, j)
    BY <2>5, <2>6 DEF Told
  <2> HIDE DEF q
  <2> QED
    BY <1>1, <1>3, <1>6, <2>2, <2>4, <2>7, GServer
<1>7. CASE /\ joins' = [joins EXCEPT ![s][t] = ref] /\ accepted' = accepted \union {<<s, t, ref>>}
           /\ down' = [down EXCEPT ![s][t] = @ \o <<Frame("ok", ref)>> \o closes]
  <2>1. Frame("ok", ref) \in FrameOf(Downward) /\ Frame("ok", ref).ref = ref
    BY <1>2 DEF Frame, FrameOf, Downward
  <2> HIDE DEF ref, closes
  <2> QED
    BY <1>2, <1>6, <1>7, <2>1 DEF Holding
<1>8. CASE /\ joins' = [joins EXCEPT ![s][t] = None] /\ accepted' = accepted
           /\ down' = [down EXCEPT ![s][t] = @ \o <<Frame("error", ref)>> \o closes]
  <2>1. Frame("error", ref) \in FrameOf(Downward) /\ Frame("error", ref).kind = "error" /\ None \in Nat
    BY <1>2 DEF Frame, FrameOf, Downward, None
  <2> HIDE DEF ref, closes
  <2> QED
    BY <1>6, <1>8, <2>1 DEF Holding
<1> QED
  BY <1>7, <1>8 DEF TakeJoin

\* The join the server holds ends, and it says so.
LEMMA GEnded ==
  ASSUME SInv, Good, NEW s \in Socket, NEW t \in Topic, NEW kind \in {"phx_close", "phx_error"},
         down' = [down EXCEPT ![s][t] = Append(@, Frame(kind, joins[s][t]))],
         joins' = [joins EXCEPT ![s][t] = None],
         UNCHANGED <<state, ws, reconnecting, chan, buffer, link, up, accepted>>
  PROVE  Good'
<1> DEFINE f == Frame(kind, joins[s][t])  q == <<f>>
<1>1. joins[s][t] \in Nat /\ down[s][t] \in Seq(FrameOf(Downward))
  BY QueueType
<1>2. f \in FrameOf(Downward) /\ f.kind # "ok" /\ f \in Ends(joins[s][t])
  BY <1>1 DEF Frame, FrameOf, Downward, Ends
<1>3. ASSUME NEW d \in Seq(FrameOf(Downward)) PROVE Append(d, f) = d \o q
  <2> HIDE DEF f
  <2> QED
    BY <1>2, <1>3, AppendIsConcat
<1>4. Said(s, t, q)
  BY <1>1, <1>3 DEF Said
<1>5. q \in Seq(FrameOf(Downward)) /\ None \in Nat /\ Told(s, t, q, None)
  <2> HIDE DEF f
  <2> QED
    BY <1>2 DEF Told, None
<1>6. Holding(s, t, None) /\ Taken(s, t) /\ accepted \subseteq accepted' /\ ClientSame
  BY DEF Holding, Taken, ClientSame
<1> HIDE DEF q
<1> QED
  BY <1>4, <1>5, <1>6, GServer

\* A frame is taken off the queue and nothing said.
LEMMA GTaken ==
  ASSUME SInv, Good, NEW s \in Socket, NEW t \in Topic,
         up[s][t] # <<>>, up' = [up EXCEPT ![s][t] = Tail(@)],
         UNCHANGED <<state, ws, reconnecting, chan, buffer, link, down, joins, accepted>>
  PROVE  Good'
<1>1. joins[s][t] \in Nat /\ <<>> \in Seq(FrameOf(Downward))
  BY QueueType
<1>2. Holding(s, t, joins[s][t])
  BY DEF SInv, TypeOK, Holding
<1>3. Said(s, t, <<>>)
  <2>1. down[s][t] \o <<>> = down[s][t]
    BY QueueType, ConcatEmptySeq
  <2> QED
    BY <2>1, WireOK DEF SInv, Wire, Said
<1>4. Taken(s, t) /\ Told(s, t, <<>>, joins[s][t]) /\ accepted \subseteq accepted' /\ ClientSame
  BY DEF Taken, Told, ClientSame
<1> QED
  BY <1>1, <1>2, <1>3, <1>4, GServer

LEMMA GServe == ASSUME SInv, Good, NEW s \in Socket, NEW t \in Topic, Serve(s, t) PROVE Good'
<1>1. UNCHANGED <<state, ws, reconnecting, chan, buffer, link>>
  BY DEF Serve, clientVars, timerVars, channelVars
<1>2. CASE TakeJoin(s, t)
  BY <1>2, GTakeJoin
<1>3. CASE TakeLeave(s, t) \/ TakeBroadcast(s, t)
  BY <1>1, <1>3, GTaken DEF TakeLeave, TakeBroadcast, Take
<1>4. CASE CloseLeft(s, t)
  BY <1>1, <1>4, GEnded DEF CloseLeft
<1> QED
  BY <1>2, <1>3, <1>4 DEF Serve

LEMMA GCrash == ASSUME SInv, Good, NEW s \in Socket, NEW t \in Topic, ChannelCrash(s, t) PROVE Good'
  BY GEnded DEF ChannelCrash, clientVars, timerVars, channelVars

-----------------------------------------------------------------------------
(* The invariant and what follows from it *)

LEMMA GNext == ASSUME SInv, Good, [Next]_vars, ~doubled' PROVE Good'
<1>1. CASE Next
  BY <1>1, GConnect, GDisconnect, GCheck, GReconnectTimer, GBeat, GDeadline, GOnOpen, GOnClose, GBreak,
     GOnMessage, GServe, GCrash, GSubscribe, GUnsubscribe, GSend DEF Next, Timers
<1>2. CASE UNCHANGED vars
  BY <1>2, GIdle DEF vars, clientVars, timerVars, channelVars, netVars, serverVars, Idle
<1> QED
  BY <1>1, <1>2

JoinInv == SInv /\ (~doubled => Good)

LEMMA JInvariant == Spec => []JoinInv
<1>1. Init => JoinInv
  BY SInit, GInit DEF JoinInv
<1>2. JoinInv /\ [Next]_vars => JoinInv'
  <2> SUFFICES ASSUME JoinInv, [Next]_vars PROVE SInv' /\ (~doubled' => Good')
    BY DEF JoinInv
  <2>1. SInv'
    BY SNext DEF JoinInv
  <2>2. ASSUME ~doubled' PROVE Good'
    BY <2>2, Undoubled, GNext DEF JoinInv, SInv
  <2> QED
    BY <2>1, <2>2
<1> QED
  BY <1>1, <1>2, PTL DEF Spec

\* A channel that counts as joined is known to the server, or the word that it
\* is not is on its way, as long as the application does not call connect()
\* during a reconnection (client.ts 81, 222, 413; channel.ts 349).
THEOREM JoinedCorrect == Spec => []JoinedIsKnown
<1>1. JoinInv => JoinedIsKnown
  <2> SUFFICES ASSUME JoinInv, ~doubled, NEW t \in Topic, chan[t].state = "joined", link[ws] = "open"
               PROVE  \/ joins[ws][t] = chan[t].joinRef /\ joins[ws][t] # None
                      \/ \E i \in DOMAIN down[ws][t] :
                           down[ws][t][i] \in {Frame("phx_close", chan[t].joinRef), Frame("phx_error", chan[t].joinRef)}
    BY DEF JoinedIsKnown, NoDeadTopic
  <2> QED
    BY DEF JoinInv, Good, JoinedOK, Backed, Ends
<1> QED
  BY <1>1, JInvariant, PTL

\* Nor does a message reach the server on a socket its join was not accepted on
\* (client.ts 224, 252).
THEOREM SendsCorrect == Spec => SendsLand
<1>1. JoinInv /\ [Next]_vars =>
        [\A s \in Socket, t \in Topic :
           TakeBroadcast(s, t) => doubled \/ <<s, t, Head(up[s][t]).ref>> \in accepted]_vars
  <2> SUFFICES ASSUME JoinInv, NEW s \in Socket, NEW t \in Topic, TakeBroadcast(s, t), ~doubled
               PROVE  <<s, t, Head(up[s][t]).ref>> \in accepted
    OBVIOUS
  <2>1. up[s][t] \in Seq(FrameOf(Upward)) /\ up[s][t] # <<>> /\ Head(up[s][t]).kind = "broadcast"
    BY WireOK DEF JoinInv, SInv, TakeBroadcast, Take, Wire
  <2>2. Head(up[s][t]) = up[s][t][1] /\ 1 \in DOMAIN up[s][t]
    BY <2>1
  <2> QED
    BY <2>1, <2>2 DEF JoinInv, Good, UpOK
<1> QED
  BY <1>1, JInvariant, PTL DEF Spec, SendsLand
=============================================================================
