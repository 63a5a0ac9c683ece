------------------------------ MODULE GoChannel ------------------------------
(***************************************************************************)
(* A Channel of the Go SDK (channel.go) among the goroutines that use it:  *)
(* those of the application, the read loop with its reconnections, and one *)
(* goroutine per reconnection that rejoins.                                *)
(*                                                                          *)
(* An action is a critical section of the channel's mu with what is private *)
(* to its goroutine around it, or a write, or a wait that ends.  A write    *)
(* takes the socket that is in use when it happens: a socket that was       *)
(* replaced since would fail it, as no socket does.  The first Connect has  *)
(* returned.  Phoenix is external, as in JsClient: a second join is         *)
(* answered before the phx_close of the first.  The socket only forwards a  *)
(* push: the channel process answers it, unless it crashes or leaves first. *)
(***************************************************************************)
EXTENDS Naturals, Sequences, Functions

CONSTANTS
  Caller,      \* goroutines of the application
  MaxSockets,  \* bound: sockets opened
  MaxUpsets,   \* bound: broken sockets, crashed channels, contexts that end
  MaxCalls     \* bound: calls of the application

ASSUME ConstAssumption ==
  /\ MaxSockets \in Nat \ {0} /\ MaxUpsets \in Nat /\ MaxCalls \in Nat
  /\ Caller \cap (1 .. MaxSockets) = {}

Socket == 1 .. MaxSockets
MaxRefs == MaxCalls + MaxSockets     \* bound: one per call, one per rejoin
Ref == 1 .. MaxRefs
None == 0                        \* nil
Goroutine == Caller \union Socket   \* the rejoin of each socket has its number

VARIABLES
  state, joinRef, wantsJoin,   \* Channel
  replies,     \* Channel.replies: the refs that have a Go channel
  box,         \* what was put in the Go channel of each ref
  go,          \* where each goroutine is
  reader,      \* where the read loop is
  conn,        \* Client.conn
  done,        \* Disconnect: no, detached (conn is nil), cancelled
  lastRef, opened,
  link,        \* each socket: none, open, lost, closed
  up, down,    \* frames under way to and from the server
  member,      \* the join the server holds, by socket
  leaving,     \* sockets whose join is being left
  inbox,       \* pushes the channel process holds, by socket
  unanswered,  \* history: pushes nobody answers any more, by socket that is still open
  accepted,    \* history: <<socket, join>> pairs the server accepted
  twice,       \* history: a Go channel of replies was closed or sent to again
  stranded,    \* history: goroutines that wrote where nobody reads any more
  upsets, calls

chanVars == <<state, joinRef, wantsJoin>>
replyVars == <<replies, box, twice>>
serverVars == <<member, leaving, accepted, inbox, unanswered>>
netVars == <<opened, link, up, down, serverVars>>
vars == <<chanVars, replyVars, go, reader, conn, done, lastRef, netVars, stranded, upsets, calls>>

Upset == upsets < MaxUpsets /\ upsets' = upsets + 1
Call == calls < MaxCalls /\ calls' = calls + 1
NextRef == lastRef < MaxRefs /\ lastRef' = lastRef + 1

Frame(kind, ref, joinref) == [kind |-> kind, ref |-> ref, joinref |-> joinref]
Kind == {"phx_join", "phx_leave", "push", "broadcast", "ok", "error", "phx_close", "phx_error"}

AtGo == {"idle", "checking", "rejoining", "registering", "writing", "failed", "waiting", "closing"}
AtReader == {"reading", "marking", "dropping", "redialing", "ended"}
Idle == [at |-> "idle", kind |-> "push", ref |-> None, joinref |-> None]

Init ==
  /\ state = "idle" /\ joinRef = None /\ wantsJoin = FALSE
  /\ replies = {} /\ box = [r \in Ref |-> "none"] /\ twice = FALSE
  /\ go = [p \in Goroutine |-> Idle]
  /\ reader = [at |-> "reading", sock |-> 1] /\ conn = 1 /\ done = "no"
  /\ lastRef = 0 /\ opened = 1
  /\ link = [s \in Socket |-> IF s = 1 THEN "open" ELSE "none"]
  /\ up = [s \in Socket |-> <<>>] /\ down = up
  /\ member = [s \in Socket |-> None] /\ leaving = {} /\ accepted = {}
  /\ inbox = [s \in Socket |-> <<>>] /\ unanswered = [s \in Socket |-> {}]
  /\ stranded = {} /\ upsets = 0 /\ calls = 0

GoTo(p, place) == go' = [go EXCEPT ![p].at = place]
Return(p) == go' = [go EXCEPT ![p] = Idle]
Writing(p, kind, ref, joinref) ==
  go' = [go EXCEPT ![p] = [at |-> "writing", kind |-> kind, ref |-> ref, joinref |-> joinref]]

-----------------------------------------------------------------------------
(* Subscribe and rejoin, up to their write *)

UnderWay == state \in {"joined", "joining"}

Join(p) ==
  /\ wantsJoin' = TRUE
  /\ \/ UnderWay /\ Return(p) /\ UNCHANGED <<state, joinRef, replies, lastRef>>
     \/ /\ ~UnderWay
        /\ NextRef /\ joinRef' = lastRef + 1
        /\ state' = "joining" /\ replies' = replies \union {lastRef + 1}
        /\ Writing(p, "phx_join", lastRef + 1, lastRef + 1)
  /\ UNCHANGED <<box, twice, reader, conn, done, netVars, stranded, upsets>>

Subscribe(p) == Call /\ go[p].at = "idle" /\ Join(p)

\* rejoin() reads under one lock and Subscribe writes under another.
RejoinCheck(s) ==
  /\ go[s].at = "checking"
  /\ IF wantsJoin /\ ~UnderWay THEN GoTo(s, "rejoining") ELSE Return(s)
  /\ UNCHANGED <<chanVars, replyVars, reader, conn, done, lastRef, netVars, stranded, upsets, calls>>

Rejoin(s) == go[s].at = "rejoining" /\ Join(s) /\ UNCHANGED calls

-----------------------------------------------------------------------------
(* Unsubscribe, Send, SendBinary and request, up to their write *)

Unsubscribe(p) ==
  /\ Call /\ go[p].at = "idle"
  /\ wantsJoin' = FALSE /\ state' = "idle" /\ joinRef' = None
  /\ \/ state = "joined" /\ NextRef /\ Writing(p, "phx_leave", lastRef + 1, joinRef)
     \/ state # "joined" /\ UNCHANGED <<lastRef, go>>
  /\ UNCHANGED <<replyVars, reader, conn, done, netVars, stranded, upsets>>

Send(p) ==
  /\ Call /\ go[p].at = "idle" /\ state = "joined"
  /\ NextRef /\ Writing(p, "broadcast", lastRef + 1, joinRef)
  /\ UNCHANGED <<chanVars, replyVars, reader, conn, done, netVars, stranded, upsets>>

Request(p) ==
  /\ Call /\ go[p].at = "idle" /\ state = "joined"
  /\ NextRef
  /\ go' = [go EXCEPT ![p] = [at |-> "registering", kind |-> "push", ref |-> lastRef + 1, joinref |-> joinRef]]
  /\ UNCHANGED <<chanVars, replyVars, reader, conn, done, netVars, stranded, upsets>>

Register(p) ==
  /\ go[p].at = "registering"
  /\ replies' = replies \union {go[p].ref} /\ GoTo(p, "writing")
  /\ UNCHANGED <<chanVars, box, twice, reader, conn, done, lastRef, netVars, stranded, upsets, calls>>

-----------------------------------------------------------------------------
(* The write, and what comes of it *)

Replied(kind) == kind \in {"phx_join", "push"}
NobodyReads == reader.at \in {"dropping", "ended"}

\* sendFn: a write to a broken socket may still succeed.
Write(p) ==
  /\ go[p].at = "writing"
  /\ LET f == Frame(go[p].kind, go[p].ref, go[p].joinref) IN
     \/ /\ conn \in {s \in Socket : link[s] \in {"open", "lost"}}
        /\ up' = IF link[conn] = "open" THEN [up EXCEPT ![conn] = Append(@, f)] ELSE up
        /\ IF Replied(f.kind) THEN GoTo(p, "waiting") ELSE Return(p)
        /\ stranded' = IF NobodyReads THEN stranded \union {p} ELSE stranded
     \/ /\ conn \notin {s \in Socket : link[s] = "open"}
        /\ IF Replied(f.kind) THEN GoTo(p, "failed") ELSE Return(p)
        /\ UNCHANGED <<up, stranded>>
  /\ UNCHANGED <<chanVars, replyVars, reader, conn, done, lastRef, opened, link, down, serverVars, upsets, calls>>

WriteFailed(p) ==
  /\ go[p].at = "failed"
  /\ replies' = replies \ {go[p].ref} /\ Return(p)
  /\ state' = IF go[p].kind = "phx_join" THEN "errored" ELSE state
  /\ UNCHANGED <<joinRef, wantsJoin, box, twice, reader, conn, done, lastRef, netVars, stranded, upsets, calls>>

MutGivenUp == state                       \* mutant: a join that timed out stays under way
GivenUp == IF state = "joining" THEN "idle" ELSE state

\* <-ctx.Done(), of the caller's context or, in a rejoin, of the client's.
ContextEnds(p) ==
  /\ go[p].at = "waiting"
  /\ IF p \in Caller THEN Upset ELSE done = "cancelled" /\ UNCHANGED upsets
  /\ replies' = replies \ {go[p].ref} /\ Return(p)
  /\ state' = IF go[p].kind = "phx_join" THEN GivenUp ELSE state
  /\ UNCHANGED <<joinRef, wantsJoin, box, twice, reader, conn, done, lastRef, netVars, stranded, calls>>

MutSuperseded(ref) == FALSE               \* mutant: any reply confirms the join
Superseded(ref) == joinRef # ref

\* What a reply, or the closed Go channel of ErrSocketClosed, does to the join.
Outcome(ref) ==
  CASE box[ref] = "error" -> "errored"
    [] box[ref] = "ok" /\ ~Superseded(ref) -> "joined"
    [] OTHER -> state

Answer(p) ==
  /\ go[p].at = "waiting" /\ box[go[p].ref] # "none"
  /\ state' = IF go[p].kind = "phx_join" THEN Outcome(go[p].ref) ELSE state
  /\ Return(p)
  /\ UNCHANGED <<joinRef, wantsJoin, replyVars, reader, conn, done, lastRef, netVars, stranded, upsets, calls>>

-----------------------------------------------------------------------------
(* socketClosed, and the read loop *)

MutRemaining == replies                   \* mutant: the map is kept
Remaining == {}

MutReleased == {}                         \* mutant: nobody is woken
Released == replies

SocketClosed ==
  /\ state' = IF UnderWay THEN "idle" ELSE state
  /\ joinRef' = None /\ UNCHANGED wantsJoin
  /\ replies' = Remaining
  /\ box' = [r \in Ref |-> IF r \in Released THEN "closed" ELSE box[r]]
  /\ twice' = (twice \/ \E r \in Released : box[r] # "none")

\* receive().  A phx_error or phx_close is not compared with joinRef.
Receive ==
  /\ reader.at = "reading" /\ down[reader.sock] # <<>>
  /\ LET f == Head(down[reader.sock])
         known == f.kind \in {"ok", "error"} /\ f.ref \in replies
     IN
     /\ replies' = IF known THEN replies \ {f.ref} ELSE replies
     /\ box' = IF known THEN [box EXCEPT ![f.ref] = f.kind] ELSE box
     /\ twice' = (twice \/ (known /\ box[f.ref] # "none"))
     /\ state' = CASE f.kind = "phx_error" -> "errored"
                   [] f.kind = "phx_close" -> "idle"
                   [] OTHER -> state
  /\ down' = [down EXCEPT ![reader.sock] = Tail(@)]
  /\ UNCHANGED <<joinRef, wantsJoin, go, reader, conn, done, lastRef, opened, link, up, serverVars, stranded, upsets, calls>>

\* A socket ends: nothing under way on it arrives, and the server drops its join.
End(s, how) ==
  /\ link' = IF s = None THEN link ELSE [link EXCEPT ![s] = how]
  /\ up' = IF s = None THEN up ELSE [up EXCEPT ![s] = <<>>]
  /\ down' = IF s = None THEN down ELSE [down EXCEPT ![s] = <<>>]
  /\ member' = IF s = None THEN member ELSE [member EXCEPT ![s] = None]
  /\ leaving' = leaving \ {s}
  /\ inbox' = IF s = None THEN inbox ELSE [inbox EXCEPT ![s] = <<>>]
  /\ unanswered' = IF s = None THEN unanswered ELSE [unanswered EXCEPT ![s] = {}]
  /\ UNCHANGED <<opened, accepted>>

ReadFails ==
  /\ reader.at = "reading" /\ (link[reader.sock] # "open" \/ done = "cancelled")
  /\ reader' = [reader EXCEPT !.at = IF done # "no" THEN "ended" ELSE "marking"]
  /\ UNCHANGED <<chanVars, replyVars, go, conn, done, lastRef, netVars, stranded, upsets, calls>>

Mark ==
  /\ reader.at = "marking" /\ reader' = [reader EXCEPT !.at = "dropping"]
  /\ SocketClosed
  /\ UNCHANGED <<go, conn, done, lastRef, netVars, stranded, upsets, calls>>

Drop ==
  /\ reader.at = "dropping" /\ reader' = [reader EXCEPT !.at = "redialing"]
  /\ conn' = None /\ End(conn, "closed")
  /\ UNCHANGED <<chanVars, replyVars, go, done, lastRef, stranded, upsets, calls>>

\* A redial succeeds, even one that began before Disconnect; or there are no more.
Redial ==
  /\ reader.at = "redialing"
  /\ \/ /\ opened < MaxSockets /\ done # "cancelled"
        /\ opened' = opened + 1 /\ conn' = opened + 1
        /\ link' = [link EXCEPT ![opened + 1] = "open"]
        /\ GoTo(opened + 1, "checking")
        /\ reader' = [at |-> IF done = "no" THEN "reading" ELSE "ended", sock |-> opened + 1]
     \/ /\ reader' = [reader EXCEPT !.at = "ended"]
        /\ UNCHANGED <<opened, conn, link, go>>
  /\ UNCHANGED <<chanVars, replyVars, done, lastRef, up, down, serverVars, stranded, upsets, calls>>

Disconnect(p) ==
  /\ Call /\ go[p].at = "idle" /\ done = "no"
  /\ done' = "detached" /\ conn' = None
  /\ go' = [go EXCEPT ![p].at = "closing", ![p].ref = conn]
  /\ UNCHANGED <<chanVars, replyVars, reader, lastRef, netVars, stranded, upsets>>

Close(p) ==
  /\ go[p].at = "closing"
  /\ done' = "cancelled" /\ SocketClosed
  /\ End(go[p].ref, "closed") /\ Return(p)
  /\ UNCHANGED <<reader, conn, lastRef, stranded, upsets, calls>>

-----------------------------------------------------------------------------
(* The network and the server *)

Break(s) ==
  /\ Upset /\ link[s] = "open" /\ End(s, "lost")
  /\ UNCHANGED <<chanVars, replyVars, go, reader, conn, done, lastRef, stranded, calls>>

Take(s, kind) ==
  /\ up[s] # <<>> /\ Head(up[s]).kind = kind
  /\ up' = [up EXCEPT ![s] = Tail(@)]

Reply(s, kind) == Frame(kind, Head(up[s]).ref, None)
Event(s, kind) == Frame(kind, None, member[s])

\* The channel process is gone, with what it had not answered.
Forsake(s) ==
  /\ inbox' = [inbox EXCEPT ![s] = <<>>]
  /\ unanswered' = [unanswered EXCEPT ![s] = @ \union Range(inbox[s])]

TakeJoin(s) ==
  /\ Take(s, "phx_join")
  /\ LET closes == IF member[s] = None THEN <<>> ELSE <<Event(s, "phx_close")>> IN
     \/ /\ member' = [member EXCEPT ![s] = Head(up[s]).ref]
        /\ accepted' = accepted \union {<<s, Head(up[s]).ref>>}
        /\ down' = [down EXCEPT ![s] = @ \o <<Reply(s, "ok")>> \o closes]
     \/ /\ member' = [member EXCEPT ![s] = None]
        /\ down' = [down EXCEPT ![s] = @ \o <<Reply(s, "error")>> \o closes]
        /\ UNCHANGED accepted
  /\ leaving' = leaving \ {s} /\ Forsake(s)

\* The replies to a leave and to a broadcast are left out: nobody waits for them.
TakeLeave(s) ==
  /\ Take(s, "phx_leave")
  /\ leaving' = IF member[s] = Head(up[s]).joinref THEN leaving \union {s} ELSE leaving
  /\ UNCHANGED <<down, member, accepted, inbox, unanswered>>

\* Without a channel the socket answers itself; one that is leaving takes nothing more.
TakePush(s) ==
  /\ \/ Take(s, "broadcast") /\ UNCHANGED <<down, inbox, unanswered>>
     \/ /\ Take(s, "push") /\ member[s] = None
        /\ down' = [down EXCEPT ![s] = Append(@, Reply(s, "error"))]
        /\ UNCHANGED <<inbox, unanswered>>
     \/ /\ Take(s, "push") /\ member[s] # None /\ s \notin leaving
        /\ inbox' = [inbox EXCEPT ![s] = Append(@, Head(up[s]).ref)]
        /\ UNCHANGED <<down, unanswered>>
     \/ /\ Take(s, "push") /\ member[s] # None /\ s \in leaving
        /\ unanswered' = [unanswered EXCEPT ![s] = @ \union {Head(up[s]).ref}]
        /\ UNCHANGED <<down, inbox>>
  /\ UNCHANGED <<member, leaving, accepted>>

AnswerPush(s) ==
  /\ inbox[s] # <<>>
  /\ inbox' = [inbox EXCEPT ![s] = Tail(@)]
  /\ \E answer \in {"ok", "error"} :
       down' = [down EXCEPT ![s] = Append(@, Frame(answer, Head(inbox[s]), None))]
  /\ UNCHANGED <<up, member, leaving, accepted, unanswered>>

Leave(s, kind) ==
  /\ down' = [down EXCEPT ![s] = Append(@, Event(s, kind))]
  /\ member' = [member EXCEPT ![s] = None] /\ leaving' = leaving \ {s}
  /\ Forsake(s)
  /\ UNCHANGED <<up, accepted>>

\* The pushes that came before a phx_leave are answered before it.
Left(s) == s \in leaving /\ inbox[s] = <<>> /\ Leave(s, "phx_close")

Serve(s) ==
  /\ TakeJoin(s) \/ TakeLeave(s) \/ TakePush(s) \/ AnswerPush(s) \/ Left(s)
  /\ UNCHANGED <<chanVars, replyVars, go, reader, conn, done, lastRef, opened, link, stranded, upsets, calls>>

ChannelCrash(s) ==
  /\ Upset /\ member[s] # None /\ Leave(s, "phx_error")
  /\ UNCHANGED <<chanVars, replyVars, go, reader, conn, done, lastRef, opened, link, stranded, calls>>

-----------------------------------------------------------------------------
CallBegins(p) == Subscribe(p) \/ Unsubscribe(p) \/ Send(p) \/ Request(p) \/ Disconnect(p)
GoesOn(p) == Register(p) \/ Write(p) \/ WriteFailed(p) \/ Answer(p) \/ Close(p)
Rejoining(s) == RejoinCheck(s) \/ Rejoin(s)
ReadLoop == Receive \/ ReadFails \/ Mark \/ Drop \/ Redial

Next ==
  \/ \E p \in Caller : CallBegins(p)
  \/ \E p \in Goroutine : GoesOn(p) \/ ContextEnds(p)
  \/ \E s \in Socket : Rejoining(s) \/ Break(s) \/ Serve(s) \/ ChannelCrash(s)
  \/ ReadLoop

Spec == Init /\ [][Next]_vars

\* Goroutines are scheduled and the server answers.  No context need ever end.
Fairness ==
  /\ \A p \in Goroutine : WF_vars(GoesOn(p))
  /\ \A s \in Socket : WF_vars(Rejoining(s)) /\ WF_vars(Serve(s))
  /\ WF_vars(ReadLoop)

FairSpec == Spec /\ Fairness

-----------------------------------------------------------------------------
Process == [at : AtGo, kind : Kind, ref : Ref \union Socket \union {None}, joinref : Ref \union {None}]
Message == [kind : Kind, ref : Ref \union {None}, joinref : Ref \union {None}]

TypeOK ==
  /\ state \in {"idle", "joining", "joined", "errored"}
  /\ joinRef \in Ref \union {None} /\ {wantsJoin, twice} \subseteq BOOLEAN
  /\ replies \subseteq Ref /\ box \in [Ref -> {"none", "ok", "error", "closed"}]
  /\ go \in [Goroutine -> Process]
  /\ reader \in [at : AtReader, sock : Socket]
  /\ conn \in Socket \union {None} /\ done \in {"no", "detached", "cancelled"}
  /\ lastRef \in Ref \union {0} /\ opened \in Socket
  /\ link \in [Socket -> {"none", "open", "lost", "closed"}]
  /\ up \in [Socket -> Seq(Message)] /\ down \in [Socket -> Seq(Message)]
  /\ member \in [Socket -> Ref \union {None}] /\ leaving \subseteq Socket
  /\ accepted \subseteq Socket \X (Ref \union {None}) /\ stranded \subseteq Goroutine
  /\ inbox \in [Socket -> Seq(Ref \union {None})] /\ unanswered \in [Socket -> SUBSET (Ref \union {None})]
  /\ upsets \in 0 .. MaxUpsets /\ calls \in 0 .. MaxCalls

\* Joined() means that the server confirmed this channel's join on the current
\* socket (channel.go 185-186), whatever replies to older joins still arrive.
JoinedConfirmed == state = "joined" /\ conn # None => <<conn, joinRef>> \in accepted

\* Each Go channel of replies is answered or closed once: a second time would
\* panic, or block the read loop (channel.go 501-515, 570-580).
AnsweredOnce == ~twice

\* A channel that is joining has a goroutine at work on that very join.  One left
\* joining is never joined again: Subscribe and rejoin both return at once
\* (channel.go 197, 524).
JoiningIsAwaited ==
  state = "joining" =>
    \E p \in Goroutine : /\ go[p].at \in {"writing", "failed", "waiting"}
                         /\ go[p].kind = "phx_join" /\ go[p].ref = joinRef

\* The push was lost with its channel process, and its socket is still open.
Forsaken(p) == \E s \in Socket : go[p].kind = "push" /\ go[p].ref \in unanswered[s]

\* Whoever waits for a reply is answered or released, even without a deadline
\* (channel.go 498-500): at the latest when its socket is lost.  Two are not: one
\* that wrote after the channels had been marked, and one whose channel process
\* crashed, was replaced or left before it answered, for as long as the socket
\* stays open: phx_error and phx_close wake nobody (channel.go 585-590).
WaitersReleased ==
  \A p \in Goroutine :
    go[p].at = "waiting" /\ ~Forsaken(p) ~> (go[p].at # "waiting" \/ p \in stranded \/ Forsaken(p))

\* A channel the caller deliberately left is never silently re-joined (channel.go
\* 118-119, 517).
LeftStaysLeft == [][\A s \in Socket : Rejoin(s) => wantsJoin]_vars
=============================================================================
