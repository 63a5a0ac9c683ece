---------------------------- MODULE GoChannel_proofs --------------------------
(***************************************************************************)
(* Proofs about GoChannel, for any number of goroutines and any bounds.     *)
(***************************************************************************)
EXTENDS GoChannel, SequenceTheorems, TLAPS

-----------------------------------------------------------------------------
(* The inductive invariant *)

Busy(p) == go[p].at \in {"registering", "writing", "failed", "waiting"}

\* A ref is one goroutine's, and its Go channel is empty while it is registered.
RefsOK ==
  /\ joinRef \in 0 .. lastRef
  /\ \A r \in replies : r \in 1 .. lastRef /\ box[r] = "none"
  /\ \A r \in Ref : r > lastRef => box[r] = "none"
  /\ \A p \in Goroutine : Busy(p) => go[p].ref \in 1 .. lastRef
  /\ \A p, q \in Goroutine : Busy(p) /\ Busy(q) /\ go[p].ref = go[q].ref => p = q
  /\ \A p \in Goroutine : go[p].at = "registering" => box[go[p].ref] = "none" /\ go[p].ref \notin replies
  /\ AnsweredOnce

\* A socket that was not opened yet has no rejoin.
StartedOK == \A s \in Socket : s > opened => go[s].at = "idle"

\* The Go channel of the present join was not closed.
JoinOK ==
  /\ JoiningIsAwaited
  /\ joinRef # None => box[joinRef] # "closed"
  /\ \A p \in Goroutine : go[p].at = "registering" => go[p].kind = "push"

\* The ref of the present join is in no other frame than its own, nor that of a push
\* the channel process holds, and a reply that
\* accepts it is on a socket where the server did.
WireOK ==
  /\ \A p \in Goroutine : Busy(p) /\ go[p].kind # "phx_join" => go[p].ref # joinRef
  /\ \A s \in Socket : \A f \in Range(up[s]) :
       /\ f.ref <= lastRef
       /\ f.kind # "phx_join" => f.ref # joinRef \/ joinRef = None
  /\ \A s \in Socket : \A f \in Range(down[s]) :
       /\ f.ref <= lastRef
       /\ f.kind = "ok" /\ f.ref = joinRef /\ joinRef # None => <<s, joinRef>> \in accepted
  /\ \A s \in Socket : \A r \in Range(inbox[s]) : r <= lastRef /\ (r # joinRef \/ joinRef = None)

\* Whatever accepts the present join came on the socket in use.
ConfirmedOK ==
  /\ JoinedConfirmed
  /\ joinRef # None /\ box[joinRef] = "ok" /\ conn # None => <<conn, joinRef>> \in accepted
  /\ reader.at = "reading" => conn \in {None, reader.sock}
  /\ reader.at \in {"dropping", "redialing"} =>
       state # "joined" /\ (joinRef # None => box[joinRef] # "ok")

-----------------------------------------------------------------------------
(* Sequences of frames *)

LEMMA Appended ==
  ASSUME NEW b \in Seq(Message), NEW m \in Message
  PROVE  Append(b, m) \in Seq(Message) /\ Range(Append(b, m)) = Range(b) \union {m}
  BY AppendProperties DEF Range

LEMMA Taken ==
  ASSUME NEW b \in Seq(Message), b # <<>>
  PROVE  /\ Tail(b) \in Seq(Message) /\ Head(b) \in Message
         /\ Head(b) \in Range(b) /\ Range(Tail(b)) \subseteq Range(b)
  BY HeadTailProperties DEF Range

LEMMA Joined ==
  ASSUME NEW b \in Seq(Message), NEW m \in Message, NEW c \in Seq(Message)
  PROVE  /\ b \o <<m>> \o c \in Seq(Message)
         /\ Range(b \o <<m>> \o c) = Range(b) \union {m} \union Range(c)
  <1>1. <<m>> \in Seq(Message) /\ Append(b, m) = b \o <<m>>
    BY AppendIsConcat
  <1>2. b \o <<m>> \in Seq(Message) /\ Range(b \o <<m>>) = Range(b) \union {m}
    BY <1>1, Appended
  <1>3. ASSUME NEW d \in Seq(Message)
        PROVE  d \o c \in Seq(Message) /\ Range(d \o c) = Range(d) \union Range(c)
    BY RangeConcatenation, ConcatProperties
  <1> QED
    BY <1>2, <1>3

LEMMA RangeType ==
  ASSUME TypeOK, NEW s \in Socket
  PROVE  Range(up[s]) \subseteq Message /\ Range(down[s]) \subseteq Message
  BY RangeOfSeq DEF TypeOK

\* The pushes that a channel process holds.
Pushes == Seq(Ref \union {None})

LEMMA HeldAppended ==
  ASSUME NEW b \in Pushes, NEW r \in Ref \union {None}
  PROVE  Append(b, r) \in Pushes /\ Range(Append(b, r)) = Range(b) \union {r}
  BY AppendProperties DEF Range, Pushes

LEMMA HeldTaken ==
  ASSUME NEW b \in Pushes, b # << >>
  PROVE  /\ Tail(b) \in Pushes /\ Head(b) \in Ref \union {None}
         /\ Head(b) \in Range(b) /\ Range(Tail(b)) \subseteq Range(b)
  BY HeadTailProperties DEF Range, Pushes

LEMMA NoPushes == << >> \in Pushes /\ Range(<< >>) = {}
  BY DEF Range, Pushes

LEMMA NoFrames == <<>> \in Seq(Message) /\ Range(<<>>) = {}
  BY DEF Range

-----------------------------------------------------------------------------
(* Types *)

LEMMA NumberType ==
  /\ MaxRefs \in Nat /\ Ref \subseteq Nat /\ None \notin Ref /\ None \notin Socket
  /\ 1 \in Socket /\ 0 \in 0 .. MaxUpsets /\ 0 \in 0 .. MaxCalls
  BY ConstAssumption DEF MaxRefs, Ref, Socket, None

LEMMA CountType ==
  ASSUME TypeOK
  PROVE  /\ Upset => upsets' \in 0 .. MaxUpsets
         /\ Call => calls' \in 0 .. MaxCalls
         /\ NextRef => lastRef' \in Ref \union {0} /\ lastRef + 1 \in Ref
         /\ opened < MaxSockets => opened + 1 \in Socket
  <1>1. upsets \in 0 .. MaxUpsets /\ calls \in 0 .. MaxCalls /\ lastRef \in Ref \union {0} /\ opened \in Socket
    BY DEF TypeOK
  <1> QED
    BY <1>1, ConstAssumption, NumberType DEF Upset, Call, NextRef, Ref, Socket

LEMMA IdleType == Idle \in Process
  BY DEF Idle, Process, AtGo, Kind, None

LEMMA GoType ==
  ASSUME TypeOK, NEW p \in Goroutine
  PROVE  /\ Return(p) => go' \in [Goroutine -> Process]
         /\ \A place \in AtGo : GoTo(p, place) => go' \in [Goroutine -> Process]
         /\ \A kind \in Kind, r \in Ref, j \in Ref \union {None} :
              Writing(p, kind, r, j) => go' \in [Goroutine -> Process]
  <1>1. go \in [Goroutine -> Process]
    BY DEF TypeOK
  <1>2. Return(p) => go' \in [Goroutine -> Process]
    BY <1>1, IdleType DEF Return
  <1>3. ASSUME NEW place \in AtGo, GoTo(p, place)
        PROVE  go' \in [Goroutine -> Process]
    <2>1. [go[p] EXCEPT !.at = place] \in Process
      BY <1>1 DEF Process
    <2> QED
      BY <1>1, <1>3, <2>1 DEF GoTo
  <1>4. ASSUME NEW kind \in Kind, NEW r \in Ref, NEW j \in Ref \union {None}, Writing(p, kind, r, j)
        PROVE  go' \in [Goroutine -> Process]
    <2>1. [at |-> "writing", kind |-> kind, ref |-> r, joinref |-> j] \in Process
      BY DEF Process, AtGo
    <2> QED
      BY <1>1, <1>4, <2>1 DEF Writing
  <1> QED
    BY <1>2, <1>3, <1>4

LEMMA Moved ==
  ASSUME TypeOK, NEW p \in Goroutine, NEW place, GoTo(p, place)
  PROVE  /\ go'[p].at = place /\ go'[p].kind = go[p].kind /\ go'[p].ref = go[p].ref
         /\ \A q \in Goroutine : q # p => go'[q] = go[q]
  <1>1. go[p] \in Process /\ go \in [Goroutine -> Process]
    BY DEF TypeOK
  <1>2. go'[p] = [go[p] EXCEPT !.at = place] /\ \A q \in Goroutine : q # p => go'[q] = go[q]
    BY <1>1 DEF GoTo
  <1> QED
    BY <1>1, <1>2 DEF Process

LEMMA FrameType ==
  ASSUME NEW kind \in Kind, NEW r \in Ref \union {None}, NEW j \in Ref \union {None}
  PROVE  Frame(kind, r, j) \in Message
  BY DEF Frame, Message

LEMMA WriteType ==
  ASSUME TypeOK, RefsOK, NEW p \in Goroutine, Busy(p)
  PROVE  /\ go[p].ref \in Ref
         /\ Frame(go[p].kind, go[p].ref, go[p].joinref) \in Message
  <1>1. go[p].ref \in 1 .. lastRef /\ lastRef \in Ref \union {0}
    BY DEF RefsOK, TypeOK
  <1>2. go[p].ref \in Ref
    BY <1>1, NumberType DEF Ref
  <1>3. go[p].kind \in Kind /\ go[p].joinref \in Ref \union {None}
    BY DEF TypeOK, Process
  <1> QED
    BY <1>2, <1>3, FrameType

LEMMA SocketClosedType ==
  ASSUME TypeOK, SocketClosed
  PROVE  /\ state' \in {"idle", "joining", "joined", "errored"} /\ joinRef' = None /\ wantsJoin' = wantsJoin
         /\ replies' = {} /\ box' \in [Ref -> {"none", "ok", "error", "closed"}] /\ twice' \in BOOLEAN
  BY DEF TypeOK, SocketClosed, Remaining, Released

HeldType ==
  /\ inbox \in [Socket -> Pushes]
  /\ unanswered \in [Socket -> SUBSET (Ref \union {None})]

LEMMA ForsakeType ==
  ASSUME TypeOK, NEW s \in Socket, Forsake(s)
  PROVE  HeldType'
  <1>1. inbox[s] \in Pushes
    BY DEF TypeOK, Pushes
  <1>2. Range(inbox[s]) \subseteq Ref \union {None}
    BY <1>1, RangeOfSeq DEF Pushes
  <1> QED
    BY <1>2, NoPushes DEF TypeOK, Forsake, HeldType, Pushes

LEMMA EndType ==
  ASSUME TypeOK, NEW s, NEW how \in {"lost", "closed"}, End(s, how)
  PROVE  /\ link' \in [Socket -> {"none", "open", "lost", "closed"}]
         /\ up' \in [Socket -> Seq(Message)] /\ down' \in [Socket -> Seq(Message)]
         /\ member' \in [Socket -> Ref \union {None}] /\ leaving' \subseteq Socket
         /\ HeldType'
         /\ UNCHANGED <<opened, accepted>>
  <1>1. HeldType'
    BY NoPushes DEF TypeOK, End, HeldType, Pushes
  <1> QED
    BY <1>1, NoFrames DEF TypeOK, End

LEMMA ServerType ==
  ASSUME TypeOK, NEW s \in Socket
  PROVE  /\ \A kind : Take(s, kind) =>
              /\ up' \in [Socket -> Seq(Message)] /\ up[s] # <<>>
              /\ Head(up[s]) \in Message /\ Head(up[s]) \in Range(up[s]) /\ Head(up[s]).kind = kind
         /\ \A kind \in Kind : Event(s, kind) \in Message
         /\ \A kind \in Kind : up[s] # <<>> => Reply(s, kind) \in Message
         /\ \A m \in Message : [down EXCEPT ![s] = Append(@, m)] \in [Socket -> Seq(Message)]
  <1>1. up[s] \in Seq(Message) /\ down[s] \in Seq(Message) /\ member[s] \in Ref \union {None}
    BY DEF TypeOK
  <1>2. up[s] # <<>> => Head(up[s]) \in Message /\ Tail(up[s]) \in Seq(Message) /\ Head(up[s]) \in Range(up[s])
    BY <1>1, Taken
  <1>3. \A kind \in Kind : up[s] # <<>> => Reply(s, kind) \in Message
    BY <1>2, FrameType DEF Reply, Message
  <1>4. \A m \in Message : [down EXCEPT ![s] = Append(@, m)] \in [Socket -> Seq(Message)]
    BY <1>1, Appended DEF TypeOK
  <1>5. \A kind : Take(s, kind) => up' \in [Socket -> Seq(Message)]
    BY <1>2 DEF Take, TypeOK
  <1>6. \A kind \in Kind : Event(s, kind) \in Message
    BY <1>1, FrameType DEF Event
  <1> QED
    BY <1>2, <1>3, <1>4, <1>5, <1>6 DEF Take

LEMMA DetachType ==
  ASSUME TypeOK, NEW p \in Goroutine, go' = [go EXCEPT ![p].at = "closing", ![p].ref = conn]
  PROVE  go' \in [Goroutine -> Process]
  <1>1. go[p] \in Process /\ conn \in Socket \union {None} /\ go \in [Goroutine -> Process]
    BY DEF TypeOK
  <1>2. [go[p] EXCEPT !.at = "closing", !.ref = conn] \in Process
    BY <1>1 DEF Process, AtGo
  <1>3. go' = [go EXCEPT ![p] = [go[p] EXCEPT !.at = "closing", !.ref = conn]]
    OBVIOUS
  <1> QED
    BY <1>1, <1>2, <1>3

LEMMA WrittenType ==
  ASSUME TypeOK, RefsOK, NEW p \in Goroutine, Write(p)
  PROVE  up' \in [Socket -> Seq(Message)]
  <1> DEFINE f == Frame(go[p].kind, go[p].ref, go[p].joinref)
  <1>1. f \in Message
    BY WriteType DEF Write, Busy
  <1>2. \A s \in Socket : Append(up[s], f) \in Seq(Message)
    BY <1>1, Appended DEF TypeOK
  <1>3. UNCHANGED up \/ (conn \in Socket /\ up' = [up EXCEPT ![conn] = Append(@, f)])
    BY DEF Write
  <1>4. up \in [Socket -> Seq(Message)]
    BY DEF TypeOK
  <1> HIDE DEF f
  <1> QED
    BY <1>2, <1>3, <1>4

LEMMA PushedType ==
  ASSUME TypeOK, NEW s \in Socket, TakePush(s)
  PROVE  up' \in [Socket -> Seq(Message)] /\ down' \in [Socket -> Seq(Message)] /\ HeldType'
  <1>1. up' \in [Socket -> Seq(Message)] /\ up[s] # << >> /\ Head(up[s]).ref \in Ref \union {None}
    BY ServerType DEF TakePush, Message
  <1>2. Reply(s, "error") \in Message
    BY <1>1, ServerType DEF Kind
  <1>3. UNCHANGED down \/ down' = [down EXCEPT ![s] = Append(@, Reply(s, "error"))]
    BY DEF TakePush
  <1>4. /\ down \in [Socket -> Seq(Message)]
        /\ \A m \in Message : [down EXCEPT ![s] = Append(@, m)] \in [Socket -> Seq(Message)]
    BY ServerType DEF TypeOK
  <1>5. down' \in [Socket -> Seq(Message)]
    BY <1>2, <1>3, <1>4, Zenon
  <1>6. HeldType'
    <2>1. inbox \in [Socket -> Pushes] /\ unanswered \in [Socket -> SUBSET (Ref \union {None})]
      BY DEF TypeOK, Pushes
    <2>2. Append(inbox[s], Head(up[s]).ref) \in Pushes
      BY <1>1, <2>1, HeldAppended
    <2>3. UNCHANGED inbox \/ inbox' = [inbox EXCEPT ![s] = Append(@, Head(up[s]).ref)]
      BY DEF TakePush
    <2>4. UNCHANGED unanswered \/ unanswered' = [unanswered EXCEPT ![s] = @ \union {Head(up[s]).ref}]
      BY DEF TakePush
    <2>5. inbox' \in [Socket -> Pushes]
      BY <2>1, <2>2, <2>3
    <2>6. unanswered' \in [Socket -> SUBSET (Ref \union {None})]
      BY <1>1, <2>1, <2>4
    <2> QED
      BY <2>5, <2>6 DEF HeldType
  <1> QED
    BY <1>1, <1>5, <1>6

LEMMA AnsweredType ==
  ASSUME TypeOK, NEW s \in Socket, AnswerPush(s)
  PROVE  down' \in [Socket -> Seq(Message)] /\ HeldType'
  <1>1. inbox \in [Socket -> Pushes] /\ inbox[s] # << >>
    BY DEF TypeOK, Pushes, AnswerPush
  <1>2. Tail(inbox[s]) \in Pushes /\ Head(inbox[s]) \in Ref \union {None}
    BY <1>1, HeldTaken
  <1>3. PICK k \in {"ok", "error"} : down' = [down EXCEPT ![s] = Append(@, Frame(k, Head(inbox[s]), None))]
    BY DEF AnswerPush
  <1>4. Frame(k, Head(inbox[s]), None) \in Message
    BY <1>2, FrameType DEF Kind
  <1>5. down' \in [Socket -> Seq(Message)]
    BY <1>3, <1>4, ServerType
  <1>6. HeldType'
    BY <1>1, <1>2 DEF AnswerPush, HeldType, TypeOK
  <1> QED
    BY <1>5, <1>6

LEMMA TakenJoinType ==
  ASSUME TypeOK, NEW s \in Socket, TakeJoin(s)
  PROVE  /\ down' \in [Socket -> Seq(Message)] /\ up' \in [Socket -> Seq(Message)]
         /\ member' \in [Socket -> Ref \union {None}] /\ leaving' \subseteq Socket
         /\ accepted' \subseteq Socket \X (Ref \union {None})
  <1>1. Reply(s, "ok") \in Message /\ Reply(s, "error") \in Message /\ Event(s, "phx_close") \in Message
    BY ServerType DEF TakeJoin, Kind
  <1>2. Head(up[s]).ref \in Ref \union {None}
    BY ServerType DEF TakeJoin, Message
  <1> DEFINE closes == IF member[s] = None THEN <<>> ELSE <<Event(s, "phx_close")>>
  <1>3. closes \in Seq(Message) /\ down[s] \in Seq(Message)
    BY <1>1 DEF TypeOK
  <1>4. /\ down[s] \o <<Reply(s, "ok")>> \o closes \in Seq(Message)
        /\ down[s] \o <<Reply(s, "error")>> \o closes \in Seq(Message)
    BY <1>1, <1>3, Joined
  <1>5. down' \in {[down EXCEPT ![s] = @ \o <<Reply(s, "ok")>> \o closes],
                   [down EXCEPT ![s] = @ \o <<Reply(s, "error")>> \o closes]}
    BY DEF TakeJoin
  <1> HIDE DEF closes
  <1>6. down' \in [Socket -> Seq(Message)]
    BY <1>4, <1>5 DEF TypeOK
  <1>7. member' \in [Socket -> Ref \union {None}] /\ leaving' \subseteq Socket
    BY <1>2 DEF TakeJoin, TypeOK
  <1>8. accepted' \subseteq Socket \X (Ref \union {None})
    BY <1>2 DEF TakeJoin, TypeOK
  <1>9. up' \in [Socket -> Seq(Message)]
    BY ServerType DEF TakeJoin
  <1> QED
    BY <1>6, <1>7, <1>8, <1>9

LEMMA RedialType ==
  ASSUME TypeOK, Redial
  PROVE  /\ go' \in [Goroutine -> Process] /\ opened' \in Socket /\ conn' \in Socket \union {None}
         /\ link' \in [Socket -> {"none", "open", "lost", "closed"}]
         /\ reader' \in [at : AtReader, sock : Socket]
  <1>1. CASE opened < MaxSockets /\ opened' = opened + 1 /\ conn' = opened + 1 /\ GoTo(opened + 1, "checking")
    <2>1. opened + 1 \in Socket /\ opened + 1 \in Goroutine
      BY <1>1, CountType DEF Goroutine
    <2>2. go' \in [Goroutine -> Process]
      BY <1>1, <2>1, GoType DEF AtGo
    <2>3. opened \in Socket /\ opened + 1 # opened
      BY NumberType DEF TypeOK, Socket
    <2>4. link' \in [Socket -> {"none", "open", "lost", "closed"}]
      <3>1. link' = [link EXCEPT ![opened + 1] = "open"]
        BY <1>1, <2>3 DEF Redial
      <3> QED
        BY <3>1 DEF TypeOK
    <2>5. reader' \in [at : AtReader, sock : Socket]
      <3>1. reader' = [at |-> IF done = "no" THEN "reading" ELSE "ended", sock |-> opened + 1]
        BY <1>1, <2>3 DEF Redial
      <3>2. CASE done = "no"
        BY <2>1, <3>1, <3>2 DEF AtReader
      <3>3. CASE done # "no"
        BY <2>1, <3>1, <3>3 DEF AtReader
      <3> QED
        BY <3>2, <3>3
    <2> QED
      BY <1>1, <2>1, <2>2, <2>4, <2>5
  <1>2. CASE UNCHANGED <<opened, conn, link, go>> /\ reader' = [reader EXCEPT !.at = "ended"]
    BY <1>2 DEF TypeOK, AtReader
  <1> QED
    BY <1>1, <1>2 DEF Redial

LEMMA TypeInit == ASSUME Init PROVE TypeOK
  <1>1. go \in [Goroutine -> Process]
    BY IdleType DEF Init
  <1>2. reader \in [at : AtReader, sock : Socket]
    BY NumberType DEF Init, AtReader
  <1>3. up \in [Socket -> Seq(Message)] /\ down \in [Socket -> Seq(Message)]
    BY NoFrames DEF Init
  <1>4. inbox \in [Socket -> Seq(Ref \union {None})] /\ unanswered \in [Socket -> SUBSET (Ref \union {None})]
    BY NoPushes DEF Init, Pushes
  <1> QED
    BY <1>1, <1>2, <1>3, <1>4, NumberType DEF Init, TypeOK

LEMMA TypeStep ==
  ASSUME TypeOK, RefsOK, Next
  PROVE  TypeOK'
  <1> USE NumberType, CountType DEF TypeOK, netVars, serverVars, chanVars, replyVars, AtGo, AtReader
  <1>1. ASSUME NEW p \in Goroutine, Join(p), calls' \in 0 .. MaxCalls
        PROVE  TypeOK'
    BY <1>1, GoType DEF Join, Kind
  <1>2. ASSUME NEW p \in Caller, CallBegins(p)
        PROVE  TypeOK'
    <2>1. p \in Goroutine
      BY DEF Goroutine
    <2>2. CASE Subscribe(p)
      BY <1>1, <2>1, <2>2 DEF Subscribe
    <2>3. CASE Unsubscribe(p)
      BY <2>1, <2>3, GoType DEF Unsubscribe, Kind
    <2>4. CASE Send(p)
      BY <2>1, <2>4, GoType DEF Send, Kind
    <2>5. CASE Request(p)
      <3>1. [at |-> "registering", kind |-> "push", ref |-> lastRef + 1, joinref |-> joinRef] \in Process
        BY <2>5 DEF Request, Process, Kind
      <3>2. go' \in [Goroutine -> Process]
        BY <2>1, <2>5, <3>1 DEF Request
      <3> QED
        BY <2>5, <3>2 DEF Request
    <2>6. CASE Disconnect(p)
      <3>1. go' \in [Goroutine -> Process]
        BY <2>1, <2>6, DetachType DEF Disconnect
      <3> QED
        BY <2>6, <3>1 DEF Disconnect
    <2> QED
      BY <1>2, <2>2, <2>3, <2>4, <2>5, <2>6 DEF CallBegins
  <1>3. ASSUME NEW p \in Goroutine, GoesOn(p) \/ ContextEnds(p)
        PROVE  TypeOK'
    <2>1. CASE Register(p)
      BY <2>1, GoType, WriteType DEF Register, Busy
    <2>2. CASE Write(p)
      <3>1. go' \in [Goroutine -> Process]
        BY <2>2, GoType DEF Write
      <3>2. up' \in [Socket -> Seq(Message)]
        BY <2>2, WrittenType
      <3> QED
        BY <2>2, <3>1, <3>2 DEF Write
    <2>3. CASE WriteFailed(p)
      BY <2>3, GoType DEF WriteFailed
    <2>4. CASE Answer(p)
      BY <2>4, GoType DEF Answer, Outcome
    <2>5. CASE Close(p)
      BY <2>5, GoType, SocketClosedType, EndType DEF Close, HeldType, Pushes
    <2>6. CASE ContextEnds(p)
      BY <2>6, GoType DEF ContextEnds, GivenUp
    <2> QED
      BY <1>3, <2>1, <2>2, <2>3, <2>4, <2>5, <2>6 DEF GoesOn
  <1>4. ASSUME NEW s \in Socket, Rejoining(s)
        PROVE  TypeOK'
    <2>1. s \in Goroutine
      BY DEF Goroutine
    <2>2. CASE RejoinCheck(s)
      BY <2>1, <2>2, GoType DEF RejoinCheck
    <2>3. CASE Rejoin(s)
      BY <1>1, <2>1, <2>3 DEF Rejoin
    <2> QED
      BY <1>4, <2>2, <2>3 DEF Rejoining
  <1>5. ASSUME NEW s \in Socket, Break(s)
        PROVE  TypeOK'
    BY <1>5, EndType DEF Break, HeldType, Pushes
  <1>6. ASSUME NEW s \in Socket, Serve(s)
        PROVE  TypeOK'
    <2> USE ServerType
    <2>1. CASE TakeJoin(s)
      <3>1. HeldType'
        BY <2>1, ForsakeType DEF TakeJoin
      <3> QED
        BY <1>6, <2>1, <3>1, TakenJoinType DEF Serve, TakeJoin, HeldType, Pushes
    <2>2. CASE TakeLeave(s)
      BY <1>6, <2>2 DEF Serve, TakeLeave
    <2>3. CASE TakePush(s)
      BY <1>6, <2>3, PushedType DEF Serve, TakePush, HeldType, Pushes
    <2>4. CASE Left(s)
      <3>1. HeldType'
        BY <2>4, ForsakeType DEF Left, Leave
      <3> QED
        BY <1>6, <2>4, <3>1 DEF Serve, Left, Leave, Kind, HeldType, Pushes
    <2>5. CASE AnswerPush(s)
      BY <1>6, <2>5, AnsweredType DEF Serve, AnswerPush, HeldType, Pushes
    <2> QED
      BY <1>6, <2>1, <2>2, <2>3, <2>4, <2>5 DEF Serve
  <1>7. ASSUME NEW s \in Socket, ChannelCrash(s)
        PROVE  TypeOK'
    <2>1. HeldType'
      BY <1>7, ForsakeType DEF ChannelCrash, Leave
    <2> QED
      BY <1>7, <2>1, ServerType DEF ChannelCrash, Leave, Kind, HeldType, Pushes
  <1>8. CASE ReadLoop
    <2>1. CASE Receive
      <3>1. down[reader.sock] \in Seq(Message)
        OBVIOUS
      <3>2. down' \in [Socket -> Seq(Message)]
        BY <2>1, <3>1, Taken DEF Receive
      <3> QED
        BY <2>1, <3>2 DEF Receive
    <2>2. CASE ReadFails
      BY <2>2 DEF ReadFails
    <2>3. CASE Mark
      BY <2>3, SocketClosedType DEF Mark
    <2>4. CASE Drop
      BY <2>4, EndType DEF Drop, HeldType, Pushes
    <2>5. CASE Redial
      BY <2>5, RedialType DEF Redial
    <2> QED
      BY <1>8, <2>1, <2>2, <2>3, <2>4, <2>5 DEF ReadLoop
  <1> QED
    BY <1>2, <1>3, <1>4, <1>5, <1>6, <1>7, <1>8 DEF Next

-----------------------------------------------------------------------------
(* Refs *)

LEMMA RefsTyped ==
  ASSUME TypeOK
  PROVE  /\ lastRef \in Nat /\ joinRef \in Ref \union {None} /\ replies \subseteq Ref
         /\ Ref \subseteq Nat \ {0} /\ None = 0
         /\ lastRef < MaxRefs => lastRef + 1 \in Ref
         /\ go \in [Goroutine -> Process] /\ box \in [Ref -> {"none", "ok", "error", "closed"}]
  <1>1. lastRef \in Nat /\ joinRef \in Ref \union {None} /\ replies \subseteq Ref
    BY NumberType DEF TypeOK
  <1>2. Ref \subseteq Nat \ {0} /\ None = 0 /\ (lastRef < MaxRefs => lastRef + 1 \in Ref)
    BY <1>1, NumberType DEF Ref, None
  <1> QED
    BY <1>1, <1>2 DEF TypeOK

\* A step that hands out no ref and registers none keeps them in order.
LEMMA RefsKept ==
  ASSUME TypeOK, RefsOK,
         UNCHANGED <<lastRef, box, twice>>, joinRef' \in {joinRef, None}, replies' \subseteq replies,
         \A p \in Goroutine : Busy(p)' =>
           /\ Busy(p) /\ go'[p].ref = go[p].ref
           /\ go'[p].at = "registering" => go[p].at = "registering"
  PROVE  RefsOK'
  <1>1. joinRef' \in 0 .. lastRef'
    BY RefsTyped DEF RefsOK
  <1>2. \A r \in replies' : r \in 1 .. lastRef' /\ box'[r] = "none"
    BY DEF RefsOK
  <1>3. \A r \in Ref : r > lastRef' => box'[r] = "none"
    BY DEF RefsOK
  <1>4. /\ \A p \in Goroutine : Busy(p)' => go'[p].ref \in 1 .. lastRef'
        /\ \A p, q \in Goroutine : Busy(p)' /\ Busy(q)' /\ go'[p].ref = go'[q].ref => p = q
    BY DEF RefsOK
  <1>5. \A p \in Goroutine : go'[p].at = "registering" => box'[go'[p].ref] = "none" /\ go'[p].ref \notin replies'
    BY DEF RefsOK, Busy
  <1> QED
    BY <1>1, <1>2, <1>3, <1>4, <1>5 DEF RefsOK, AnsweredOnce

\* So does one that hands out the next ref to one goroutine.
LEMMA RefsTaken ==
  ASSUME TypeOK, RefsOK, NEW p \in Goroutine, ~Busy(p), NextRef,
         UNCHANGED <<box, twice>>, joinRef' \in {joinRef, None, lastRef + 1},
         NEW m, m.ref = lastRef + 1, go' = [go EXCEPT ![p] = m],
         replies' \subseteq replies \union {lastRef + 1}, m.at = "registering" => replies' = replies
  PROVE  RefsOK'
  <1>1. lastRef' = lastRef + 1 /\ lastRef \in Nat /\ lastRef + 1 \in Ref
    BY RefsTyped DEF NextRef
  <1>2. /\ go'[p].ref = lastRef + 1
        /\ \A q \in Goroutine : q # p => go'[q] = go[q]
    BY RefsTyped
  <1>3. go'[p].at = "registering" => replies' = replies
    BY RefsTyped
  <1>4. joinRef' \in 0 .. lastRef'
    BY <1>1 DEF RefsOK, None
  <1>5. box[lastRef + 1] = "none" /\ lastRef + 1 \notin replies
    BY <1>1 DEF RefsOK
  <1>6. \A r \in replies' : r \in 1 .. lastRef' /\ box'[r] = "none"
    BY <1>1, <1>5 DEF RefsOK
  <1>7. \A r \in Ref : r > lastRef' => box'[r] = "none"
    BY <1>1, RefsTyped DEF RefsOK
  <1>8. \A q \in Goroutine : Busy(q)' => go'[q].ref \in 1 .. lastRef'
    BY <1>1, <1>2 DEF RefsOK, Busy
  <1>9. \A q, r \in Goroutine : Busy(q)' /\ Busy(r)' /\ go'[q].ref = go'[r].ref => q = r
    BY <1>1, <1>2 DEF RefsOK, Busy
  <1>10. \A q \in Goroutine : go'[q].at = "registering" => box'[go'[q].ref] = "none" /\ go'[q].ref \notin replies'
    BY <1>1, <1>2, <1>3, <1>5 DEF RefsOK, Busy
  <1> QED
    BY <1>4, <1>6, <1>7, <1>8, <1>9, <1>10 DEF RefsOK, AnsweredOnce

LEMMA RefsSocketClosed ==
  ASSUME TypeOK, RefsOK, SocketClosed, UNCHANGED lastRef,
         \A p \in Goroutine : Busy(p)' => Busy(p) /\ go'[p].ref = go[p].ref /\ go'[p].at = go[p].at
  PROVE  RefsOK'
  <1>1. joinRef' = None /\ replies' = {}
    BY DEF SocketClosed, Remaining
  <1>2. \A r \in Ref : r \notin replies => box'[r] = box[r]
    BY DEF SocketClosed, Released
  <1>3. ~twice'
    BY DEF SocketClosed, Released, RefsOK, AnsweredOnce
  <1>4. \A r \in Ref : r > lastRef => r \notin replies
    BY RefsTyped DEF RefsOK
  <1>5. \A p \in Goroutine : Busy(p) => go[p].ref \in Ref
    BY WriteType
  <1>6. \A p \in Goroutine : go'[p].at = "registering" => go[p].at = "registering" /\ Busy(p) /\ go'[p].ref = go[p].ref
    BY DEF Busy
  <1> QED
    BY <1>1, <1>2, <1>3, <1>4, <1>5, <1>6, RefsTyped DEF RefsOK, AnsweredOnce

LEMMA RefsStep ==
  ASSUME TypeOK, RefsOK, Next
  PROVE  RefsOK'
  <1> USE RefsTyped DEF netVars, serverVars, chanVars, replyVars
  <1>1. ASSUME NEW p \in Goroutine, Join(p), ~Busy(p)
        PROVE  RefsOK'
    <2>1. CASE UnderWay
      BY <1>1, <2>1, RefsKept DEF Join, Return, Idle, Busy
    <2>2. CASE ~UnderWay
      <3> DEFINE m == [at |-> "writing", kind |-> "phx_join", ref |-> lastRef + 1, joinref |-> lastRef + 1]
      <3>1. m.ref = lastRef + 1 /\ m.at # "registering"
        OBVIOUS
      <3>2. /\ NextRef /\ joinRef' = lastRef + 1 /\ replies' = replies \union {lastRef + 1}
            /\ go' = [go EXCEPT ![p] = m] /\ UNCHANGED <<box, twice>>
        BY <1>1, <2>2 DEF Join, Writing
      <3> HIDE DEF m
      <3> QED
        BY <1>1, <3>1, <3>2, RefsTaken
    <2> QED
      BY <2>1, <2>2
  <1>2. ASSUME NEW p \in Goroutine, NEW m, go[p].at = "idle", NextRef, go' = [go EXCEPT ![p] = m],
               m.ref = lastRef + 1, UNCHANGED <<box, twice, replies>>, joinRef' \in {joinRef, None}
        PROVE  RefsOK'
    BY <1>2, RefsTaken DEF Busy
  <1>3. ASSUME UNCHANGED <<lastRef, box, twice>>, joinRef' \in {joinRef, None}, replies' \subseteq replies, UNCHANGED go
        PROVE  RefsOK'
    BY <1>3, RefsKept DEF Busy
  <1>4. ASSUME NEW p \in Caller, CallBegins(p)
        PROVE  RefsOK'
    <2>1. p \in Goroutine
      BY DEF Goroutine
    <2>2. CASE Subscribe(p)
      BY <1>1, <2>1, <2>2 DEF Subscribe, Busy
    <2>3. CASE Unsubscribe(p)
      <3>1. CASE UNCHANGED <<lastRef, go>>
        BY <1>3, <2>3, <3>1 DEF Unsubscribe
      <3>2. CASE NextRef /\ Writing(p, "phx_leave", lastRef + 1, joinRef)
        BY <1>2, <2>1, <2>3, <3>2 DEF Unsubscribe, Writing
      <3> QED
        BY <2>3, <3>1, <3>2 DEF Unsubscribe
    <2>4. CASE Send(p)
      BY <1>2, <2>1, <2>4 DEF Send, Writing
    <2>5. CASE Request(p)
      BY <1>2, <2>1, <2>5 DEF Request
    <2>6. CASE Disconnect(p)
      BY <2>1, <2>6, RefsKept DEF Disconnect, Busy
    <2> QED
      BY <1>4, <2>2, <2>3, <2>4, <2>5, <2>6 DEF CallBegins
  <1>5. ASSUME NEW p \in Goroutine, GoesOn(p) \/ ContextEnds(p)
        PROVE  RefsOK'
    <2>1. CASE Register(p)
      BY <2>1 DEF Register, GoTo, RefsOK, AnsweredOnce, Busy
    <2>2. CASE Write(p)
      <3>1. CASE Return(p)
        BY <2>2, <3>1, RefsKept DEF Write, Return, Idle, Busy
      <3>2. CASE GoTo(p, "waiting") \/ GoTo(p, "failed")
        <4>1. /\ UNCHANGED <<lastRef, box, twice, joinRef, replies>> /\ go[p].at = "writing"
              /\ \A q \in Goroutine : q # p => go'[q] = go[q]
              /\ go'[p].ref = go[p].ref /\ go'[p].at \in {"waiting", "failed"}
          <5>1. go'[p].ref = go[p].ref /\ go'[p].at \in {"waiting", "failed"}
            BY <3>2, Moved
          <5>2. /\ UNCHANGED <<lastRef, box, twice, joinRef, replies>> /\ go[p].at = "writing"
                /\ \A q \in Goroutine : q # p => go'[q] = go[q]
            BY <2>2, <3>2 DEF Write, GoTo
          <5> QED
            BY <5>1, <5>2
        <4> QED
          BY <4>1, RefsKept DEF Busy
      <3> QED
        BY <2>2, <3>1, <3>2 DEF Write
    <2>3. CASE WriteFailed(p)
      BY <2>3, RefsKept DEF WriteFailed, Return, Idle, Busy
    <2>4. CASE Answer(p)
      BY <2>4, RefsKept DEF Answer, Return, Idle, Busy
    <2>5. CASE Close(p)
      BY <2>5, RefsSocketClosed DEF Close, Return, Idle, Busy
    <2>6. CASE ContextEnds(p)
      BY <2>6, RefsKept DEF ContextEnds, Return, Idle, Busy
    <2> QED
      BY <1>5, <2>1, <2>2, <2>3, <2>4, <2>5, <2>6 DEF GoesOn
  <1>6. ASSUME NEW s \in Socket, Rejoining(s)
        PROVE  RefsOK'
    <2>1. s \in Goroutine
      BY DEF Goroutine
    <2>2. CASE RejoinCheck(s)
      <3>1. CASE Return(s)
        BY <2>1, <2>2, <3>1, RefsKept DEF RejoinCheck, Return, Idle, Busy
      <3>2. CASE GoTo(s, "rejoining")
        BY <2>1, <2>2, <3>2, RefsKept DEF RejoinCheck, GoTo, Busy
      <3> QED
        BY <2>2, <3>1, <3>2 DEF RejoinCheck
    <2>3. CASE Rejoin(s)
      BY <1>1, <2>1, <2>3 DEF Rejoin, Busy
    <2> QED
      BY <1>6, <2>2, <2>3 DEF Rejoining
  <1>7. ASSUME NEW s \in Socket, Break(s) \/ Serve(s) \/ ChannelCrash(s)
        PROVE  RefsOK'
    BY <1>3, <1>7 DEF Break, Serve, ChannelCrash
  <1>8. CASE ReadLoop
    <2>1. CASE Receive
      <3> DEFINE f == Head(down[reader.sock])
      <3>1. CASE f.kind \in {"ok", "error"} /\ f.ref \in replies
        <4>1. /\ replies' = replies \ {f.ref} /\ box' = [box EXCEPT ![f.ref] = f.kind]
              /\ box[f.ref] = "none" /\ f.ref \in Ref /\ f.ref <= lastRef
          BY <2>1, <3>1 DEF Receive, RefsOK
        <4>2. twice' = FALSE
          BY <2>1, <3>1, <4>1 DEF Receive, RefsOK, AnsweredOnce
        <4>3. UNCHANGED <<go, lastRef, joinRef>>
          BY <2>1 DEF Receive
        <4> HIDE DEF f
        <4>4. \A r \in Ref \ {f.ref} : box'[r] = box[r]
          BY <4>1
        <4>5. \A r \in replies' : r \in 1 .. lastRef' /\ box'[r] = "none"
          BY <4>1, <4>3, <4>4 DEF RefsOK
        <4>6. \A r \in Ref : r > lastRef' => box'[r] = "none"
          BY <4>1, <4>3, <4>4 DEF RefsOK
        <4>7. \A p \in Goroutine : go[p].at = "registering" =>
                 go[p].ref \in Ref /\ box[go[p].ref] = "none" /\ go[p].ref \notin replies
          BY WriteType DEF RefsOK, Busy
        <4>8. \A p \in Goroutine : go'[p].at = "registering" => box'[go'[p].ref] = "none" /\ go'[p].ref \notin replies'
          BY <3>1, <4>1, <4>3, <4>4, <4>7
        <4> QED
          BY <4>2, <4>3, <4>5, <4>6, <4>8 DEF RefsOK, AnsweredOnce, Busy
      <3>2. CASE ~(f.kind \in {"ok", "error"} /\ f.ref \in replies)
        <4>1. UNCHANGED <<replies, box, go, lastRef, joinRef>> /\ twice' = twice
          BY <2>1, <3>2 DEF Receive, TypeOK
        <4> QED
          BY <1>3, <4>1
      <3> QED
        BY <3>1, <3>2
    <2>2. CASE ReadFails \/ Drop
      BY <1>3, <2>2 DEF ReadFails, Drop
    <2>3. CASE Mark
      BY <2>3, RefsSocketClosed DEF Mark, Busy
    <2>4. CASE Redial
      <3>1. CASE UNCHANGED go
        BY <1>3, <2>4, <3>1 DEF Redial
      <3>2. CASE GoTo(opened + 1, "checking")
        BY <2>4, <3>2, RefsKept DEF Redial, GoTo, Busy
      <3> QED
        BY <2>4, <3>1, <3>2 DEF Redial
    <2> QED
      BY <1>8, <2>1, <2>2, <2>3, <2>4 DEF ReadLoop
  <1> QED
    BY <1>4, <1>5, <1>6, <1>7, <1>8 DEF Next

-----------------------------------------------------------------------------
(* The join under way *)

Awaits(p) == go[p].at \in {"writing", "failed", "waiting"} /\ go[p].kind = "phx_join" /\ go[p].ref = joinRef

\* A step of one goroutine that starts no join and does not abandon the present one.
LEMMA JoinKept ==
  ASSUME JoinOK, NEW p \in Goroutine, UNCHANGED box, joinRef' \in {joinRef, None},
         \A q \in Goroutine : q # p => go'[q] = go[q],
         state' = "joining" => state = "joining" /\ joinRef' = joinRef /\ (Awaits(p) => Awaits(p)'),
         go'[p].at = "registering" => go'[p].kind = "push"
  PROVE  JoinOK'
  <1>1. JoiningIsAwaited'
    BY DEF JoinOK, JoiningIsAwaited, Awaits
  <1> QED
    BY <1>1 DEF JoinOK

LEMMA JoinSocketClosed ==
  ASSUME TypeOK, JoinOK, SocketClosed,
         \A p \in Goroutine : go'[p].at = "registering" => go'[p] = go[p]
  PROVE  JoinOK'
  BY DEF JoinOK, JoiningIsAwaited, SocketClosed, UnderWay

LEMMA StartedKept ==
  ASSUME StartedOK, opened' = opened,
         \A p \in Goroutine : go'[p] = go[p] \/ p \in Caller \/ go[p].at # "idle"
  PROVE  StartedOK'
  BY ConstAssumption DEF StartedOK, Goroutine, Socket

LEMMA StartedStep ==
  ASSUME TypeOK, StartedOK, Next
  PROVE  StartedOK'
  <1> USE StartedKept, RefsTyped DEF netVars, serverVars
  <1>1. ASSUME NEW p \in Caller, CallBegins(p)
        PROVE  StartedOK'
    BY <1>1 DEF CallBegins, Subscribe, Join, Unsubscribe, Send, Request, Disconnect, Return, Writing
  <1>2. ASSUME NEW p \in Goroutine, GoesOn(p) \/ ContextEnds(p)
        PROVE  StartedOK'
    BY <1>2 DEF GoesOn, Register, Write, WriteFailed, Answer, Close, End, ContextEnds, GoTo, Return
  <1>3. ASSUME NEW s \in Socket, Rejoining(s)
        PROVE  StartedOK'
    BY <1>3 DEF Rejoining, RejoinCheck, Rejoin, Join, GoTo, Return, Writing, Goroutine
  <1>4. ASSUME NEW s \in Socket, Break(s) \/ Serve(s) \/ ChannelCrash(s)
        PROVE  StartedOK'
    BY <1>4 DEF Break, Serve, ChannelCrash, End
  <1>5. CASE ReadLoop
    <2>1. CASE Receive \/ ReadFails \/ Mark \/ Drop
      BY <2>1 DEF Receive, ReadFails, Mark, Drop, End
    <2>2. CASE Redial
      <3>1. CASE UNCHANGED <<opened, go>>
        BY <3>1
      <3>2. CASE opened < MaxSockets /\ opened' = opened + 1 /\ GoTo(opened + 1, "checking")
        <4>1. \A s \in Socket : s # opened + 1 => go'[s] = go[s]
          BY <3>2 DEF GoTo, Goroutine
        <4>2. \A s \in Socket : s > opened + 1 => s > opened /\ s # opened + 1
          BY NumberType DEF TypeOK, Socket
        <4> QED
          BY <3>2, <4>1, <4>2 DEF StartedOK
      <3> QED
        BY <2>2, <3>1, <3>2 DEF Redial
    <2> QED
      BY <1>5, <2>1, <2>2 DEF ReadLoop
  <1> QED
    BY <1>1, <1>2, <1>3, <1>4, <1>5 DEF Next

LEMMA JoinStep ==
  ASSUME TypeOK, RefsOK, StartedOK, JoinOK, Next
  PROVE  JoinOK'
  <1> USE RefsTyped DEF netVars, serverVars, chanVars, replyVars
  <1>1. ASSUME NEW p \in Goroutine, Join(p), go[p].at \in {"idle", "rejoining"}
        PROVE  JoinOK'
    <2>1. CASE UnderWay
      BY <1>1, <2>1, JoinKept DEF Join, Return, Idle, Awaits
    <2>2. CASE ~UnderWay
      <3>1. /\ lastRef + 1 \in Ref /\ joinRef' = lastRef + 1 /\ UNCHANGED box
            /\ go'[p].at = "writing" /\ go'[p].kind = "phx_join" /\ go'[p].ref = lastRef + 1
            /\ \A q \in Goroutine : q # p => go'[q] = go[q]
        BY <1>1, <2>2 DEF Join, Writing, NextRef
      <3>2. box[lastRef + 1] = "none"
        BY <3>1 DEF RefsOK
      <3> QED
        BY <3>1, <3>2 DEF JoinOK, JoiningIsAwaited
    <2> QED
      BY <2>1, <2>2
  <1>2. ASSUME UNCHANGED <<state, joinRef, box, go>>
        PROVE  JoinOK'
    BY <1>2 DEF JoinOK, JoiningIsAwaited
  <1>3. ASSUME NEW p \in Caller, CallBegins(p)
        PROVE  JoinOK'
    <2>1. p \in Goroutine
      BY DEF Goroutine
    <2>2. CASE Subscribe(p)
      BY <1>1, <2>1, <2>2 DEF Subscribe
    <2>3. CASE Unsubscribe(p)
      BY <2>1, <2>3, JoinKept DEF Unsubscribe, Writing
    <2>4. CASE Send(p)
      BY <2>1, <2>4, JoinKept DEF Send, Writing
    <2>5. CASE Request(p)
      BY <2>1, <2>5, JoinKept DEF Request
    <2>6. CASE Disconnect(p)
      BY <2>1, <2>6, JoinKept DEF Disconnect, Awaits
    <2> QED
      BY <1>3, <2>2, <2>3, <2>4, <2>5, <2>6 DEF CallBegins
  <1>4. ASSUME NEW p \in Goroutine, GoesOn(p) \/ ContextEnds(p)
        PROVE  JoinOK'
    <2>1. CASE Register(p)
      BY <2>1, JoinKept DEF Register, GoTo, Awaits
    <2>2. CASE Write(p)
      <3>1. /\ UNCHANGED <<state, joinRef, box>> /\ go[p].at = "writing"
            /\ \A q \in Goroutine : q # p => go'[q] = go[q]
        BY <2>2 DEF Write, GoTo, Return
      <3>2. CASE Return(p) /\ go[p].kind # "phx_join"
        BY <3>1, <3>2, JoinKept DEF Return, Idle, Awaits
      <3>3. CASE GoTo(p, "waiting") \/ GoTo(p, "failed")
        <4>1. go'[p].at \in {"waiting", "failed"} /\ go'[p].kind = go[p].kind /\ go'[p].ref = go[p].ref
          BY <3>3, Moved
        <4> QED
          BY <3>1, <4>1, JoinKept DEF Awaits
      <3> QED
        BY <2>2, <3>2, <3>3 DEF Write, Replied, Frame
    <2>3. CASE WriteFailed(p)
      BY <2>3, JoinKept DEF WriteFailed, Return, Idle, Awaits
    <2>4. CASE Answer(p)
      <3>1. state' = "joining" => state = "joining" /\ ~Awaits(p)
        <4>1. ASSUME go[p].kind = "phx_join", Outcome(go[p].ref) = "joining", Awaits(p)
              PROVE  FALSE
          <5>1. go[p].ref = joinRef /\ joinRef \in Ref /\ box[joinRef] \notin {"none", "closed"}
            BY <2>4, <4>1, WriteType DEF Answer, Awaits, JoinOK, Busy
          <5>2. box[joinRef] \in {"ok", "error"}
            BY <5>1
          <5> QED
            BY <4>1, <5>1, <5>2 DEF Outcome, Superseded
        <4>2. Outcome(go[p].ref) = "joining" => state = "joining"
          BY DEF Outcome
        <4> QED
          BY <2>4, <4>1, <4>2 DEF Answer, Awaits
      <3> QED
        BY <2>4, <3>1, JoinKept DEF Answer, Return, Idle
    <2>5. CASE Close(p)
      BY <2>5, JoinSocketClosed DEF Close, Return, Idle
    <2>6. CASE ContextEnds(p)
      BY <2>6, JoinKept DEF ContextEnds, Return, Idle, Awaits, GivenUp
    <2> QED
      BY <1>4, <2>1, <2>2, <2>3, <2>4, <2>5, <2>6 DEF GoesOn
  <1>5. ASSUME NEW s \in Socket, Rejoining(s)
        PROVE  JoinOK'
    <2>1. s \in Goroutine
      BY DEF Goroutine
    <2>2. CASE RejoinCheck(s)
      <3>1. CASE Return(s)
        BY <2>1, <2>2, <3>1, JoinKept DEF RejoinCheck, Return, Idle, Awaits
      <3>2. CASE GoTo(s, "rejoining")
        BY <2>1, <2>2, <3>2, JoinKept DEF RejoinCheck, GoTo, Awaits
      <3> QED
        BY <2>2, <3>1, <3>2 DEF RejoinCheck
    <2>3. CASE Rejoin(s)
      BY <1>1, <2>1, <2>3 DEF Rejoin
    <2> QED
      BY <1>5, <2>2, <2>3 DEF Rejoining
  <1>6. ASSUME NEW s \in Socket, Break(s) \/ Serve(s) \/ ChannelCrash(s)
        PROVE  JoinOK'
    BY <1>2, <1>6 DEF Break, Serve, ChannelCrash
  <1>7. CASE ReadLoop
    <2>1. CASE Receive
      <3>1. /\ UNCHANGED <<go, joinRef>> /\ (state' = "joining" => state = "joining")
            /\ \A r \in Ref : box'[r] = "closed" => box[r] = "closed"
        BY <2>1 DEF Receive
      <3> QED
        BY <3>1 DEF JoinOK, JoiningIsAwaited
    <2>2. CASE ReadFails \/ Drop
      BY <1>2, <2>2 DEF ReadFails, Drop
    <2>3. CASE Mark
      BY <2>3, JoinSocketClosed DEF Mark
    <2>4. CASE Redial
      <3>1. CASE UNCHANGED go
        BY <1>2, <2>4, <3>1 DEF Redial
      <3>2. CASE opened < MaxSockets /\ GoTo(opened + 1, "checking")
        <4>1. opened + 1 \in Goroutine
          BY <3>2, CountType DEF Goroutine
        <4>2. \A q \in Goroutine : go'[q] = go[q] \/ (q = opened + 1 /\ go'[q].at = "checking")
          BY <3>2, <4>1 DEF GoTo
        <4>3. go[opened + 1].at = "idle"
          BY <3>2, CountType DEF StartedOK, TypeOK, Socket
        <4>4. /\ UNCHANGED <<state, joinRef, box>>
              /\ \A q \in Goroutine : go[q].at # "idle" => go'[q] = go[q]
              /\ \A q \in Goroutine : go'[q].at = "registering" => go'[q] = go[q]
          BY <2>4, <4>2, <4>3 DEF Redial
        <4> QED
          BY <4>4 DEF JoinOK, JoiningIsAwaited
      <3> QED
        BY <2>4, <3>1, <3>2 DEF Redial
    <2> QED
      BY <1>7, <2>1, <2>2, <2>3, <2>4 DEF ReadLoop
  <1> QED
    BY <1>3, <1>4, <1>5, <1>6, <1>7 DEF Next

-----------------------------------------------------------------------------
(* The frames under way *)

\* A step that puts no frame on the wire, and starts no request.
LEMMA HeldRange ==
  ASSUME TypeOK, NEW s \in Socket
  PROVE  Range(inbox[s]) \subseteq Nat
  <1>1. inbox[s] \in Seq(Ref \union {None})
    BY DEF TypeOK
  <1>2. Range(inbox[s]) \subseteq Ref \union {None}
    BY <1>1, RangeOfSeq
  <1>3. Ref \subseteq Nat /\ None \in Nat
    BY NumberType DEF None
  <1> QED
    BY <1>2, <1>3

LEMMA WireKept ==
  ASSUME TypeOK, RefsOK, WireOK, lastRef' \in Nat, lastRef' >= lastRef,
         joinRef' \in {joinRef, None} \/ (joinRef' = lastRef + 1 /\ lastRef' = lastRef + 1),
         \A p \in Goroutine : Busy(p)' /\ go'[p].kind # "phx_join" =>
            Busy(p) /\ go[p].kind # "phx_join" /\ go'[p].ref = go[p].ref,
         \A s \in Socket : Range(up'[s]) \subseteq Range(up[s]) /\ Range(down'[s]) \subseteq Range(down[s]),
         \A s \in Socket : Range(inbox'[s]) \subseteq Range(inbox[s]),
         accepted \subseteq accepted'
  PROVE  WireOK'
  <1> USE RefsTyped
  <1>1. \A p \in Goroutine : Busy(p)' /\ go'[p].kind # "phx_join" => go'[p].ref # joinRef'
    BY DEF WireOK, RefsOK
  <1>2. ASSUME NEW s \in Socket, NEW f \in Range(up'[s])
        PROVE  f.ref <= lastRef' /\ (f.kind # "phx_join" => f.ref # joinRef' \/ joinRef' = None)
    <2>1. f.ref \in Nat /\ f.ref <= lastRef /\ (f.kind # "phx_join" => f.ref # joinRef \/ joinRef = None)
      <3>1. f \in Message
        BY <1>2, RangeType
      <3> QED
        BY <1>2, <3>1 DEF WireOK, Message
    <2> QED
      BY <2>1
  <1>3. ASSUME NEW s \in Socket, NEW f \in Range(down'[s])
        PROVE  /\ f.ref <= lastRef'
               /\ f.kind = "ok" /\ f.ref = joinRef' /\ joinRef' # None => <<s, joinRef'>> \in accepted'
    <2>1. /\ f.ref \in Nat /\ f.ref <= lastRef
          /\ f.kind = "ok" /\ f.ref = joinRef /\ joinRef # None => <<s, joinRef>> \in accepted
      <3>1. f \in Message
        BY <1>3, RangeType
      <3> QED
        BY <1>3, <3>1 DEF WireOK, Message
    <2> QED
      BY <2>1
  <1>4. ASSUME NEW s \in Socket, NEW r \in Range(inbox'[s])
        PROVE  r <= lastRef' /\ (r # joinRef' \/ joinRef' = None)
    <2>1. r \in Nat
      BY <1>4, HeldRange
    <2>2. r <= lastRef /\ (r # joinRef \/ joinRef = None)
      BY <1>4 DEF WireOK
    <2> QED
      BY <2>1, <2>2
  <1> QED
    BY <1>1, <1>2, <1>3, <1>4 DEF WireOK

\* A step that only puts the frame of a goroutine on the wire.
LEMMA WireWritten ==
  ASSUME TypeOK, RefsOK, WireOK, NEW p \in Goroutine, Write(p)
  PROVE  WireOK'
  <1> DEFINE m == Frame(go[p].kind, go[p].ref, go[p].joinref)
  <1>1. /\ m \in Message /\ m.ref = go[p].ref /\ m.kind = go[p].kind /\ Busy(p)
        /\ UNCHANGED <<lastRef, joinRef, down, accepted, inbox>>
    BY WriteType DEF Write, Busy, Frame, serverVars, chanVars
  <1>2. UNCHANGED up \/ (conn \in Socket /\ up' = [up EXCEPT ![conn] = Append(@, m)])
    BY DEF Write
  <1> HIDE DEF m
  <1>3. \A s \in Socket : Range(up'[s]) \subseteq Range(up[s]) \union {m}
    <2>1. \A s \in Socket : Range(Append(up[s], m)) = Range(up[s]) \union {m}
      BY <1>1, Appended DEF TypeOK
    <2>2. \A s \in Socket : up'[s] = up[s] \/ up'[s] = Append(up[s], m)
      BY <1>2 DEF TypeOK
    <2> QED
      BY <2>1, <2>2
  <1>4. \A q \in Goroutine : Busy(q)' => Busy(q) /\ go'[q].ref = go[q].ref /\ go'[q].kind = go[q].kind
    <2>1. CASE Return(p)
      BY <2>1, RefsTyped DEF Return, Idle, Busy
    <2>2. ASSUME NEW place \in {"waiting", "failed"}, GoTo(p, place)
          PROVE  \A q \in Goroutine : Busy(q)' => Busy(q) /\ go'[q].ref = go[q].ref /\ go'[q].kind = go[q].kind
      BY <1>1, <2>2, Moved DEF Busy
    <2> QED
      BY <2>1, <2>2 DEF Write
  <1>5. \A q \in Goroutine : Busy(q)' /\ go'[q].kind # "phx_join" => go'[q].ref # joinRef'
    BY <1>1, <1>4 DEF WireOK
  <1>6. m.ref <= lastRef /\ (m.kind # "phx_join" => m.ref # joinRef)
    BY <1>1, RefsTyped DEF WireOK, RefsOK
  <1> QED
    BY <1>1, <1>3, <1>5, <1>6 DEF WireOK

\* A frame that may go down the wire of a socket.
Sound(s, f) ==
  f.ref <= lastRef /\ (f.kind = "ok" /\ f.ref = joinRef /\ joinRef # None => <<s, joinRef>> \in accepted')

\* What the server puts on the wire for a frame it takes, or when its join ends.
LEMMA WireServed ==
  ASSUME TypeOK, RefsOK, WireOK, NEW s \in Socket, UNCHANGED <<lastRef, joinRef, go>>,
         accepted \subseteq accepted',
         \A t \in Socket : Range(up'[t]) \subseteq Range(up[t]),
         \A t \in Socket : t # s => down'[t] = down[t],
         \A f \in Range(down'[s]) : f \in Range(down[s]) \/ Sound(s, f),
         \A t \in Socket : \A r \in Range(inbox'[t]) :
           r \in Range(inbox[t]) \/ (r <= lastRef /\ (r # joinRef \/ joinRef = None))
  PROVE  WireOK'
  <1>1. \A p \in Goroutine : Busy(p)' /\ go'[p].kind # "phx_join" => go'[p].ref # joinRef'
    BY DEF WireOK, Busy
  <1>2. \A t \in Socket : \A f \in Range(up'[t]) :
          f.ref <= lastRef' /\ (f.kind # "phx_join" => f.ref # joinRef' \/ joinRef' = None)
    BY DEF WireOK
  <1>3. ASSUME NEW t \in Socket, NEW f \in Range(down'[t])
        PROVE  /\ f.ref <= lastRef'
               /\ f.kind = "ok" /\ f.ref = joinRef' /\ joinRef' # None => <<t, joinRef'>> \in accepted'
    <2>1. CASE f \in Range(down[t])
      BY <2>1 DEF WireOK
    <2>2. CASE f \notin Range(down[t])
      <3>1. t = s
        BY <1>3, <2>2
      <3>2. Sound(s, f)
        BY <1>3, <2>2, <3>1
      <3> QED
        BY <3>1, <3>2 DEF Sound
    <2> QED
      BY <2>1, <2>2
  <1>4. \A t \in Socket : \A r \in Range(inbox'[t]) : r <= lastRef' /\ (r # joinRef' \/ joinRef' = None)
    BY DEF WireOK
  <1> QED
    BY <1>1, <1>2, <1>3, <1>4 DEF WireOK

LEMMA HeldForsaken ==
  ASSUME TypeOK, NEW s \in Socket, Forsake(s)
  PROVE  \A t \in Socket : Range(inbox'[t]) \subseteq Range(inbox[t])
  BY NoPushes DEF TypeOK, Forsake

\* A frame at the head of the wire to the server.
LEMMA HeadOK ==
  ASSUME TypeOK, RefsOK, WireOK, NEW s \in Socket, NEW kind, Take(s, kind)
  PROVE  /\ \A t \in Socket : Range(up'[t]) \subseteq Range(up[t])
         /\ Head(up[s]).ref <= lastRef
         /\ kind # "phx_join" => Head(up[s]).ref # joinRef \/ joinRef = None
         /\ \A k : Reply(s, k).ref = Head(up[s]).ref /\ Reply(s, k).kind = k
         /\ \A k : Event(s, k).ref = None /\ Event(s, k).kind = k
  <1>1. Head(up[s]) \in Range(up[s]) /\ Head(up[s]).kind = kind
    BY ServerType
  <1>2. Range(Tail(up[s])) \subseteq Range(up[s])
    BY Taken DEF Take, TypeOK
  <1>3. \A t \in Socket : Range(up'[t]) \subseteq Range(up[t])
    BY <1>2 DEF Take, TypeOK
  <1> QED
    BY <1>1, <1>3 DEF WireOK, Reply, Event, Frame

LEMMA WireTakeJoin ==
  ASSUME TypeOK, RefsOK, WireOK, NEW s \in Socket, TakeJoin(s), UNCHANGED <<lastRef, joinRef, go>>
  PROVE  WireOK'
  <1> DEFINE closes == IF member[s] = None THEN <<>> ELSE <<Event(s, "phx_close")>>
             ok == Reply(s, "ok")
             no == Reply(s, "error")
             close == Event(s, "phx_close")
  <1>1. /\ \A t \in Socket : Range(up'[t]) \subseteq Range(up[t])
        /\ Head(up[s]).ref <= lastRef /\ ok.ref = Head(up[s]).ref /\ no.ref = Head(up[s]).ref
        /\ close.ref = None /\ close.kind = "phx_close" /\ no.kind = "error"
    BY HeadOK DEF TakeJoin
  <1>2. ok \in Message /\ no \in Message /\ close \in Message
    BY ServerType DEF TakeJoin, Kind
  <1>3. closes \in Seq(Message) /\ Range(closes) \subseteq {close} /\ down[s] \in Seq(Message)
    <2>1. Range(<<close>>) = {close} /\ <<close>> \in Seq(Message)
      BY <1>2 DEF Range
    <2>2. down[s] \in Seq(Message)
      BY DEF TypeOK
    <2> HIDE DEF close
    <2>3. CASE member[s] = None
      BY <2>2, <2>3, NoFrames
    <2>4. CASE member[s] # None
      <3>1. closes = <<close>>
        BY <2>4 DEF close
      <3> QED
        BY <2>1, <2>2, <3>1
    <2> QED
      BY <2>3, <2>4
  <1>4. /\ Range(down[s] \o <<ok>> \o closes) \subseteq Range(down[s]) \union {ok, close}
        /\ Range(down[s] \o <<no>> \o closes) \subseteq Range(down[s]) \union {no, close}
    <2> HIDE DEF ok, no, closes, close
    <2>1. Range(down[s] \o <<ok>> \o closes) = Range(down[s]) \union {ok} \union Range(closes)
      BY <1>2, <1>3, Joined
    <2>2. Range(down[s] \o <<no>> \o closes) = Range(down[s]) \union {no} \union Range(closes)
      BY <1>2, <1>3, Joined
    <2> QED
      BY <1>3, <2>1, <2>2
  <1>5. \/ down' = [down EXCEPT ![s] = @ \o <<ok>> \o closes] /\ accepted' = accepted \union {<<s, ok.ref>>}
        \/ down' = [down EXCEPT ![s] = @ \o <<no>> \o closes] /\ accepted' = accepted
    BY <1>1 DEF TakeJoin
  <1>6. lastRef \in Nat /\ None = 0 /\ joinRef \in Nat
    BY RefsTyped
  <1>7. down \in [Socket -> Seq(Message)]
    BY DEF TypeOK
  <1>10. \A t \in Socket : Range(inbox'[t]) \subseteq Range(inbox[t])
    BY HeldForsaken DEF TakeJoin
  <1> HIDE DEF ok, no, close, closes
  <1>8. CASE down' = [down EXCEPT ![s] = @ \o <<ok>> \o closes] /\ accepted' = accepted \union {<<s, ok.ref>>}
    <2>1. Range(down'[s]) \subseteq Range(down[s]) \union {ok, close} /\ \A t \in Socket : t # s => down'[t] = down[t]
      BY <1>4, <1>7, <1>8
    <2>2. \A f \in {ok, close} : Sound(s, f)
      BY <1>1, <1>6, <1>8 DEF Sound
    <2> QED
      BY <1>1, <1>8, <1>10, <2>1, <2>2, WireServed
  <1>9. CASE down' = [down EXCEPT ![s] = @ \o <<no>> \o closes] /\ accepted' = accepted
    <2>1. Range(down'[s]) \subseteq Range(down[s]) \union {no, close} /\ \A t \in Socket : t # s => down'[t] = down[t]
      BY <1>4, <1>7, <1>9
    <2>2. \A f \in {no, close} : Sound(s, f)
      BY <1>1, <1>6 DEF Sound
    <2> QED
      BY <1>1, <1>9, <1>10, <2>1, <2>2, WireServed
  <1> QED
    BY <1>5, <1>8, <1>9

LEMMA WireTakePush ==
  ASSUME TypeOK, RefsOK, WireOK, NEW s \in Socket, TakePush(s), UNCHANGED <<lastRef, joinRef, go, accepted>>
  PROVE  WireOK'
  <1>1. /\ \A t \in Socket : Range(up'[t]) \subseteq Range(up[t])
        /\ Head(up[s]).ref <= lastRef /\ (Head(up[s]).ref # joinRef \/ joinRef = None)
        /\ \A k : Reply(s, k).ref = Head(up[s]).ref
    BY HeadOK DEF TakePush
  <1>2. \A t \in Socket : \A r \in Range(inbox'[t]) :
          r \in Range(inbox[t]) \/ (r <= lastRef /\ (r # joinRef \/ joinRef = None))
    <2>1. inbox \in [Socket -> Pushes] /\ Head(up[s]).ref \in Ref \union {None}
      BY ServerType DEF TypeOK, Pushes, TakePush, Message
    <2>2. Range(Append(inbox[s], Head(up[s]).ref)) = Range(inbox[s]) \union {Head(up[s]).ref}
      BY <2>1, HeldAppended
    <2>3. UNCHANGED inbox \/ inbox' = [inbox EXCEPT ![s] = Append(@, Head(up[s]).ref)]
      BY DEF TakePush
    <2> QED
      BY <1>1, <2>1, <2>2, <2>3
  <1>3. CASE UNCHANGED down
    BY <1>1, <1>2, <1>3, WireServed
  <1>4. CASE down' = [down EXCEPT ![s] = Append(@, Reply(s, "error"))]
    <2>1. Reply(s, "error") \in Message /\ down[s] \in Seq(Message) /\ down \in [Socket -> Seq(Message)]
      BY ServerType DEF TakePush, Take, Kind, TypeOK
    <2>2. /\ Range(down'[s]) = Range(down[s]) \union {Reply(s, "error")}
          /\ \A t \in Socket : t # s => down'[t] = down[t]
      BY <1>4, <2>1, Appended
    <2>3. \A f \in {Reply(s, "error")} : Sound(s, f)
      BY <1>1 DEF Sound
    <2> QED
      BY <1>1, <1>2, <2>2, <2>3, WireServed
  <1> QED
    BY <1>3, <1>4 DEF TakePush

LEMMA WireAnswerPush ==
  ASSUME TypeOK, RefsOK, WireOK, NEW s \in Socket, AnswerPush(s), UNCHANGED <<lastRef, joinRef, go, accepted>>
  PROVE  WireOK'
  <1>1. inbox \in [Socket -> Pushes] /\ inbox[s] # << >>
    BY DEF TypeOK, Pushes, AnswerPush
  <1>2. /\ Head(inbox[s]) \in Range(inbox[s]) /\ Head(inbox[s]) \in Ref \union {None}
        /\ Range(Tail(inbox[s])) \subseteq Range(inbox[s])
    BY <1>1, HeldTaken
  <1>3. PICK k \in {"ok", "error"} : down' = [down EXCEPT ![s] = Append(@, Frame(k, Head(inbox[s]), None))]
    BY DEF AnswerPush
  <1>4. Frame(k, Head(inbox[s]), None) \in Message /\ Frame(k, Head(inbox[s]), None).ref = Head(inbox[s])
    BY <1>2, FrameType DEF Kind, Frame
  <1>5. PICK m \in Message : m = Frame(k, Head(inbox[s]), None)
    BY <1>4
  <1>6. Sound(s, m)
    BY <1>2, <1>4, <1>5 DEF Sound, WireOK
  <1>7. Range(down'[s]) = Range(down[s]) \union {m} /\ \A t \in Socket : t # s => down'[t] = down[t]
    <2>1. down[s] \in Seq(Message) /\ down \in [Socket -> Seq(Message)]
      BY DEF TypeOK
    <2> QED
      BY <1>3, <1>5, <2>1, Appended
  <1>8. \A t \in Socket : Range(inbox'[t]) \subseteq Range(inbox[t])
    BY <1>1, <1>2 DEF AnswerPush
  <1> QED
    BY <1>6, <1>7, <1>8, WireServed DEF AnswerPush

LEMMA WireLeave ==
  ASSUME TypeOK, RefsOK, WireOK, NEW s \in Socket, NEW kind \in {"phx_close", "phx_error"}, Leave(s, kind),
         UNCHANGED <<lastRef, joinRef, go, accepted>>
  PROVE  WireOK'
  <1>1. Event(s, kind) \in Message /\ down[s] \in Seq(Message) /\ down \in [Socket -> Seq(Message)]
    BY ServerType DEF Kind, TypeOK
  <1>2. down' = [down EXCEPT ![s] = Append(@, Event(s, kind))] /\ UNCHANGED up
    BY DEF Leave
  <1>3. Event(s, kind).ref <= lastRef /\ Event(s, kind).kind # "ok"
    BY RefsTyped DEF Event, Frame
  <1>4. Range(down'[s]) = Range(down[s]) \union {Event(s, kind)} /\ \A t \in Socket : t # s => down'[t] = down[t]
    BY <1>1, <1>2, Appended
  <1>5. \A f \in {Event(s, kind)} : Sound(s, f)
    BY <1>3 DEF Sound
  <1>6. \A t \in Socket : Range(inbox'[t]) \subseteq Range(inbox[t])
    BY HeldForsaken DEF Leave
  <1> QED
    BY <1>2, <1>4, <1>5, <1>6, WireServed

LEMMA WireEnd ==
  ASSUME TypeOK, NEW s, NEW how, End(s, how)
  PROVE  /\ \A t \in Socket : Range(up'[t]) \subseteq Range(up[t]) /\ Range(down'[t]) \subseteq Range(down[t])
         /\ \A t \in Socket : Range(inbox'[t]) \subseteq Range(inbox[t])
         /\ UNCHANGED accepted
  BY NoFrames, NoPushes DEF TypeOK, End

LEMMA WireStep ==
  ASSUME TypeOK, RefsOK, WireOK, Next
  PROVE  WireOK'
  <1> USE RefsTyped DEF netVars, serverVars, chanVars, replyVars
  <1>1. ASSUME NEW p \in Goroutine, Join(p), ~Busy(p)
        PROVE  WireOK'
    <2>1. CASE UnderWay
      BY <1>1, <2>1, WireKept DEF Join, Return, Idle, Busy
    <2>2. CASE ~UnderWay
      BY <1>1, <2>2, WireKept DEF Join, Writing, NextRef, Busy
    <2> QED
      BY <2>1, <2>2
  <1>2. ASSUME NEW p \in Goroutine, NEW m, go[p].at = "idle", NextRef, go' = [go EXCEPT ![p] = m],
               m.ref = lastRef + 1, UNCHANGED <<up, down, accepted, inbox>>, joinRef' \in {joinRef, None}
        PROVE  WireOK'
    <2>1. \A q \in Goroutine : Busy(q)' => (q = p /\ go'[q].ref = lastRef + 1) \/ (q # p /\ Busy(q) /\ go'[q] = go[q])
      BY <1>2 DEF Busy
    <2>2. \A q \in Goroutine : Busy(q)' /\ go'[q].kind # "phx_join" => go'[q].ref # joinRef'
      BY <1>2, <2>1 DEF WireOK, RefsOK
    <2>3. \A s \in Socket : \A f \in Range(up[s]) :
            f.ref <= lastRef' /\ (f.kind # "phx_join" => f.ref # joinRef' \/ joinRef' = None)
      <3>1. \A s \in Socket : \A f \in Range(up[s]) : f.ref \in Nat
        BY RangeType DEF Message
      <3> QED
        BY <1>2, <3>1 DEF WireOK, NextRef
    <2>4. ASSUME NEW s \in Socket, NEW f \in Range(down[s])
          PROVE  /\ f.ref <= lastRef'
                 /\ f.kind = "ok" /\ f.ref = joinRef' /\ joinRef' # None => <<s, joinRef'>> \in accepted
      <3>1. f.ref \in Nat
        BY <2>4, RangeType DEF Message
      <3>2. f.ref <= lastRef /\ (f.kind = "ok" /\ f.ref = joinRef /\ joinRef # None => <<s, joinRef>> \in accepted)
        BY <2>4 DEF WireOK
      <3> QED
        BY <1>2, <3>1, <3>2 DEF NextRef
    <2>5. \A s \in Socket : \A r \in Range(inbox[s]) : r <= lastRef' /\ (r # joinRef' \/ joinRef' = None)
      <3>1. \A s \in Socket : \A r \in Range(inbox[s]) : r \in Nat
        BY HeldRange
      <3>2. \A s \in Socket : \A r \in Range(inbox[s]) : r <= lastRef /\ (r # joinRef \/ joinRef = None)
        BY DEF WireOK
      <3>3. lastRef \in Nat /\ lastRef' = lastRef + 1
        BY <1>2 DEF NextRef
      <3> QED
        BY <1>2, <3>1, <3>2, <3>3
    <2> QED
      BY <1>2, <2>2, <2>3, <2>4, <2>5 DEF WireOK
  <1>3. ASSUME UNCHANGED <<lastRef, go, up, down, accepted, inbox>>, joinRef' \in {joinRef, None}
        PROVE  WireOK'
    BY <1>3, WireKept DEF Busy
  <1>4. ASSUME NEW p \in Caller, CallBegins(p)
        PROVE  WireOK'
    <2>1. p \in Goroutine
      BY DEF Goroutine
    <2>2. CASE Subscribe(p)
      BY <1>1, <2>1, <2>2 DEF Subscribe, Busy
    <2>3. CASE Unsubscribe(p)
      <3>1. CASE UNCHANGED <<lastRef, go>>
        BY <1>3, <2>3, <3>1 DEF Unsubscribe
      <3>2. CASE NextRef /\ Writing(p, "phx_leave", lastRef + 1, joinRef)
        BY <1>2, <2>1, <2>3, <3>2 DEF Unsubscribe, Writing
      <3> QED
        BY <2>3, <3>1, <3>2 DEF Unsubscribe
    <2>4. CASE Send(p)
      BY <1>2, <2>1, <2>4 DEF Send, Writing
    <2>5. CASE Request(p)
      BY <1>2, <2>1, <2>5 DEF Request
    <2>6. CASE Disconnect(p)
      BY <2>1, <2>6, WireKept DEF Disconnect, Busy
    <2> QED
      BY <1>4, <2>2, <2>3, <2>4, <2>5, <2>6 DEF CallBegins
  <1>5. ASSUME NEW p \in Goroutine, GoesOn(p) \/ ContextEnds(p)
        PROVE  WireOK'
    <2>1. CASE Register(p)
      BY <2>1, Moved, WireKept DEF Register, Busy
    <2>2. CASE Write(p)
      BY <2>2, WireWritten
    <2>3. CASE WriteFailed(p)
      BY <2>3, WireKept DEF WriteFailed, Return, Idle, Busy
    <2>4. CASE Answer(p)
      BY <2>4, WireKept DEF Answer, Return, Idle, Busy
    <2>5. CASE Close(p)
      BY <2>5, WireEnd, WireKept DEF Close, SocketClosed, Return, Idle, Busy
    <2>6. CASE ContextEnds(p)
      BY <2>6, WireKept DEF ContextEnds, Return, Idle, Busy
    <2> QED
      BY <1>5, <2>1, <2>2, <2>3, <2>4, <2>5, <2>6 DEF GoesOn
  <1>6. ASSUME NEW s \in Socket, Rejoining(s)
        PROVE  WireOK'
    <2>1. s \in Goroutine
      BY DEF Goroutine
    <2>2. CASE RejoinCheck(s)
      <3>1. CASE Return(s)
        BY <2>1, <2>2, <3>1, WireKept DEF RejoinCheck, Return, Idle, Busy
      <3>2. CASE GoTo(s, "rejoining")
        BY <2>1, <2>2, <3>2, Moved, WireKept DEF RejoinCheck, Busy
      <3> QED
        BY <2>2, <3>1, <3>2 DEF RejoinCheck
    <2>3. CASE Rejoin(s)
      BY <1>1, <2>1, <2>3 DEF Rejoin, Busy
    <2> QED
      BY <1>6, <2>2, <2>3 DEF Rejoining
  <1>7. ASSUME NEW s \in Socket, Break(s)
        PROVE  WireOK'
    BY <1>7, WireEnd, WireKept DEF Break, Busy
  <1>8. ASSUME NEW s \in Socket, Serve(s)
        PROVE  WireOK'
    <2>1. UNCHANGED <<lastRef, joinRef, go>>
      BY <1>8 DEF Serve
    <2>2. CASE TakeLeave(s)
      BY <2>1, <2>2, HeadOK, WireKept DEF TakeLeave, Busy
    <2>3. CASE TakePush(s)
      BY <2>1, <2>3, WireTakePush DEF TakePush
    <2>4. CASE Left(s)
      BY <2>1, <2>4, WireLeave DEF Left, Leave
    <2>5. CASE AnswerPush(s)
      BY <2>1, <2>5, WireAnswerPush DEF AnswerPush
    <2> QED
      BY <1>8, <2>1, <2>2, <2>3, <2>4, <2>5, WireTakeJoin DEF Serve
  <1>9. ASSUME NEW s \in Socket, ChannelCrash(s)
        PROVE  WireOK'
    BY <1>9, WireLeave DEF ChannelCrash, Leave
  <1>10. CASE ReadLoop
    <2>1. CASE Receive
      <3>1. /\ UNCHANGED <<lastRef, joinRef, go, up, accepted, inbox>> /\ down[reader.sock] \in Seq(Message) /\ down[reader.sock] # <<>>
            /\ down' = [down EXCEPT ![reader.sock] = Tail(@)] /\ down \in [Socket -> Seq(Message)]
        BY <2>1 DEF Receive, TypeOK
      <3>2. \A s \in Socket : Range(down'[s]) \subseteq Range(down[s])
        BY <3>1, Taken
      <3> QED
        BY <3>1, <3>2, WireKept DEF Busy
    <2>2. CASE ReadFails
      BY <1>3, <2>2 DEF ReadFails
    <2>3. CASE Mark
      BY <1>3, <2>3 DEF Mark, SocketClosed
    <2>4. CASE Drop
      BY <2>4, WireEnd, WireKept DEF Drop, Busy
    <2>5. CASE Redial
      <3>1. CASE UNCHANGED go
        BY <1>3, <2>5, <3>1 DEF Redial
      <3>2. CASE opened < MaxSockets /\ GoTo(opened + 1, "checking")
        <4>1. opened + 1 \in Goroutine
          BY <3>2, CountType DEF Goroutine
        <4> QED
          BY <2>5, <3>2, <4>1, Moved, WireKept DEF Redial, Busy
      <3> QED
        BY <2>5, <3>1, <3>2 DEF Redial
    <2> QED
      BY <1>10, <2>1, <2>2, <2>3, <2>4, <2>5 DEF ReadLoop
  <1> QED
    BY <1>4, <1>5, <1>6, <1>7, <1>8, <1>9, <1>10 DEF Next

-----------------------------------------------------------------------------
(* The confirmation *)

\* A step that leaves the socket and the answers as they are, and confirms no join.
LEMMA ConfirmedKept ==
  ASSUME TypeOK, ConfirmedOK, UNCHANGED box,
         joinRef' = joinRef \/ (joinRef' = None /\ state' # "joined"),
         state' = "joined" => state = "joined",
         conn' \in {conn, None}, reader' = reader, accepted \subseteq accepted'
  PROVE  ConfirmedOK'
  BY DEF ConfirmedOK, JoinedConfirmed

LEMMA ConfirmedSocketClosed ==
  ASSUME TypeOK, SocketClosed, reader'.at = "reading" => conn' \in {None, reader'.sock}
  PROVE  ConfirmedOK'
  BY DEF ConfirmedOK, JoinedConfirmed, SocketClosed, UnderWay, TypeOK

LEMMA ConfirmedStep ==
  ASSUME TypeOK, RefsOK, WireOK, ConfirmedOK, Next
  PROVE  ConfirmedOK'
  <1> USE RefsTyped DEF netVars, serverVars, chanVars, replyVars
  <1>1. ASSUME NEW p \in Goroutine, Join(p)
        PROVE  ConfirmedOK'
    <2>1. CASE UnderWay
      BY <1>1, <2>1, ConfirmedKept DEF Join
    <2>2. CASE ~UnderWay
      <3>1. /\ lastRef + 1 \in Ref /\ joinRef' = lastRef + 1 /\ state' = "joining"
            /\ UNCHANGED <<box, conn, reader>>
        BY <1>1, <2>2 DEF Join, NextRef
      <3>2. box[lastRef + 1] = "none"
        BY <3>1 DEF RefsOK
      <3> QED
        BY <3>1, <3>2 DEF ConfirmedOK, JoinedConfirmed
    <2> QED
      BY <2>1, <2>2
  <1>2. ASSUME NEW p \in Caller, CallBegins(p)
        PROVE  ConfirmedOK'
    <2>1. p \in Goroutine
      BY DEF Goroutine
    <2>2. CASE Subscribe(p)
      BY <1>1, <2>1, <2>2 DEF Subscribe
    <2>3. CASE Unsubscribe(p)
      BY <2>3, ConfirmedKept DEF Unsubscribe
    <2>4. CASE Send(p)
      BY <2>4, ConfirmedKept DEF Send
    <2>5. CASE Request(p)
      BY <2>5, ConfirmedKept DEF Request
    <2>6. CASE Disconnect(p)
      BY <2>6, ConfirmedKept DEF Disconnect
    <2> QED
      BY <1>2, <2>2, <2>3, <2>4, <2>5, <2>6 DEF CallBegins
  <1>3. ASSUME NEW p \in Goroutine, GoesOn(p) \/ ContextEnds(p)
        PROVE  ConfirmedOK'
    <2>1. CASE Register(p)
      BY <2>1, ConfirmedKept DEF Register
    <2>2. CASE Write(p)
      BY <2>2, ConfirmedKept DEF Write
    <2>3. CASE WriteFailed(p)
      BY <2>3, ConfirmedKept DEF WriteFailed
    <2>4. CASE Answer(p)
      <3>1. /\ UNCHANGED <<box, joinRef, conn, reader, accepted>> /\ go[p].ref \in Ref
            /\ state' = state \/ state' = Outcome(go[p].ref)
        BY <2>4, WriteType DEF Answer, Busy
      <3>2. CASE state' = "joined" /\ state # "joined"
        <4>1. box[joinRef] = "ok" /\ joinRef # None
          BY <3>1, <3>2 DEF Outcome, Superseded
        <4> QED
          BY <3>1, <4>1 DEF ConfirmedOK, JoinedConfirmed
      <3>3. CASE ~(state' = "joined" /\ state # "joined")
        BY <3>1, <3>3, ConfirmedKept
      <3> QED
        BY <3>2, <3>3
    <2>5. CASE Close(p)
      BY <2>5, ConfirmedSocketClosed DEF Close, ConfirmedOK
    <2>6. CASE ContextEnds(p)
      BY <2>6, ConfirmedKept DEF ContextEnds, GivenUp
    <2> QED
      BY <1>3, <2>1, <2>2, <2>3, <2>4, <2>5, <2>6 DEF GoesOn
  <1>4. ASSUME NEW s \in Socket, Rejoining(s)
        PROVE  ConfirmedOK'
    <2>1. s \in Goroutine
      BY DEF Goroutine
    <2>2. CASE RejoinCheck(s)
      BY <2>2, ConfirmedKept DEF RejoinCheck
    <2>3. CASE Rejoin(s)
      BY <1>1, <2>1, <2>3 DEF Rejoin
    <2> QED
      BY <1>4, <2>2, <2>3 DEF Rejoining
  <1>5. ASSUME NEW s \in Socket, Break(s) \/ Serve(s) \/ ChannelCrash(s)
        PROVE  ConfirmedOK'
    <2>1. UNCHANGED <<box, state, joinRef, conn, reader>>
      BY <1>5 DEF Break, Serve, ChannelCrash
    <2>2. accepted \subseteq accepted'
      BY <1>5 DEF Break, End, Serve, TakeJoin, TakeLeave, TakePush, AnswerPush, Left, Leave, ChannelCrash
    <2> QED
      BY <2>1, <2>2, ConfirmedKept
  <1>6. CASE ReadLoop
    <2>1. CASE Receive
      <3> DEFINE f == Head(down[reader.sock])
      <3>1. /\ UNCHANGED <<joinRef, conn, reader, accepted>> /\ reader.at = "reading"
            /\ state' = "joined" => state = "joined"
        BY <2>1 DEF Receive
      <3>2. CASE joinRef # None /\ box'[joinRef] = "ok" /\ box[joinRef] # "ok" /\ conn # None
        <4>1. f.kind = "ok" /\ f.ref = joinRef
          BY <2>1, <3>2 DEF Receive
        <4>2. reader.sock \in Socket /\ f \in Range(down[reader.sock])
          BY <2>1, Taken DEF Receive, TypeOK
        <4>3. <<reader.sock, joinRef>> \in accepted
          BY <3>2, <4>1, <4>2 DEF WireOK
        <4>4. conn = reader.sock
          BY <3>1, <3>2 DEF ConfirmedOK
        <4> QED
          BY <3>1, <4>3, <4>4 DEF ConfirmedOK, JoinedConfirmed
      <3>3. CASE ~(joinRef # None /\ box'[joinRef] = "ok" /\ box[joinRef] # "ok" /\ conn # None)
        BY <3>1, <3>3 DEF ConfirmedOK, JoinedConfirmed
      <3> QED
        BY <3>2, <3>3
    <2>2. CASE ReadFails
      BY <2>2 DEF ReadFails, ConfirmedOK, JoinedConfirmed, TypeOK
    <2>3. CASE Mark
      <3>1. reader'.at = "dropping"
        BY <2>3 DEF Mark, TypeOK
      <3> QED
        BY <2>3, <3>1, ConfirmedSocketClosed DEF Mark
    <2>4. CASE Drop
      <3>1. UNCHANGED <<box, state, joinRef>> /\ conn' = None /\ reader.at = "dropping" /\ reader'.at = "redialing"
        BY <2>4 DEF Drop, TypeOK
      <3> QED
        BY <3>1 DEF ConfirmedOK, JoinedConfirmed
    <2>5. CASE Redial
      <3>1. UNCHANGED <<box, state, joinRef>> /\ reader.at = "redialing"
        BY <2>5 DEF Redial
      <3>2. reader'.at \in {"reading", "ended"} /\ (reader'.at = "reading" => conn' = reader'.sock)
        BY <2>5 DEF Redial, TypeOK
      <3> QED
        BY <3>1, <3>2 DEF ConfirmedOK, JoinedConfirmed
    <2> QED
      BY <1>6, <2>1, <2>2, <2>3, <2>4, <2>5 DEF ReadLoop
  <1> QED
    BY <1>2, <1>3, <1>4, <1>5, <1>6 DEF Next

-----------------------------------------------------------------------------
(* The theorems *)

IInv == TypeOK /\ RefsOK /\ StartedOK /\ JoinOK /\ WireOK /\ ConfirmedOK

LEMMA InitIInv == ASSUME Init PROVE IInv
  <1> USE NumberType DEF Init
  <1>1. TypeOK
    BY TypeInit
  <1>2. \A p \in Goroutine : go[p].at = "idle"
    BY DEF Idle
  <1>3. RefsOK
    BY <1>2 DEF RefsOK, AnsweredOnce, Busy, None
  <1>4. StartedOK /\ JoinOK
    BY <1>2 DEF StartedOK, JoinOK, JoiningIsAwaited, Goroutine
  <1>5. WireOK
    BY <1>2, NoFrames, NoPushes DEF WireOK, Busy
  <1>6. ConfirmedOK
    BY DEF ConfirmedOK, JoinedConfirmed
  <1> QED
    BY <1>1, <1>3, <1>4, <1>5, <1>6 DEF IInv

LEMMA IInvCorrect == Spec => []IInv
  <1>1. Init => IInv
    BY InitIInv
  <1>2. IInv /\ [Next]_vars => IInv'
    <2> SUFFICES ASSUME IInv, [Next]_vars PROVE IInv'
      OBVIOUS
    <2>1. CASE Next
      BY <2>1, TypeStep, RefsStep, StartedStep, JoinStep, WireStep, ConfirmedStep DEF IInv
    <2>2. CASE UNCHANGED vars
      BY <2>2 DEF vars, chanVars, replyVars, netVars, serverVars, IInv, TypeOK, RefsOK, StartedOK, JoinOK,
                  WireOK, ConfirmedOK, AnsweredOnce, JoiningIsAwaited, JoinedConfirmed, Busy
    <2> QED
      BY <2>1, <2>2
  <1> QED
    BY <1>1, <1>2, PTL DEF Spec

\* Every variable of the channel keeps the type channel.go gives it.
THEOREM TypeCorrect == Spec => []TypeOK
  BY IInvCorrect, PTL DEF IInv

\* No Go channel of replies is closed or sent to twice (channel.go 501-515, 570-580),
\* however many goroutines wait, whatever the order of replies, drops and Disconnect.
THEOREM AnsweredCorrect == Spec => []AnsweredOnce
  <1>1. IInv => AnsweredOnce
    BY DEF IInv, RefsOK
  <1> QED
    BY <1>1, IInvCorrect, PTL

\* A channel is never left joining with nobody at work on its join (channel.go 197, 524).
THEOREM AwaitedCorrect == Spec => []JoiningIsAwaited
  <1>1. IInv => JoiningIsAwaited
    BY DEF IInv, JoinOK
  <1> QED
    BY <1>1, IInvCorrect, PTL

\* Joined() is true only after the server accepted the channel's present join on the
\* socket in use (channel.go 185-186, 232-267).
THEOREM JoinedCorrect == Spec => []JoinedConfirmed
  <1>1. IInv => JoinedConfirmed
    BY DEF IInv, ConfirmedOK
  <1> QED
    BY <1>1, IInvCorrect, PTL
=============================================================================
