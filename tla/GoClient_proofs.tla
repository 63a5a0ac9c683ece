---------------------------- MODULE GoClient_proofs ----------------------------
(***************************************************************************)
(* Proofs about the Go SDK's connection: the client's loops (GoClient), for   *)
(* any number of goroutines and any bounds, and the binary frames that its   *)
(* read loop hands on (GoMedia, GoBinary), for frames of any length.          *)
(***************************************************************************)
EXTENDS GoClient, GoMedia, SequenceTheorems, TLAPS

-----------------------------------------------------------------------------
(* The inductive invariant *)

\* An attempt that is under way is one that reconnect() may still make, and one that
\* is over has a socket.
AttemptsOK ==
  \A l \in Life :
    /\ reader[l].at \in {"backoff", "dialing"} => reader[l].attempt < MaxReconnectTries
    /\ reader[l].at = "adopting" => reader[l].sock \in Socket

\* Until the first Disconnect, the loops are spawned once, by the Connect that set
\* started.
SpawnsOK ==
  /\ \A l \in Life : l > lives => reader[l].at = "none" /\ beater[l].at = "none"
  /\ ~done =>
       /\ \A p \in Caller : caller[p].at \notin {"detaching", "closing"}
       /\ ~started => lives = 0 /\ \A p \in Caller : caller[p].at # "spawning"
       /\ \A p \in Caller : caller[p].at = "spawning" => lives = 0
       /\ \A p, q \in Caller : caller[p].at = "spawning" /\ caller[q].at = "spawning" => p = q
       /\ lives <= 1

\* No probe is pending while there is no socket.
ProbeOK ==
  /\ ProbesPresentSocket
  /\ ~done /\ conn = None => pending = None

IInv == TypeOK /\ AttemptsOK /\ SpawnsOK /\ ProbeOK

-----------------------------------------------------------------------------
(* Types *)

CallerType == [at : AtCaller, sock : Socket \union {None}, life : Life \union {None}, first : BOOLEAN]
ReaderType == [at : AtReader, sock : Socket \union {None}, attempt : 0 .. MaxReconnectTries]
BeaterType == [at : AtBeater, sock : Socket \union {None}]

LEMMA NumberFacts ==
  /\ Socket \subseteq Nat /\ Life \subseteq Nat /\ None = 0 /\ None \notin Socket /\ None \notin Life
  /\ 0 \in 0 .. MaxReconnectTries /\ MaxReconnectTries \in Nat
  BY ConstAssumption DEF Socket, Life, None

LEMMA CountType ==
  ASSUME TypeOK
  PROVE  /\ Upset => upsets' \in 0 .. MaxUpsets
         /\ Call => calls' \in 0 .. MaxCalls
         /\ Opens => opened' \in 0 .. MaxSockets /\ opened + 1 \in Socket
         /\ lives < MaxLives => lives + 1 \in Life /\ lives + 1 \in 0 .. MaxLives
         /\ lives \in Nat
  BY ConstAssumption DEF TypeOK, Upset, Call, Opens, Socket, Life

LEMMA LoopTypes ==
  ASSUME TypeOK
  PROVE  /\ caller \in [Caller -> CallerType] /\ reader \in [Life -> ReaderType] /\ beater \in [Life -> BeaterType]
         /\ link \in [Socket -> {"none", "open", "silent", "lost", "closed"}]
         /\ conn \in Socket \union {None} /\ lives \in Nat
  BY CountType DEF TypeOK, CallerType, ReaderType, BeaterType

LEMMA CloseType ==
  ASSUME TypeOK, NEW s, Close(s) \/ CloseDead(s)
  PROVE  link' \in [Socket -> {"none", "open", "silent", "lost", "closed"}]
  BY DEF TypeOK, Close, CloseDead

LEMMA OpensType ==
  ASSUME TypeOK, Opens
  PROVE  link' \in [Socket -> {"none", "open", "silent", "lost", "closed"}]
  BY CountType DEF TypeOK, Opens

LEMMA IdleTypes ==
  /\ Idle \in CallerType /\ [Idle EXCEPT !.at = "spawning"] \in CallerType
  /\ \A b \in BOOLEAN : [Idle EXCEPT !.at = "detaching", !.first = b] \in CallerType
  /\ NewReader \in ReaderType /\ [NewReader EXCEPT !.at = "top"] \in ReaderType
  /\ NewBeater \in BeaterType /\ [NewBeater EXCEPT !.at = "waiting"] \in BeaterType
  BY NumberFacts DEF Idle, NewReader, NewBeater, CallerType, ReaderType, BeaterType, AtCaller, AtReader, AtBeater

\* A step of a read loop that goes to another place.
LEMMA Moved ==
  ASSUME TypeOK, NEW l \in Life, NEW place \in AtReader, NEW s \in Socket \union {None},
         \/ At(l, place)
         \/ reader' = [reader EXCEPT ![l].at = place, ![l].sock = s]
  PROVE  /\ reader' \in [Life -> ReaderType]
         /\ reader'[l].at = place /\ reader'[l].attempt = reader[l].attempt
         /\ \A k \in Life : k # l => reader'[k] = reader[k]
  <1>1. reader[l] \in ReaderType
    BY LoopTypes
  <1>2. [reader[l] EXCEPT !.at = place] \in ReaderType /\ [reader[l] EXCEPT !.at = place, !.sock = s] \in ReaderType
    BY <1>1 DEF ReaderType
  <1>3. \/ reader' = [reader EXCEPT ![l] = [reader[l] EXCEPT !.at = place]]
        \/ reader' = [reader EXCEPT ![l] = [reader[l] EXCEPT !.at = place, !.sock = s]]
    BY DEF At
  <1>4. reader' \in [Life -> ReaderType] /\ \A k \in Life : k # l => reader'[k] = reader[k]
    BY <1>2, <1>3, LoopTypes
  <1>5. reader'[l] \in {[reader[l] EXCEPT !.at = place], [reader[l] EXCEPT !.at = place, !.sock = s]}
    BY <1>3, LoopTypes
  <1> QED
    BY <1>1, <1>4, <1>5 DEF ReaderType

LEMMA Attempted ==
  ASSUME TypeOK, NEW l \in Life, NEW n \in 0 .. MaxReconnectTries, Attempt(l, n)
  PROVE  /\ reader' \in [Life -> ReaderType] /\ told' \in {"failed", "reconnecting"}
         /\ reader'[l].at \in {"ended", "backoff"} /\ reader'[l].attempt = n
         /\ reader'[l].at = "backoff" => n < MaxReconnectTries
         /\ \A k \in Life : k # l => reader'[k] = reader[k]
  <1> DEFINE m == [at |-> IF Tried(n) THEN "ended" ELSE "backoff", sock |-> None, attempt |-> n]
  <1>1. m \in ReaderType
    BY NumberFacts DEF ReaderType, AtReader
  <1>2. m.at \in {"ended", "backoff"} /\ m.attempt = n /\ (m.at = "backoff" => n < MaxReconnectTries)
    BY NumberFacts DEF Tried
  <1>3. reader' = [reader EXCEPT ![l] = m] /\ told' \in {"failed", "reconnecting"}
    BY DEF Attempt, GiveUpTold
  <1> HIDE DEF m
  <1> QED
    BY <1>1, <1>2, <1>3, LoopTypes

LEMMA TypeInit == ASSUME Init PROVE TypeOK
  <1>1. caller \in [Caller -> CallerType] /\ reader \in [Life -> ReaderType] /\ beater \in [Life -> BeaterType]
    BY IdleTypes DEF Init
  <1>2. 0 \in 0 .. MaxLives /\ 0 \in 0 .. MaxSockets /\ 0 \in 0 .. MaxUpsets /\ 0 \in 0 .. MaxCalls
    BY ConstAssumption
  <1> QED
    BY <1>1, <1>2, NumberFacts DEF Init, TypeOK, CallerType, ReaderType, BeaterType

\* A call of the application, or what it goes on with.
LEMMA CallerMoves ==
  ASSUME TypeOK, NEW p \in Caller, Connect(p) \/ Disconnect(p) \/ Return(p)
  PROVE  caller' \in [Caller -> CallerType]
  <1>1. caller \in [Caller -> CallerType] /\ caller[p] \in CallerType /\ conn \in Socket \union {None}
        /\ stop \in Life \union {None} /\ done \in BOOLEAN
    BY LoopTypes DEF TypeOK
  <1>2. \A place \in AtCaller, s \in Socket \union {None}, l \in Life \union {None} :
          /\ [caller[p] EXCEPT !.at = place] \in CallerType
          /\ [caller[p] EXCEPT !.at = place, !.sock = s] \in CallerType
          /\ [caller[p] EXCEPT !.at = place, !.sock = s, !.life = l] \in CallerType
    BY <1>1 DEF CallerType
  <1>3. CASE Connect(p)
    BY <1>1, <1>2, <1>3 DEF Connect, AtCaller
  <1>4. CASE Disconnect(p)
    BY <1>1, <1>4, IdleTypes DEF Disconnect
  <1>5. CASE Dial(p)
    <2>1. CASE Opens /\ caller' = [caller EXCEPT ![p].at = "adopting", ![p].sock = opened + 1]
      <3>1. opened + 1 \in Socket /\ "adopting" \in AtCaller
        BY <2>1, CountType DEF AtCaller
      <3>2. [caller[p] EXCEPT !.at = "adopting", !.sock = opened + 1] \in CallerType
        BY <1>2, <3>1
      <3> QED
        BY <1>1, <2>1, <3>2
    <2>2. CASE caller' = [caller EXCEPT ![p] = Idle]
      BY <1>1, <2>2, IdleTypes
    <2> QED
      BY <1>5, <2>1, <2>2 DEF Dial
  <1>6. CASE Adopt(p)
    BY <1>1, <1>6, IdleTypes DEF Adopt
  <1>7. CASE Spawn(p) \/ Shut(p)
    BY <1>1, <1>7, IdleTypes DEF Spawn, Shut
  <1>8. CASE Detach(p)
    <2>1. [caller[p] EXCEPT !.at = "closing", !.sock = conn, !.life = stop] \in CallerType
      BY <1>1, <1>2 DEF AtCaller
    <2> QED
      BY <1>1, <1>8, <2>1 DEF Detach
  <1> QED
    BY <1>3, <1>4, <1>5, <1>6, <1>7, <1>8 DEF Return

LEMMA Adopted ==
  ASSUME TypeOK, NEW p \in Caller
  PROVE  caller[p].sock \in Socket \union {None} /\ caller[p].life \in Life \union {None}
  BY LoopTypes DEF CallerType

LEMMA CallsType ==
  ASSUME TypeOK, NEW p \in Caller, Connect(p) \/ Disconnect(p) \/ Return(p)
  PROVE  TypeOK'
  <1> USE CallerMoves, LoopTypes, CountType DEF TypeOK, CallerType, ReaderType, BeaterType,
          connVars, probeVars, netVars, appVars
  <1>1. CASE Connect(p) \/ Disconnect(p)
    BY <1>1 DEF Connect, Disconnect
  <1>2. CASE Dial(p)
    BY <1>2, OpensType DEF Dial
  <1>3. CASE Adopt(p)
    BY <1>3, Adopted DEF Adopt, Forget
  <1>4. CASE Spawn(p)
    <2>1. lives + 1 \in Life
      BY <1>4 DEF Spawn
    <2>2. reader' = [reader EXCEPT ![lives + 1] = [reader[lives + 1] EXCEPT !.at = "top"]]
          /\ beater' = [beater EXCEPT ![lives + 1] = [beater[lives + 1] EXCEPT !.at = "waiting"]]
      BY <1>4 DEF Spawn
    <2>3. [reader[lives + 1] EXCEPT !.at = "top"] \in ReaderType /\ [beater[lives + 1] EXCEPT !.at = "waiting"] \in BeaterType
      BY <2>1 DEF AtReader, AtBeater
    <2>4. reader' \in [Life -> ReaderType] /\ beater' \in [Life -> BeaterType]
      BY <2>1, <2>2, <2>3
    <2> QED
      BY <1>4, <2>1, <2>4 DEF Spawn
  <1>5. CASE Detach(p)
    BY <1>5 DEF Detach
  <1>6. CASE Shut(p)
    BY <1>6, Adopted, CloseType DEF Shut
  <1> QED
    BY <1>1, <1>2, <1>3, <1>4, <1>5, <1>6 DEF Return

\* Where a step takes its read loop, and that it leaves the others alone.
LEMMA ReaderMoves ==
  ASSUME TypeOK, AttemptsOK, NEW l \in Life, ReadLoop(l)
  PROVE  /\ reader' \in [Life -> ReaderType]
         /\ reader[l].at # "none" /\ reader'[l].at # "none"
         /\ reader'[l].at \in {"backoff", "dialing"} => reader'[l].attempt < MaxReconnectTries
         /\ reader'[l].at = "adopting" => reader'[l].sock \in Socket
         /\ \A k \in Life : k # l => reader'[k] = reader[k]
  <1>1. reader \in [Life -> ReaderType] /\ conn \in Socket \union {None}
    BY LoopTypes
  <1>2. CASE Top(l)
    BY <1>2, Moved DEF Top, AtReader
  <1>3. CASE Pick(l)
    BY <1>1, <1>3, Moved DEF Pick, AtReader
  <1>4. CASE ReadFails(l)
    BY <1>4, Moved DEF ReadFails, AtReader
  <1>5. CASE HeartbeatReply(l)
    BY <1>1, <1>5 DEF HeartbeatReply
  <1>6. CASE DropConn(l)
    BY <1>6, Attempted, NumberFacts DEF DropConn
  <1>7. CASE Backoff(l)
    BY <1>7, Moved DEF Backoff, AtReader, AttemptsOK
  <1>8. CASE Redial(l)
    <2>1. CASE Opens /\ reader' = [reader EXCEPT ![l].at = "adopting", ![l].sock = opened + 1]
      <3>1. opened + 1 \in Socket /\ "adopting" \in AtReader
        BY <2>1, CountType DEF AtReader
      <3>2. reader'[l].sock = opened + 1
        BY <1>1, <2>1 DEF ReaderType
      <3> QED
        BY <1>8, <2>1, <3>1, <3>2, Moved DEF Redial
    <2>2. CASE Attempt(l, reader[l].attempt + 1)
      <3>1. reader[l].attempt + 1 \in 0 .. MaxReconnectTries
        BY <1>1, <1>8, NumberFacts DEF Redial, AttemptsOK, ReaderType
      <3> QED
        BY <1>8, <2>2, <3>1, Attempted DEF Redial
    <2> QED
      BY <1>8, <2>1, <2>2 DEF Redial
  <1>9. CASE AdoptRedial(l)
    BY <1>9, Moved DEF AdoptRedial, AtReader
  <1>10. CASE Announce(l)
    <2> DEFINE m == [NewReader EXCEPT !.at = "top"]
    <2>1. m \in ReaderType /\ m.at = "top"
      BY IdleTypes DEF NewReader
    <2>2. reader' = [reader EXCEPT ![l] = m] /\ reader[l].at = "announcing"
      BY <1>10 DEF Announce
    <2> HIDE DEF m
    <2> QED
      BY <1>1, <2>1, <2>2
  <1> QED
    BY <1>2, <1>3, <1>4, <1>5, <1>6, <1>7, <1>8, <1>9, <1>10 DEF ReadLoop

LEMMA LoopsType ==
  ASSUME TypeOK, AttemptsOK, NEW l \in Life, ReadLoop(l)
  PROVE  TypeOK'
  <1>1. reader' \in [Life -> ReaderType]
    BY ReaderMoves
  <1>2. \A k \in Life : reader[k].sock \in Socket \union {None} /\ reader[k].attempt \in 0 .. MaxReconnectTries
    BY LoopTypes DEF ReaderType
  <1> USE <1>1, LoopTypes, CountType DEF TypeOK, CallerType, ReaderType, BeaterType,
          connVars, probeVars, netVars, appVars
  <1>3. CASE Top(l) \/ Pick(l)
    BY <1>3 DEF Top, Pick
  <1>4. CASE ReadFails(l)
    BY <1>4, CloseType DEF ReadFails
  <1>5. CASE HeartbeatReply(l)
    BY <1>5 DEF HeartbeatReply, Forget
  <1>6. CASE DropConn(l)
    BY <1>6, CloseType, Attempted, NumberFacts DEF DropConn, ForgetOnDrop, Forget
  <1>7. CASE Backoff(l)
    BY <1>7 DEF Backoff
  <1>8. CASE Redial(l)
    <2>1. CASE Opens /\ UNCHANGED told
      BY <1>8, <2>1, OpensType DEF Redial
    <2>2. CASE Attempt(l, reader[l].attempt + 1) /\ UNCHANGED netVars
      BY <1>8, <2>2 DEF Redial, Attempt, GiveUpTold
    <2> QED
      BY <1>8, <2>1, <2>2 DEF Redial
  <1>9. CASE AdoptRedial(l)
    BY <1>2, <1>9 DEF AdoptRedial
  <1>10. CASE Announce(l)
    BY <1>10 DEF Announce
  <1> QED
    BY <1>3, <1>4, <1>5, <1>6, <1>7, <1>8, <1>9, <1>10 DEF ReadLoop

LEMMA BeaterMoves ==
  ASSUME TypeOK, NEW l \in Life, HeartbeatLoop(l)
  PROVE  /\ beater' \in [Life -> BeaterType] /\ beater[l].at # "none"
         /\ \A k \in Life : k # l => beater'[k] = beater[k]
  <1>1. beater \in [Life -> BeaterType] /\ beater[l] \in BeaterType /\ conn \in Socket \union {None}
    BY LoopTypes
  <1>2. \A place \in AtBeater, s \in Socket \union {None} :
          [beater[l] EXCEPT !.at = place] \in BeaterType /\ [beater[l] EXCEPT !.at = place, !.sock = s] \in BeaterType
    BY <1>1 DEF BeaterType
  <1>3. CASE Tick(l)
    <2>1. \/ beater' = [beater EXCEPT ![l] = [beater[l] EXCEPT !.at = "sending"]]
          \/ beater' = [beater EXCEPT ![l] = [beater[l] EXCEPT !.at = "closing", !.sock = conn]]
      BY <1>3 DEF Tick
    <2> QED
      BY <1>1, <1>2, <1>3, <2>1 DEF Tick, AtBeater
  <1>4. CASE SendProbe(l)
    BY <1>1, <1>2, <1>4 DEF SendProbe, AtBeater
  <1>5. CASE Unanswered(l)
    <2> DEFINE m == [NewBeater EXCEPT !.at = "waiting"]
    <2>1. m \in BeaterType
      BY IdleTypes
    <2>2. beater' = [beater EXCEPT ![l] = m] /\ beater[l].at = "closing"
      BY <1>5 DEF Unanswered
    <2> HIDE DEF m
    <2> QED
      BY <1>1, <2>1, <2>2
  <1>6. CASE BeaterEnds(l)
    BY <1>1, <1>2, <1>6 DEF BeaterEnds, AtBeater
  <1> QED
    BY <1>3, <1>4, <1>5, <1>6 DEF HeartbeatLoop

LEMMA BeatsType ==
  ASSUME TypeOK, NEW l \in Life, HeartbeatLoop(l)
  PROVE  TypeOK'
  <1> USE BeaterMoves, LoopTypes, CountType DEF TypeOK, CallerType, ReaderType, BeaterType,
          connVars, probeVars, netVars, appVars
  <1>1. CASE Tick(l)
    BY <1>1 DEF Tick
  <1>2. CASE SendProbe(l)
    BY <1>2 DEF SendProbe, Forget
  <1>3. CASE Unanswered(l)
    BY <1>3, CloseType DEF Unanswered
  <1>4. CASE BeaterEnds(l)
    BY <1>4 DEF BeaterEnds
  <1> QED
    BY <1>1, <1>2, <1>3, <1>4 DEF HeartbeatLoop

LEMMA TypeStep ==
  ASSUME TypeOK, AttemptsOK, Next
  PROVE  TypeOK'
  <1>1. ASSUME NEW s \in Socket, Break(s)
        PROVE  TypeOK'
    <2>1. link' \in [Socket -> {"none", "open", "silent", "lost", "closed"}]
      BY <1>1, LoopTypes DEF Break
    <2> QED
      BY <1>1, <2>1, CountType DEF Break, TypeOK, connVars, probeVars, appVars
  <1> QED
    BY <1>1, CallsType, LoopsType, BeatsType DEF Next

-----------------------------------------------------------------------------
(* The parts of the invariant *)

LEMMA AttemptsStep ==
  ASSUME TypeOK, AttemptsOK, Next
  PROVE  AttemptsOK'
  <1>1. ASSUME NEW p \in Caller, Spawn(p)
        PROVE  AttemptsOK'
    <2>1. reader' = [reader EXCEPT ![lives + 1] = [reader[lives + 1] EXCEPT !.at = "top"]] /\ lives + 1 \in Life
      BY <1>1, CountType DEF Spawn
    <2>2. reader'[lives + 1].at = "top" /\ \A k \in Life : k # lives + 1 => reader'[k] = reader[k]
      BY <2>1, LoopTypes DEF ReaderType
    <2> QED
      BY <2>2 DEF AttemptsOK
  <1>2. ASSUME UNCHANGED reader
        PROVE  AttemptsOK'
    BY <1>2 DEF AttemptsOK
  <1>3. ASSUME NEW p \in Caller, Connect(p) \/ Disconnect(p) \/ Dial(p) \/ Adopt(p) \/ Detach(p) \/ Shut(p)
        PROVE  AttemptsOK'
    BY <1>2, <1>3 DEF Connect, Disconnect, Dial, Adopt, Detach, Shut
  <1>4. ASSUME NEW l \in Life, ReadLoop(l)
        PROVE  AttemptsOK'
    BY <1>4, ReaderMoves DEF AttemptsOK
  <1>5. ASSUME NEW l \in Life, HeartbeatLoop(l)
        PROVE  AttemptsOK'
    BY <1>2, <1>5 DEF HeartbeatLoop, Tick, SendProbe, Unanswered, BeaterEnds
  <1>6. ASSUME NEW s \in Socket, Break(s)
        PROVE  AttemptsOK'
    BY <1>2, <1>6 DEF Break
  <1> QED
    BY <1>1, <1>3, <1>4, <1>5, <1>6 DEF Next, Return

LEMMA SpawnsStep ==
  ASSUME TypeOK, AttemptsOK, SpawnsOK, Next
  PROVE  SpawnsOK'
  <1> USE LoopTypes DEF connVars, appVars
  <1>1. ASSUME UNCHANGED <<reader, beater, lives, started, done, caller>>
        PROVE  SpawnsOK'
    BY <1>1 DEF SpawnsOK
  <1>2. ASSUME NEW p \in Caller, Connect(p) \/ Dial(p), UNCHANGED <<reader, beater, lives, started, done>>
        PROVE  SpawnsOK'
    <2>1. /\ \A q \in Caller : q # p => caller'[q] = caller[q]
          /\ caller'[p].at \in {"dialing", "adopting", "idle"}
      BY <1>2 DEF Connect, Dial, CallerType, Idle
    <2> QED
      BY <1>2, <2>1 DEF SpawnsOK
  <1>3. ASSUME NEW p \in Caller, Disconnect(p)
        PROVE  SpawnsOK'
    BY <1>3 DEF Disconnect, SpawnsOK
  <1>4. ASSUME NEW p \in Caller, Adopt(p)
        PROVE  SpawnsOK'
    <2>1. /\ UNCHANGED <<reader, beater, lives, done>> /\ started' = TRUE
          /\ \A q \in Caller : q # p => caller'[q] = caller[q]
          /\ caller'[p].at = (IF ~started THEN "spawning" ELSE "idle")
      BY <1>4 DEF Adopt, Spawns, Idle
    <2> QED
      BY <2>1 DEF SpawnsOK
  <1>5. ASSUME NEW p \in Caller, Spawn(p)
        PROVE  SpawnsOK'
    <2>1. /\ UNCHANGED <<done, started>> /\ lives' = lives + 1 /\ caller[p].at = "spawning"
          /\ \A q \in Caller : q # p => caller'[q] = caller[q]
          /\ caller'[p].at = "idle"
          /\ \A k \in Life : k # lives + 1 => reader'[k] = reader[k] /\ beater'[k] = beater[k]
      BY <1>5 DEF Spawn, Idle
    <2>2. \A k \in Life : k > lives' => k > lives /\ k # lives + 1
      BY <2>1, NumberFacts
    <2>3. \A l \in Life : l > lives' => reader'[l].at = "none" /\ beater'[l].at = "none"
      BY <2>1, <2>2 DEF SpawnsOK
    <2> QED
      BY <2>1, <2>3 DEF SpawnsOK
  <1>6. ASSUME NEW p \in Caller, Detach(p) \/ Shut(p)
        PROVE  SpawnsOK'
    BY <1>6 DEF Detach, Shut, SpawnsOK
  <1>7. ASSUME NEW l \in Life, ReadLoop(l)
        PROVE  SpawnsOK'
    <2>1. UNCHANGED <<beater, lives, started, done, caller>>
      BY <1>7 DEF ReadLoop, Top, Pick, ReadFails, HeartbeatReply, DropConn, Backoff, Redial, AdoptRedial, Announce
    <2>2. reader[l].at # "none" /\ \A k \in Life : k # l => reader'[k] = reader[k]
      BY <1>7, ReaderMoves
    <2> QED
      BY <2>1, <2>2 DEF SpawnsOK
  <1>8. ASSUME NEW l \in Life, HeartbeatLoop(l)
        PROVE  SpawnsOK'
    <2>1. UNCHANGED <<reader, lives, started, done, caller>>
      BY <1>8 DEF HeartbeatLoop, Tick, SendProbe, Unanswered, BeaterEnds
    <2>2. beater[l].at # "none" /\ \A k \in Life : k # l => beater'[k] = beater[k]
      BY <1>8, BeaterMoves
    <2> QED
      BY <2>1, <2>2 DEF SpawnsOK
  <1>9. ASSUME NEW s \in Socket, Break(s)
        PROVE  SpawnsOK'
    BY <1>1, <1>9 DEF Break
  <1>10. ASSUME NEW p \in Caller, Connect(p) \/ Dial(p)
         PROVE  SpawnsOK'
    BY <1>2, <1>10 DEF Connect, Dial
  <1> QED
    BY <1>3, <1>4, <1>5, <1>6, <1>7, <1>8, <1>9, <1>10 DEF Next, Return

LEMMA ProbeStep ==
  ASSUME TypeOK, AttemptsOK, SpawnsOK, ProbeOK, Next
  PROVE  ProbeOK'
  <1> USE LoopTypes, NumberFacts DEF connVars, probeVars, Forget, ProbeOK, ProbesPresentSocket
  <1>1. ASSUME UNCHANGED <<conn, probeVars, done, doubled>>
        PROVE  ProbeOK'
    BY <1>1
  <1>2. ASSUME NEW p \in Caller, Connect(p) \/ Disconnect(p) \/ Return(p)
        PROVE  ProbeOK'
    <2>1. CASE Connect(p) \/ Dial(p) \/ Spawn(p) \/ Shut(p)
      BY <1>1, <2>1 DEF Connect, Dial, Spawn, Shut
    <2>2. CASE Disconnect(p)
      BY <2>2 DEF Disconnect
    <2>3. CASE Adopt(p)
      BY <2>3 DEF Adopt
    <2>4. CASE Detach(p)
      BY <2>4 DEF Detach, SpawnsOK
    <2> QED
      BY <1>2, <2>1, <2>2, <2>3, <2>4 DEF Return
  <1>3. ASSUME NEW l \in Life, ReadLoop(l)
        PROVE  ProbeOK'
    <2>1. CASE Top(l) \/ Pick(l) \/ ReadFails(l) \/ Backoff(l) \/ Redial(l) \/ Announce(l)
      BY <1>1, <2>1 DEF Top, Pick, ReadFails, Backoff, Redial, Announce
    <2>2. CASE HeartbeatReply(l)
      BY <2>2 DEF HeartbeatReply
    <2>3. CASE DropConn(l)
      BY <2>3 DEF DropConn, ForgetOnDrop
    <2>4. CASE AdoptRedial(l)
      BY <2>4 DEF AdoptRedial, AttemptsOK
    <2> QED
      BY <1>3, <2>1, <2>2, <2>3, <2>4 DEF ReadLoop
  <1>4. ASSUME NEW l \in Life, HeartbeatLoop(l)
        PROVE  ProbeOK'
    <2>1. CASE Tick(l)
      BY <2>1 DEF Tick
    <2>2. CASE SendProbe(l)
      BY <2>2 DEF SendProbe
    <2>3. CASE Unanswered(l) \/ BeaterEnds(l)
      BY <1>1, <2>3 DEF Unanswered, BeaterEnds
    <2> QED
      BY <1>4, <2>1, <2>2, <2>3 DEF HeartbeatLoop
  <1>5. ASSUME NEW s \in Socket, Break(s)
        PROVE  ProbeOK'
    BY <1>1, <1>5 DEF Break
  <1> QED
    BY <1>2, <1>3, <1>4, <1>5 DEF Next

-----------------------------------------------------------------------------
(* The theorems *)

LEMMA InitIInv == ASSUME Init PROVE IInv
  <1>1. TypeOK
    BY TypeInit
  <1>2. AttemptsOK /\ SpawnsOK /\ ProbeOK
    BY NumberFacts DEF Init, AttemptsOK, SpawnsOK, ProbeOK, ProbesPresentSocket, Idle, NewReader, NewBeater
  <1> QED
    BY <1>1, <1>2 DEF IInv

LEMMA IInvCorrect == Spec => []IInv
  <1>1. Init => IInv
    BY InitIInv
  <1>2. IInv /\ [Next]_vars => IInv'
    <2> SUFFICES ASSUME IInv, [Next]_vars PROVE IInv'
      OBVIOUS
    <2>1. CASE Next
      BY <2>1, TypeStep, AttemptsStep, SpawnsStep, ProbeStep DEF IInv
    <2>2. CASE UNCHANGED vars
      BY <2>2 DEF vars, connVars, probeVars, appVars, netVars, IInv, TypeOK, AttemptsOK, SpawnsOK,
                  ProbeOK, ProbesPresentSocket
    <2> QED
      BY <2>1, <2>2
  <1> QED
    BY <1>1, <1>2, PTL DEF Spec

\* Every variable of the client keeps its type; in particular a reconnection never
\* makes more than MaxReconnectTries attempts (konet.go 493-495).
THEOREM TypeCorrect == Spec => []TypeOK
  BY IInvCorrect, PTL DEF IInv

\* One read loop and one heartbeat loop live across all reconnections, whatever
\* number of goroutines call Connect (konet.go 28-32, 169-185).
THEOREM LoopsCorrect == Spec => []LoopsOnce
  <1>1. IInv => LoopsOnce
    <2> SUFFICES ASSUME IInv, ~done, NEW l \in AtWork(reader) \union AtWork(beater),
                        NEW k \in AtWork(reader) \union AtWork(beater)
                 PROVE  l = k
      BY DEF LoopsOnce
    <2>1. l \in Life /\ k \in Life /\ lives \in Nat /\ ~(l > lives) /\ ~(k > lives) /\ lives <= 1
      BY CountType DEF AtWork, IInv, SpawnsOK
    <2> QED
      BY <2>1 DEF Life
  <1> QED
    BY <1>1, IInvCorrect, PTL

\* An unanswered probe never closes a socket it was not sent on (konet.go 438-442,
\* 480-484), whatever breaks and however often the client reconnects.
THEOREM ProbesCorrect == Spec => []ProbesPresentSocket
  <1>1. IInv => ProbesPresentSocket
    BY DEF IInv, ProbeOK
  <1> QED
    BY <1>1, IInvCorrect, PTL

-----------------------------------------------------------------------------
(* Cutting sequences up and putting them together *)

Bytes == Seq(Byte)

LEMMA Unwrapped ==
  ASSUME NEW m \in Nat, NEW k \in 0 .. m
  PROVE  k % (m + 1) = k
  <1>1. PICK n \in Nat : n = m + 1
    OBVIOUS
  <1>2. n > 0 /\ 0 <= k /\ k < n /\ k \in Int
    BY <1>1
  <1>3. k % n = k
    BY ONLY <1>2, n \in Nat
  <1> QED
    BY <1>1, <1>3

LEMMA SizeOfShort ==
  ASSUME NEW v \in Bytes, Len(v) <= ByteMax
  PROVE  Size(v) = Len(v) /\ Size(v) \in Byte
  <1>1. ByteMax \in Nat /\ Len(v) \in 0 .. ByteMax
    BY ByteAssumption DEF Bytes
  <1>2. Size(v) = Len(v)
    BY <1>1, Unwrapped DEF Size
  <1> QED
    BY <1>1, <1>2 DEF Byte

\* What a cut out of the first part of a sequence is.
LEMMA CutFirst ==
  ASSUME NEW S, NEW p \in Seq(S), NEW q \in Seq(S), NEW m \in Nat, NEW n \in Nat, m >= 1, n <= Len(p)
  PROVE  SubSeq(p \o q, m, n) = SubSeq(p, m, n)
<1>1. p \o q \in Seq(S) /\ Len(p \o q) = Len(p) + Len(q) /\ \A i \in 1 .. Len(p) : (p \o q)[i] = p[i]
  BY ConcatProperties
<1>2. \A i \in m .. n : (p \o q)[i] \in S /\ p[i] \in S /\ (p \o q)[i] = p[i]
  BY <1>1, ElementOfSeq
<1>3. /\ SubSeq(p \o q, m, n) \in Seq(S) /\ SubSeq(p, m, n) \in Seq(S)
      /\ Len(SubSeq(p \o q, m, n)) = Len(SubSeq(p, m, n))
      /\ \A i \in 1 .. n - m + 1 : SubSeq(p \o q, m, n)[i] = (p \o q)[m + i - 1] /\ SubSeq(p, m, n)[i] = p[m + i - 1]
      /\ Len(SubSeq(p, m, n)) = IF m <= n THEN n - m + 1 ELSE 0
  BY <1>2, SubSeqProperties
<1>4. \A i \in 1 .. Len(SubSeq(p \o q, m, n)) : SubSeq(p \o q, m, n)[i] = SubSeq(p, m, n)[i]
  BY <1>2, <1>3
<1> QED
  BY <1>3, <1>4, SeqEqual


\* r is p with x at its end: a cut at the end finds x, and cuts before it what they
\* found in p.
SameUpTo(m, r, p) ==
  /\ \A i \in 1 .. m : r[i] = p[i]
  /\ \A i, j \in Nat : i >= 1 /\ j <= m => SubSeq(r, i, j) = SubSeq(p, i, j)

Grown(S, p, x, r, m, n) ==
  /\ r \in Seq(S) /\ Len(r) = n
  /\ SubSeq(r, m + 1, n) = x
  /\ SameUpTo(m, r, p)

LEMMA SameThrough ==
  ASSUME NEW m \in Nat, NEW n \in Nat, m <= n, NEW s, NEW r, NEW p, SameUpTo(n, s, r), SameUpTo(m, r, p)
  PROVE  SameUpTo(m, s, p)
  BY DEF SameUpTo

LEMMA GrownCut ==
  ASSUME NEW S, NEW m \in Nat, NEW n \in Nat, NEW p, NEW x, NEW r, NEW s, Grown(S, p, x, r, m, n), SameUpTo(n, s, r)
  PROVE  SubSeq(s, m + 1, n) = x
<1>1. SubSeq(s, m + 1, n) = SubSeq(r, m + 1, n)
  BY DEF SameUpTo
<1> QED
  BY <1>1 DEF Grown

LEMMA Appended ==
  ASSUME NEW S, NEW p \in Seq(S), NEW x \in Seq(S), NEW r, r = p \o x,
         NEW m \in Nat, NEW n \in Nat, m = Len(p), n = m + Len(x)
  PROVE  Grown(S, p, x, r, m, n)
<1>1. /\ r \in Seq(S) /\ Len(r) = n
      /\ \A i \in 1 .. n : r[i] = IF i <= m THEN p[i] ELSE x[i - m]
  BY ConcatProperties
<1>2. \A i \in m + 1 .. n : r[i] \in S
  BY <1>1, ElementOfSeq
<1>3. /\ SubSeq(r, m + 1, n) \in Seq(S) /\ Len(SubSeq(r, m + 1, n)) = Len(x)
      /\ \A i \in 1 .. Len(x) : SubSeq(r, m + 1, n)[i] = r[m + 1 + i - 1]
  <2>1. Len(x) \in Nat
    BY LenProperties
  <2> QED
    BY <1>2, <2>1, SubSeqProperties
<1>4. \A i \in 1 .. Len(x) : SubSeq(r, m + 1, n)[i] = x[i]
  <2>1. Len(x) \in Nat
    BY LenProperties
  <2> QED
    BY <1>1, <1>3, <2>1
<1>5. SubSeq(r, m + 1, n) = x
  BY <1>3, <1>4, SeqEqual
<1>6. \A i, j \in Nat : i >= 1 /\ j <= m => SubSeq(r, i, j) = SubSeq(p, i, j)
  BY CutFirst
<1>7. \A i \in 1 .. m : r[i] = p[i]
  <2>1. Len(x) \in Nat
    BY LenProperties
  <2> QED
    BY <1>1, <2>1
<1> QED
  BY <1>1, <1>5, <1>6, <1>7 DEF Grown, SameUpTo

Ends(h, a, b, c, e, d, k0, k1, k2, k3, k4, k5) ==
  /\ k0 = Len(h) /\ k1 = k0 + Len(a) /\ k2 = k1 + Len(b) /\ k3 = k2 + Len(c)
  /\ k4 = k3 + Len(e) /\ k5 = k4 + Len(d)

CutUp(S, s, h, a, b, c, e, d, k0, k1, k2, k3, k4, k5) ==
  /\ s \in Seq(S) /\ Len(s) = k5
  /\ \A i \in 1 .. k0 : s[i] = h[i]
  /\ SubSeq(s, k0 + 1, k1) = a /\ SubSeq(s, k1 + 1, k2) = b /\ SubSeq(s, k2 + 1, k3) = c
  /\ SubSeq(s, k3 + 1, k4) = e /\ SubSeq(s, k4 + 1, k5) = d

\* A sequence put together from a header and five pieces is cut into them again.
LEMMA Pieces ==
  ASSUME NEW S, NEW h \in Seq(S), NEW a \in Seq(S), NEW b \in Seq(S), NEW c \in Seq(S),
         NEW e \in Seq(S), NEW d \in Seq(S),
         NEW s, s = h \o a \o b \o c \o e \o d,
         NEW k0 \in Nat, NEW k1 \in Nat, NEW k2 \in Nat, NEW k3 \in Nat, NEW k4 \in Nat, NEW k5 \in Nat,
         Ends(h, a, b, c, e, d, k0, k1, k2, k3, k4, k5)
  PROVE  CutUp(S, s, h, a, b, c, e, d, k0, k1, k2, k3, k4, k5)
<1>0. /\ k0 = Len(h) /\ k1 = k0 + Len(a) /\ k2 = k1 + Len(b) /\ k3 = k2 + Len(c)
      /\ k4 = k3 + Len(e) /\ k5 = k4 + Len(d)
  BY DEF Ends
<1>1. PICK p1 : p1 = h \o a
  OBVIOUS
<1>2. PICK p2 : p2 = p1 \o b
  OBVIOUS
<1>3. PICK p3 : p3 = p2 \o c
  OBVIOUS
<1>4. PICK p4 : p4 = p3 \o e
  OBVIOUS
<1>5. s = p4 \o d
  BY <1>1, <1>2, <1>3, <1>4
<1>6. Grown(S, h, a, p1, k0, k1) /\ p1 \in Seq(S) /\ Len(p1) = k1
  <2>1. Grown(S, h, a, p1, k0, k1)
    BY <1>0, <1>1, Appended
  <2> QED
    BY <2>1 DEF Grown
<1>7. Grown(S, p1, b, p2, k1, k2) /\ p2 \in Seq(S) /\ Len(p2) = k2
  <2>1. Grown(S, p1, b, p2, k1, k2)
    BY <1>0, <1>2, <1>6, Appended
  <2> QED
    BY <2>1 DEF Grown
<1>8. Grown(S, p2, c, p3, k2, k3) /\ p3 \in Seq(S) /\ Len(p3) = k3
  <2>1. Grown(S, p2, c, p3, k2, k3)
    BY <1>0, <1>3, <1>7, Appended
  <2> QED
    BY <2>1 DEF Grown
<1>9. Grown(S, p3, e, p4, k3, k4) /\ p4 \in Seq(S) /\ Len(p4) = k4
  <2>1. Grown(S, p3, e, p4, k3, k4)
    BY <1>0, <1>4, <1>8, Appended
  <2> QED
    BY <2>1 DEF Grown
<1>10. Grown(S, p4, d, s, k4, k5)
  BY <1>0, <1>5, <1>9, Appended
<1>11. k0 <= k1 /\ k1 <= k2 /\ k2 <= k3 /\ k3 <= k4
  BY <1>0, LenProperties
<1>12. SameUpTo(k4, s, p4)
  BY <1>10 DEF Grown
<1>13. SameUpTo(k3, s, p3)
  BY <1>9, <1>11, <1>12, SameThrough DEF Grown
<1>14. SameUpTo(k2, s, p2)
  BY <1>8, <1>11, <1>13, SameThrough DEF Grown
<1>15. SameUpTo(k1, s, p1)
  BY <1>7, <1>11, <1>14, SameThrough DEF Grown
<1>16. SubSeq(s, k0 + 1, k1) = a
  BY <1>6, <1>15, GrownCut
<1>17. SubSeq(s, k1 + 1, k2) = b
  BY <1>7, <1>14, GrownCut
<1>18. SubSeq(s, k2 + 1, k3) = c
  BY <1>8, <1>13, GrownCut
<1>19. SubSeq(s, k3 + 1, k4) = e
  BY <1>9, <1>12, GrownCut
<1>20. SubSeq(s, k4 + 1, k5) = d /\ s \in Seq(S) /\ Len(s) = k5
  BY <1>10 DEF Grown
<1>21. \A i \in 1 .. k0 : s[i] = h[i]
  <2>1. SameUpTo(k0, s, h)
    BY <1>6, <1>11, <1>15, SameThrough DEF Grown
  <2> QED
    BY <2>1 DEF SameUpTo
<1> QED
  BY <1>16, <1>17, <1>18, <1>19, <1>20, <1>21 DEF CutUp


-----------------------------------------------------------------------------
(* The framing *)

Short == {v \in Bytes : Len(v) <= ByteMax}
AnyFrame == [kind : Nat, joinRef : Short, ref : Short, topic : Short, event : Short, data : Bytes]

SizeField(refs, f, k) == IF k \in refs THEN <<Size(f[k])>> ELSE <<>>
ValueOf(refs, f, k) == IF k \in refs THEN f[k] ELSE <<>>
Header(kind, refs, f) ==
  <<kind>> \o SizeField(refs, f, "joinRef") \o SizeField(refs, f, "ref") \o <<Size(f.topic), Size(f.event)>>

LEMMA ConcatTwo ==
  ASSUME NEW S, NEW a \in Seq(S), NEW x \in S, NEW y \in S, NEW n \in Nat, n = Len(a)
  PROVE  /\ a \o <<x>> \in Seq(S) /\ Len(a \o <<x>>) = n + 1
         /\ \A i \in 1 .. n : (a \o <<x>>)[i] = a[i]
         /\ (a \o <<x>>)[n + 1] = x
         /\ a \o <<x, y>> \in Seq(S) /\ Len(a \o <<x, y>>) = n + 2
         /\ \A i \in 1 .. n : (a \o <<x, y>>)[i] = a[i]
         /\ (a \o <<x, y>>)[n + 1] = x /\ (a \o <<x, y>>)[n + 2] = y
<1>1. <<x>> \in Seq(S) /\ Len(<<x>>) = 1 /\ <<x>>[1] = x
  OBVIOUS
<1>2. <<x, y>> \in Seq(S) /\ Len(<<x, y>>) = 2 /\ <<x, y>>[1] = x /\ <<x, y>>[2] = y
  OBVIOUS
<1> QED
  BY <1>1, <1>2, ConcatProperties

LEMMA HeaderRead ==
  ASSUME NEW kind \in Byte, NEW refs \in SUBSET ClientRefs, NEW f \in AnyFrame,
         NEW j, j = IF "joinRef" \in refs THEN 1 ELSE 0,
         NEW r, r = IF "ref" \in refs THEN 1 ELSE 0,
         NEW h, h = Header(kind, refs, f)
  PROVE  /\ h \in Bytes /\ Len(h) = 3 + j + r /\ h[1] = kind
         /\ j = 1 => h[2] = Len(f.joinRef)
         /\ r = 1 => h[2 + j] = Len(f.ref)
         /\ h[2 + j + r] = Len(f.topic) /\ h[3 + j + r] = Len(f.event)
<1>1. /\ Size(f.joinRef) = Len(f.joinRef) /\ Size(f.joinRef) \in Byte
      /\ Size(f.ref) = Len(f.ref) /\ Size(f.ref) \in Byte
      /\ Size(f.topic) = Len(f.topic) /\ Size(f.topic) \in Byte
      /\ Size(f.event) = Len(f.event) /\ Size(f.event) \in Byte
  BY SizeOfShort DEF AnyFrame, Short
<1>2. <<kind>> \in Seq(Byte) /\ Len(<<kind>>) = 1 /\ <<kind>>[1] = kind
  OBVIOUS
<1>3. j \in {0, 1} /\ r \in {0, 1}
  OBVIOUS
<1>4. PICK a : a = <<kind>> \o SizeField(refs, f, "joinRef")
  OBVIOUS
<1>5. PICK b : b = a \o SizeField(refs, f, "ref")
  OBVIOUS
<1>6. a \in Seq(Byte) /\ Len(a) = 1 + j /\ a[1] = kind /\ (j = 1 => a[2] = Len(f.joinRef))
  <2>1. CASE j = 1
    BY <1>1, <1>2, <1>4, <2>1, ConcatTwo DEF SizeField
  <2>2. CASE j = 0
    BY <1>2, <1>4, <2>2, ConcatEmptySeq DEF SizeField
  <2> QED
    BY <1>3, <2>1, <2>2
<1>7. b \in Seq(Byte) /\ Len(b) = 1 + j + r /\ b[1] = kind /\ (j = 1 => b[2] = Len(f.joinRef))
      /\ (r = 1 => b[2 + j] = Len(f.ref))
  <2>1. CASE r = 1
    <3>1. b = a \o <<Size(f.ref)>>
      BY <1>5, <2>1 DEF SizeField
    <3>2. PICK n \in Nat : n = 1 + j
      BY <1>3
    <3>3. /\ b \in Seq(Byte) /\ Len(b) = n + 1
          /\ \A i \in 1 .. n : b[i] = a[i]
          /\ b[n + 1] = Size(f.ref)
      BY <1>1, <1>6, <3>1, <3>2, ConcatTwo
    <3> QED
      BY <1>1, <1>3, <1>6, <2>1, <3>2, <3>3
  <2>2. CASE r = 0
    <3>1. b = a
      BY <1>5, <1>6, <2>2, ConcatEmptySeq DEF SizeField
    <3>2. 1 + j + r = 1 + j
      BY <1>3, <2>2
    <3>3. ~(r = 1)
      BY <2>2
    <3> QED
      BY <1>6, <3>1, <3>2, <3>3
  <2> QED
    BY <1>3, <2>1, <2>2
<1>8. h = b \o <<Size(f.topic), Size(f.event)>>
  BY <1>4, <1>5 DEF Header
<1>9. PICK n \in Nat : n = 1 + j + r
  BY <1>3
<1>10. /\ h \in Seq(Byte) /\ Len(h) = n + 2
       /\ \A i \in 1 .. n : h[i] = b[i]
       /\ h[n + 1] = Size(f.topic) /\ h[n + 2] = Size(f.event)
  <2>1. PICK x \in Byte, y \in Byte : x = Size(f.topic) /\ y = Size(f.event)
    BY <1>1
  <2>2. n = Len(b) /\ b \in Seq(Byte) /\ h = b \o <<x, y>>
    BY <1>7, <1>8, <1>9, <2>1
  <2> QED
    BY <2>1, <2>2, ConcatTwo
<1> QED
  BY <1>1, <1>3, <1>7, <1>9, <1>10 DEF Bytes

\* What an encoded frame is decoded to: what was encoded, without the refs that its
\* layout leaves out.
LEMMA EncodedDecodes ==
  ASSUME NEW kind \in Byte, NEW refs \in SUBSET ClientRefs, NEW f \in AnyFrame
  PROVE  /\ Encode(kind, refs, f) \in Bytes
         /\ Encode(kind, refs, f) # <<>> /\ Encode(kind, refs, f)[1] = kind
         /\ Decode(refs, Encode(kind, refs, f)) =
              [kind |-> kind, joinRef |-> ValueOf(refs, f, "joinRef"), ref |-> ValueOf(refs, f, "ref"),
               topic |-> f.topic, event |-> f.event, data |-> f.data]
<1>1. PICK j : j = IF "joinRef" \in refs THEN 1 ELSE 0
  OBVIOUS
<1>2. PICK r : r = IF "ref" \in refs THEN 1 ELSE 0
  OBVIOUS
<1>3. PICK h : h = Header(kind, refs, f)
  OBVIOUS
<1>4. PICK va : va = ValueOf(refs, f, "joinRef")
  OBVIOUS
<1>5. PICK vb : vb = ValueOf(refs, f, "ref")
  OBVIOUS
<1>6. PICK s : s = Encode(kind, refs, f)
  OBVIOUS
<1>0. PICK t, e, d : t = f.topic /\ e = f.event /\ d = f.data
  OBVIOUS
<1>7. /\ h \in Bytes /\ Len(h) = 3 + j + r /\ h[1] = kind
      /\ j = 1 => h[2] = Len(f.joinRef)
      /\ r = 1 => h[2 + j] = Len(f.ref)
      /\ h[2 + j + r] = Len(t) /\ h[3 + j + r] = Len(e)
  BY <1>0, <1>1, <1>2, <1>3, HeaderRead
<1>8. s = h \o va \o vb \o t \o e \o d
  BY <1>0, <1>3, <1>4, <1>5, <1>6 DEF Encode, Header, SizeField, ValueOf
<1>9. /\ va \in Bytes /\ vb \in Bytes /\ t \in Bytes /\ e \in Bytes /\ d \in Bytes
      /\ Len(va) \in Nat /\ Len(vb) \in Nat /\ Len(t) \in Nat /\ Len(e) \in Nat /\ Len(d) \in Nat
  <2>1. va \in Bytes /\ vb \in Bytes /\ t \in Bytes /\ e \in Bytes /\ d \in Bytes
    BY <1>0, <1>4, <1>5, EmptySeq DEF ValueOf, AnyFrame, Short, Bytes
  <2> QED
    BY <2>1, LenProperties DEF Bytes
<1>10. j \in {0, 1} /\ r \in {0, 1}
  BY <1>1, <1>2
<1>11. Len(va) = (IF j = 1 THEN h[2] ELSE 0) /\ Len(vb) = (IF r = 1 THEN h[2 + j] ELSE 0)
  <2>1. Len(va) = (IF j = 1 THEN h[2] ELSE 0)
    BY <1>1, <1>4, <1>7 DEF ValueOf
  <2>2. Len(vb) = (IF r = 1 THEN h[2 + j] ELSE 0)
    BY <1>2, <1>5, <1>7 DEF ValueOf
  <2> QED
    BY <2>1, <2>2
<1>12. PICK k0 \in Nat : k0 = 3 + j + r
  BY <1>10
<1>13. PICK k1 \in Nat : k1 = k0 + Len(va)
  BY <1>9
<1>14. PICK k2 \in Nat : k2 = k1 + Len(vb)
  BY <1>9
<1>15. PICK k3 \in Nat : k3 = k2 + Len(t)
  BY <1>9
<1>16. PICK k4 \in Nat : k4 = k3 + Len(e)
  BY <1>9
<1>17. PICK k5 \in Nat : k5 = k4 + Len(d)
  BY <1>9
<1>18. /\ s \in Bytes /\ Len(s) = k5
       /\ \A i \in 1 .. k0 : s[i] = h[i]
       /\ SubSeq(s, k0 + 1, k1) = va /\ SubSeq(s, k1 + 1, k2) = vb /\ SubSeq(s, k2 + 1, k3) = t
       /\ SubSeq(s, k3 + 1, k4) = e /\ SubSeq(s, k4 + 1, k5) = d
  <2>1. k0 = Len(h)
    BY <1>7, <1>12
  <2>2. h \in Seq(Byte) /\ va \in Seq(Byte) /\ vb \in Seq(Byte) /\ t \in Seq(Byte) /\ e \in Seq(Byte) /\ d \in Seq(Byte)
    BY <1>7, <1>9 DEF Bytes
  <2>3. Ends(h, va, vb, t, e, d, k0, k1, k2, k3, k4, k5)
    BY <2>1, <1>13, <1>14, <1>15, <1>16, <1>17 DEF Ends
  <2>4. CutUp(Byte, s, h, va, vb, t, e, d, k0, k1, k2, k3, k4, k5)
    BY <1>8, <2>2, <2>3, Pieces
  <2> QED
    BY <2>4 DEF CutUp, Bytes
<1>19. k5 >= k4 /\ k4 >= k0 /\ k0 >= 3
  <2>1. k1 >= k0 /\ k2 >= k1 /\ k3 >= k2 /\ k4 >= k3 /\ k5 >= k4
    BY <1>9, <1>13, <1>14, <1>15, <1>16, <1>17
  <2> QED
    BY <1>10, <1>12, <2>1
<1>20. /\ s[1] = kind /\ (j = 1 => s[2] = h[2]) /\ (r = 1 => s[2 + j] = h[2 + j])
       /\ s[2 + j + r] = Len(t) /\ s[3 + j + r] = Len(e)
  <2>1. 1 \in 1 .. k0 /\ 2 \in 1 .. k0 /\ 2 + j \in 1 .. k0 /\ 2 + j + r \in 1 .. k0 /\ 3 + j + r \in 1 .. k0
    BY <1>10, <1>12
  <2>2. \A i \in 1 .. k0 : s[i] = h[i]
    BY <1>18
  <2> QED
    BY <1>7, <2>1, <2>2
<1>21. /\ (3 + j + r) + (IF j = 1 THEN s[2] ELSE 0) = k1
       /\ k1 + (IF r = 1 THEN s[2 + j] ELSE 0) = k2
       /\ k2 + s[2 + j + r] = k3 /\ k3 + s[3 + j + r] = k4
  <2>1. (IF j = 1 THEN s[2] ELSE 0) = Len(va) /\ (IF r = 1 THEN s[2 + j] ELSE 0) = Len(vb)
    BY <1>11, <1>20
  <2> QED
    BY <2>1, <1>12, <1>13, <1>14, <1>15, <1>16, <1>20
<1>22. Decode(refs, s) =
         [kind |-> s[1], joinRef |-> SubSeq(s, k0 + 1, k1), ref |-> SubSeq(s, k1 + 1, k2),
          topic |-> SubSeq(s, k2 + 1, k3), event |-> SubSeq(s, k3 + 1, k4), data |-> SubSeq(s, k4 + 1, k5)]
  <2>1. ~(Len(s) < 3 + j + r \/ k4 > Len(s))
    BY <1>18, <1>19, <1>12
  <2> QED
    BY <1>1, <1>2, <1>12, <1>18, <1>21, <2>1 DEF Decode
<1>23. s # <<>>
  BY <1>18, <1>19
<1> QED
  BY <1>0, <1>4, <1>5, <1>6, <1>18, <1>20, <1>22, <1>23

LEMMA CutType ==
  ASSUME NEW S, NEW s \in Seq(S), NEW m \in Nat, NEW n \in Nat, m <= n, n <= Len(s)
  PROVE  SubSeq(s, m + 1, n) \in Seq(S) /\ Len(SubSeq(s, m + 1, n)) = n - m
<1>1. Len(s) \in Nat
  BY LenProperties
<1>2. \A i \in m + 1 .. n : s[i] \in S
  BY <1>1, ElementOfSeq
<1> QED
  BY <1>2, SubSeqProperties

LEMMA CutOf ==
  ASSUME NEW S, NEW s \in Seq(S), NEW m \in Nat, NEW n \in Nat, NEW x \in Nat, n = m + x, n <= Len(s),
         NEW q, q = SubSeq(s, m + 1, n)
  PROVE  q \in Seq(S) /\ Len(q) = x
<1>1. m <= n /\ n - m = x
  OBVIOUS
<1> QED
  BY <1>1, CutType

LEMMA GluedTwo ==
  ASSUME NEW S, NEW s \in Seq(S), NEW m \in Nat, NEW n \in Nat, m <= n, n <= Len(s)
  PROVE  SubSeq(s, 1, m) \o SubSeq(s, m + 1, n) = SubSeq(s, 1, n)
<1>1. Len(s) \in Nat
  BY LenProperties
<1>2. 1 \in 1 .. Len(s) + 1 /\ m \in 1 - 1 .. Len(s) /\ n \in m .. Len(s)
  BY <1>1
<1> QED
  BY <1>2, ConcatAdjacentSubSeq

FiveCuts(s, a, b, c, e, d, k0, k1, k2, k3, k4, k5) ==
  /\ k0 <= k1 /\ k1 <= k2 /\ k2 <= k3 /\ k3 <= k4 /\ k4 <= k5 /\ k5 = Len(s)
  /\ a = SubSeq(s, k0 + 1, k1) /\ b = SubSeq(s, k1 + 1, k2) /\ c = SubSeq(s, k2 + 1, k3)
  /\ e = SubSeq(s, k3 + 1, k4) /\ d = SubSeq(s, k4 + 1, k5)

GluedTo(s, k0, a, b, c, e, d) == SubSeq(s, 1, k0) \o a \o b \o c \o e \o d = s

\* Cut into a header and five pieces and put together again, a sequence is itself.
LEMMA Glued ==
  ASSUME NEW S, NEW s \in Seq(S),
         NEW k0 \in Nat, NEW k1 \in Nat, NEW k2 \in Nat, NEW k3 \in Nat, NEW k4 \in Nat, NEW k5 \in Nat,
         NEW a, NEW b, NEW c, NEW e, NEW d, FiveCuts(s, a, b, c, e, d, k0, k1, k2, k3, k4, k5)
  PROVE  GluedTo(s, k0, a, b, c, e, d)
<1>0. /\ k0 <= k1 /\ k1 <= k2 /\ k2 <= k3 /\ k3 <= k4 /\ k4 <= k5 /\ k5 = Len(s)
      /\ a = SubSeq(s, k0 + 1, k1) /\ b = SubSeq(s, k1 + 1, k2) /\ c = SubSeq(s, k2 + 1, k3)
      /\ e = SubSeq(s, k3 + 1, k4) /\ d = SubSeq(s, k4 + 1, k5)
  BY DEF FiveCuts
<1>1. k1 <= Len(s) /\ k2 <= Len(s) /\ k3 <= Len(s) /\ k4 <= Len(s) /\ k5 <= Len(s)
  BY <1>0
<1>2. SubSeq(s, 1, k0) \o a = SubSeq(s, 1, k1)
  BY <1>0, <1>1, GluedTwo
<1>3. SubSeq(s, 1, k1) \o b = SubSeq(s, 1, k2)
  BY <1>0, <1>1, GluedTwo
<1>4. SubSeq(s, 1, k2) \o c = SubSeq(s, 1, k3)
  BY <1>0, <1>1, GluedTwo
<1>5. SubSeq(s, 1, k3) \o e = SubSeq(s, 1, k4)
  BY <1>0, <1>1, GluedTwo
<1>6. SubSeq(s, 1, k4) \o d = SubSeq(s, 1, k5)
  BY <1>0, <1>1, GluedTwo
<1>7. SubSeq(s, 1, k5) = s
  BY <1>0, SubSeqFull
<1> QED
  BY <1>2, <1>3, <1>4, <1>5, <1>6, <1>7 DEF GluedTo

\* The bytes that carry the lengths of the four fields, and the places where the
\* header and the fields of a frame f end.
Lengths(s, j, r, x, y, z, w) ==
  /\ x = IF j = 1 THEN s[2] ELSE 0
  /\ y = IF r = 1 THEN s[2 + j] ELSE 0
  /\ z = s[2 + j + r] /\ w = s[3 + j + r]

Places(s, f, x, y, z, w, k0, k1, k2, k3, k4, k5) ==
  /\ k1 = k0 + x /\ k2 = k1 + y /\ k3 = k2 + z /\ k4 = k3 + w /\ k4 <= k5 /\ k5 = Len(s)
  /\ f = [kind |-> s[1], joinRef |-> SubSeq(s, k0 + 1, k1), ref |-> SubSeq(s, k1 + 1, k2),
          topic |-> SubSeq(s, k2 + 1, k3), event |-> SubSeq(s, k3 + 1, k4), data |-> SubSeq(s, k4 + 1, k5)]

HasPlaces(s, f, j, r) ==
  \E x, y, z, w, k0, k1, k2, k3, k4, k5 \in Nat :
    /\ k0 = 3 + j + r /\ Lengths(s, j, r, x, y, z, w)
    /\ Places(s, f, x, y, z, w, k0, k1, k2, k3, k4, k5)

\* Where a frame that is not refused has its header and its fields.
LEMMA DecodedCuts ==
  ASSUME NEW refs \in SUBSET ClientRefs, NEW s \in Bytes, s # <<>>,
         NEW f, f = Decode(refs, s), f # Refused,
         NEW j, j = IF "joinRef" \in refs THEN 1 ELSE 0,
         NEW r, r = IF "ref" \in refs THEN 1 ELSE 0
  PROVE  HasPlaces(s, f, j, r)
<1>1. j \in {0, 1} /\ r \in {0, 1}
  OBVIOUS
<1>2. PICK k5 \in Nat : k5 = Len(s)
  BY LenProperties DEF Bytes
<1>3. PICK k0 \in Nat : k0 = 3 + j + r
  BY <1>1
<1>4. k0 <= k5
  BY <1>2, <1>3 DEF Decode
<1>5. /\ (j = 1 => s[2] \in Byte) /\ (r = 1 => s[2 + j] \in Byte)
      /\ s[2 + j + r] \in Byte /\ s[3 + j + r] \in Byte
  <2>1. 2 \in 1 .. k5 /\ 2 + j \in 1 .. k5 /\ 2 + j + r \in 1 .. k5 /\ 3 + j + r \in 1 .. k5
    BY <1>1, <1>3, <1>4
  <2> QED
    BY <1>2, <2>1, ElementOfSeq DEF Bytes
<1>6. Byte \subseteq Nat
  BY ByteAssumption DEF Byte
<1>7. PICK x \in Nat : x = IF j = 1 THEN s[2] ELSE 0
  BY <1>5, <1>6
<1>8. PICK y \in Nat : y = IF r = 1 THEN s[2 + j] ELSE 0
  BY <1>5, <1>6
<1>9. PICK z, w \in Nat : z = s[2 + j + r] /\ w = s[3 + j + r]
  BY <1>5, <1>6
<1>10. PICK k1 \in Nat : k1 = k0 + x
  OBVIOUS
<1>11. PICK k2 \in Nat : k2 = k1 + y
  OBVIOUS
<1>12. PICK k3 \in Nat : k3 = k2 + z
  OBVIOUS
<1>13. PICK k4 \in Nat : k4 = k3 + w
  OBVIOUS
<1>14. k4 <= k5
  BY <1>1, <1>2, <1>3, <1>7, <1>8, <1>9, <1>10, <1>11, <1>12, <1>13 DEF Decode
<1>15. f = [kind |-> s[1], joinRef |-> SubSeq(s, k0 + 1, k1), ref |-> SubSeq(s, k1 + 1, k2),
            topic |-> SubSeq(s, k2 + 1, k3), event |-> SubSeq(s, k3 + 1, k4), data |-> SubSeq(s, k4 + 1, k5)]
  BY <1>1, <1>2, <1>3, <1>7, <1>8, <1>9, <1>10, <1>11, <1>12, <1>13 DEF Decode
<1>16. Lengths(s, j, r, x, y, z, w)
  BY <1>7, <1>8, <1>9 DEF Lengths
<1>17. Places(s, f, x, y, z, w, k0, k1, k2, k3, k4, k5)
  BY <1>2, <1>10, <1>11, <1>12, <1>13, <1>14, <1>15 DEF Places
<1> QED
  BY <1>3, <1>16, <1>17 DEF HasPlaces

\* What is decoded and not refused is encoded to the bytes it came from.
LEMMA DecodedEncodes ==
  ASSUME NEW refs \in SUBSET ClientRefs, NEW s \in Bytes, s # <<>>,
         NEW f, f = Decode(refs, s), f # Refused
  PROVE  Encode(s[1], refs, f) = s /\ f.kind = s[1] /\ f \in AnyFrame
<1>1. PICK j : j = IF "joinRef" \in refs THEN 1 ELSE 0
  OBVIOUS
<1>2. PICK r : r = IF "ref" \in refs THEN 1 ELSE 0
  OBVIOUS
<1>3. PICK x, y, z, w, k0, k1, k2, k3, k4, k5 \in Nat :
         /\ k0 = 3 + j + r /\ Lengths(s, j, r, x, y, z, w)
         /\ Places(s, f, x, y, z, w, k0, k1, k2, k3, k4, k5)
  <2>1. HasPlaces(s, f, j, r)
    BY <1>1, <1>2, DecodedCuts
  <2> QED
    BY <2>1 DEF HasPlaces
<1>4. k1 = k0 + x /\ k2 = k1 + y /\ k3 = k2 + z /\ k4 = k3 + w /\ k4 <= k5 /\ k5 = Len(s)
  BY <1>3 DEF Places
<1>5. j \in {0, 1} /\ r \in {0, 1} /\ k0 = 3 + j + r
  BY <1>1, <1>2, <1>3
<1>6. k0 <= k1 /\ k1 <= k2 /\ k2 <= k3 /\ k3 <= k4 /\ k4 <= k5 /\ k1 <= k5 /\ k2 <= k5 /\ k3 <= k5
  BY <1>4
<1>7. s \in Seq(Byte) /\ Byte \subseteq Nat /\ (\A i \in 1 .. k5 : s[i] \in Byte)
  BY <1>4, ElementOfSeq, ByteAssumption DEF Bytes, Byte
<1>19. s \in Seq(Byte) /\ k1 <= Len(s) /\ k2 <= Len(s) /\ k3 <= Len(s) /\ k4 <= Len(s) /\ k5 <= Len(s)
  BY <1>4, <1>6, <1>7
<1>8. 1 \in 1 .. k5 /\ 2 \in 1 .. k5 /\ 2 + j \in 1 .. k5 /\ 2 + j + r \in 1 .. k5 /\ 3 + j + r \in 1 .. k5
  BY <1>5, <1>6
<1>9. /\ f.kind = s[1] /\ f.joinRef = SubSeq(s, k0 + 1, k1) /\ f.ref = SubSeq(s, k1 + 1, k2)
      /\ f.topic = SubSeq(s, k2 + 1, k3) /\ f.event = SubSeq(s, k3 + 1, k4) /\ f.data = SubSeq(s, k4 + 1, k5)
      /\ f = [kind |-> f.kind, joinRef |-> f.joinRef, ref |-> f.ref, topic |-> f.topic, event |-> f.event, data |-> f.data]
  <2>1. PICK a, b, c, e, d : /\ a = SubSeq(s, k0 + 1, k1) /\ b = SubSeq(s, k1 + 1, k2) /\ c = SubSeq(s, k2 + 1, k3)
                             /\ e = SubSeq(s, k3 + 1, k4) /\ d = SubSeq(s, k4 + 1, k5)
    OBVIOUS
  <2>2. f = [kind |-> s[1], joinRef |-> a, ref |-> b, topic |-> c, event |-> e, data |-> d]
    BY <1>3, <2>1, Zenon DEF Places
  <2>3. /\ f.kind = s[1] /\ f.joinRef = a /\ f.ref = b /\ f.topic = c /\ f.event = e /\ f.data = d
    BY <2>2
  <2> QED
    BY <2>1, <2>2, <2>3, Zenon
<1>10. /\ f.joinRef \in Seq(Byte) /\ Len(f.joinRef) = x /\ f.ref \in Seq(Byte) /\ Len(f.ref) = y
       /\ f.topic \in Seq(Byte) /\ Len(f.topic) = z /\ f.event \in Seq(Byte) /\ Len(f.event) = w
       /\ f.data \in Seq(Byte)
  <2>1. f.joinRef \in Seq(Byte) /\ Len(f.joinRef) = x
    <3>1. k1 = k0 + x
      BY <1>4
    <3>2. f.joinRef = SubSeq(s, k0 + 1, k1)
      BY <1>9
    <3> QED
      BY <1>19, <3>1, <3>2, CutOf
  <2>2. f.ref \in Seq(Byte) /\ Len(f.ref) = y
    <3>1. k2 = k1 + y
      BY <1>4
    <3>2. f.ref = SubSeq(s, k1 + 1, k2)
      BY <1>9
    <3> QED
      BY <1>19, <3>1, <3>2, CutOf
  <2>3. f.topic \in Seq(Byte) /\ Len(f.topic) = z
    <3>1. k3 = k2 + z
      BY <1>4
    <3>2. f.topic = SubSeq(s, k2 + 1, k3)
      BY <1>9
    <3> QED
      BY <1>19, <3>1, <3>2, CutOf
  <2>4. f.event \in Seq(Byte) /\ Len(f.event) = w
    <3>1. k4 = k3 + w
      BY <1>4
    <3>2. f.event = SubSeq(s, k3 + 1, k4)
      BY <1>9
    <3> QED
      BY <1>19, <3>1, <3>2, CutOf
  <2>5. f.data \in Seq(Byte)
    <3>1. f.data = SubSeq(s, k4 + 1, k5) /\ k4 <= k5
      BY <1>4, <1>9
    <3> QED
      BY <1>19, <3>1, CutType
  <2> QED
    BY <2>1, <2>2, <2>3, <2>4, <2>5
<1>11. x <= ByteMax /\ y <= ByteMax /\ z <= ByteMax /\ w <= ByteMax
  <2>1. x \in Byte \union {0} /\ y \in Byte \union {0} /\ z \in Byte /\ w \in Byte
    BY <1>3, <1>7, <1>8 DEF Lengths
  <2> QED
    BY <2>1, ByteAssumption DEF Byte
<1>12. f \in AnyFrame
  <2>1. f.kind \in Nat
    BY <1>7, <1>8, <1>9
  <2>2. f.joinRef \in Short /\ f.ref \in Short /\ f.topic \in Short /\ f.event \in Short /\ f.data \in Bytes
    BY <1>10, <1>11 DEF Short, Bytes
  <2> QED
    BY <1>9, <2>1, <2>2 DEF AnyFrame
<1>13. PICK h : h = Header(s[1], refs, f)
  OBVIOUS
<1>14. /\ h \in Seq(Byte) /\ Len(h) = k0
       /\ h[1] = s[1] /\ (j = 1 => h[2] = x) /\ (r = 1 => h[2 + j] = y)
       /\ h[2 + j + r] = z /\ h[3 + j + r] = w
  <2>1. s[1] \in Byte
    BY <1>7, <1>8
  <2>2. /\ h \in Bytes /\ Len(h) = 3 + j + r /\ h[1] = s[1]
        /\ j = 1 => h[2] = Len(f.joinRef)
        /\ r = 1 => h[2 + j] = Len(f.ref)
        /\ h[2 + j + r] = Len(f.topic) /\ h[3 + j + r] = Len(f.event)
    BY <1>1, <1>2, <2>1, <1>12, <1>13, HeaderRead
  <2> QED
    BY <1>5, <1>10, <2>2 DEF Bytes
<1>15. h = SubSeq(s, 1, k0)
  <2>1. \A i \in 1 .. k0 : s[i] \in Byte
    BY <1>6, <1>7
  <2>2. /\ SubSeq(s, 1, k0) \in Seq(Byte) /\ Len(SubSeq(s, 1, k0)) = k0
        /\ \A i \in 1 .. k0 : SubSeq(s, 1, k0)[i] = s[i]
    <3>1. 1 <= k0
      BY <1>5
    <3> QED
      BY <3>1, <2>1, SubSeqProperties
  <2>3. \A i \in 1 .. k0 : h[i] = s[i]
    <3>1. /\ h[1] = s[1] /\ (j = 1 => h[2] = s[2]) /\ (r = 1 => h[2 + j] = s[2 + j])
          /\ h[2 + j + r] = s[2 + j + r] /\ h[3 + j + r] = s[3 + j + r]
      BY <1>3, <1>14 DEF Lengths
    <3>2. \A i \in 1 .. k0 : \/ i = 1 \/ (j = 1 /\ i = 2) \/ (r = 1 /\ i = 2 + j)
                             \/ i = 2 + j + r \/ i = 3 + j + r
      BY <1>5
    <3> QED
      BY <3>1, <3>2
  <2> QED
    BY <1>14, <2>2, <2>3, SeqEqual
<1>16. ValueOf(refs, f, "joinRef") = f.joinRef /\ ValueOf(refs, f, "ref") = f.ref
  <2>1. j = 0 => x = 0
    BY <1>3 DEF Lengths
  <2>2. r = 0 => y = 0
    BY <1>3 DEF Lengths
  <2>3. j = 0 => f.joinRef = <<>>
    BY <1>10, <2>1, EmptySeq
  <2>4. r = 0 => f.ref = <<>>
    BY <1>10, <2>2, EmptySeq
  <2> QED
    BY <1>1, <1>2, <2>3, <2>4 DEF ValueOf
<1>17. Encode(s[1], refs, f) = h \o f.joinRef \o f.ref \o f.topic \o f.event \o f.data
  BY <1>13, <1>16 DEF Encode, Header, SizeField, ValueOf
<1>18. SubSeq(s, 1, k0) \o f.joinRef \o f.ref \o f.topic \o f.event \o f.data = s
  <2>1. PICK a, b, c, e, d : a = f.joinRef /\ b = f.ref /\ c = f.topic /\ e = f.event /\ d = f.data
    OBVIOUS
  <2>2. /\ a = SubSeq(s, k0 + 1, k1) /\ b = SubSeq(s, k1 + 1, k2) /\ c = SubSeq(s, k2 + 1, k3)
        /\ e = SubSeq(s, k3 + 1, k4) /\ d = SubSeq(s, k4 + 1, k5)
    BY <1>9, <2>1
  <2>3. SubSeq(s, 1, k0) \o a \o b \o c \o e \o d = s
    <3>1. k0 <= k1 /\ k1 <= k2 /\ k2 <= k3 /\ k3 <= k4 /\ k4 <= k5 /\ k5 = Len(s) /\ s \in Seq(Byte)
      BY <1>4, <1>6, <1>7
    <3>2. FiveCuts(s, a, b, c, e, d, k0, k1, k2, k3, k4, k5)
      BY <3>1, <2>2 DEF FiveCuts
    <3>3. GluedTo(s, k0, a, b, c, e, d)
      BY <3>1, <3>2, Glued
    <3> QED
      BY <3>3 DEF GluedTo
  <2> QED
    BY <2>1, <2>3
<1> QED
  BY <1>9, <1>12, <1>15, <1>17, <1>18

\* What a frame is when its layout has left out the refs that it lacks.
Laid(refs, f) ==
  [kind |-> f.kind, joinRef |-> ValueOf(refs, f, "joinRef"), ref |-> ValueOf(refs, f, "ref"),
   topic |-> f.topic, event |-> f.event, data |-> f.data]

Kind == {BinaryPush, BinaryReply, BinaryBroadcast}

LEMMA KindFacts ==
  /\ BinaryPush = 0 /\ BinaryReply = 1 /\ BinaryBroadcast = 2 /\ Kind \subseteq Byte /\ Byte \subseteq Nat
  /\ ByteMax + 1 \notin Byte /\ 1 \in Byte /\ ByteMax >= 2 /\ ByteMax \in Nat
  /\ \A k \in Kind : RefsOf(k) \in SUBSET ClientRefs
  BY ByteAssumption DEF Kind, Byte, BinaryPush, BinaryReply, BinaryBroadcast, RefsOf, ClientRefs

LEMMA ServerLayout ==
  ASSUME NEW f, f.kind \in Kind
  PROVE  EncodeServer(f) = Encode(f.kind, RefsOf(f.kind), f)
  BY KindFacts DEF EncodeServer, RefsOf, Kind

\* What Phoenix sends is read as it was meant, without the refs that its kind lacks.
LEMMA ServerDecodes ==
  ASSUME NEW f \in AnyFrame, f.kind \in Kind
  PROVE  /\ EncodeServer(f) \in Bytes
         /\ DecodeServerBinaryFrame(EncodeServer(f)) = Laid(RefsOf(f.kind), f)
<1>1. PICK s : s = EncodeServer(f)
  OBVIOUS
<1>2. PICK k : k = f.kind
  OBVIOUS
<1>3. s = Encode(k, RefsOf(k), f)
  BY <1>1, <1>2, ServerLayout
<1>4. k \in Byte /\ RefsOf(k) \in SUBSET ClientRefs
  BY <1>2, KindFacts
<1>5. /\ s \in Bytes /\ s # <<>> /\ s[1] = k
      /\ Decode(RefsOf(k), s) =
           [kind |-> k, joinRef |-> ValueOf(RefsOf(k), f, "joinRef"), ref |-> ValueOf(RefsOf(k), f, "ref"),
            topic |-> f.topic, event |-> f.event, data |-> f.data]
  BY <1>3, <1>4, EncodedDecodes
<1>6. DecodeServerBinaryFrame(s) = Decode(RefsOf(k), s)
  BY <1>2, <1>5 DEF DecodeServerBinaryFrame, Kind
<1> QED
  BY <1>1, <1>2, <1>5, <1>6 DEF Laid

\* What is read and not refused is what Phoenix sends for it.
LEMMA DecodedIsEncoded ==
  ASSUME NEW s \in Bytes, NEW f, f = DecodeServerBinaryFrame(s), f # Refused
  PROVE  EncodeServer(f) = s
<1>1. s # <<>> /\ s[1] \in Kind /\ f = Decode(RefsOf(s[1]), s)
  BY DEF DecodeServerBinaryFrame, Kind
<1>2. PICK refs : refs = RefsOf(s[1])
  OBVIOUS
<1>3. refs \in SUBSET ClientRefs /\ f = Decode(refs, s)
  BY <1>1, <1>2, KindFacts
<1>4. Encode(s[1], refs, f) = s /\ f.kind = s[1]
  BY <1>1, <1>3, DecodedEncodes
<1> QED
  BY <1>1, <1>2, <1>4, ServerLayout

LEMMA ClientDecodes ==
  ASSUME NEW f \in AnyFrame, f.kind = BinaryPush
  PROVE  DecodeClient(EncodeBinaryPush(f)) = f
<1>1. PICK s : s = EncodeBinaryPush(f)
  OBVIOUS
<1>2. s = Encode(0, ClientRefs, f) /\ 0 \in Byte /\ f.kind = 0
  BY <1>1, KindFacts DEF EncodeBinaryPush, Kind
<1>3. Decode(ClientRefs, s) =
        [kind |-> 0, joinRef |-> ValueOf(ClientRefs, f, "joinRef"), ref |-> ValueOf(ClientRefs, f, "ref"),
         topic |-> f.topic, event |-> f.event, data |-> f.data]
  BY <1>2, EncodedDecodes
<1>4. ValueOf(ClientRefs, f, "joinRef") = f.joinRef /\ ValueOf(ClientRefs, f, "ref") = f.ref
  BY DEF ValueOf, ClientRefs
<1>5. f = [kind |-> f.kind, joinRef |-> f.joinRef, ref |-> f.ref, topic |-> f.topic, event |-> f.event, data |-> f.data]
  BY DEF AnyFrame
<1>6. DecodeClient(s) = Decode(ClientRefs, s)
  BY DEF DecodeClient, ClientRefs
<1> QED
  BY <1>1, <1>2, <1>3, <1>4, <1>5, <1>6

\* A stamp is taken off as it was put on.
LEMMA StampSplits ==
  ASSUME NEW u \in Short, NEW d \in Bytes, NEW s, s = <<Len(u)>> \o u \o d
  PROVE  s \in Bytes /\ SplitSender(s) = [sender |-> u, data |-> d]
<1>1. PICK n \in Nat : n = Len(u)
  BY LenProperties DEF Short, Bytes
<1>2. PICK m \in Nat : m = Len(d)
  BY LenProperties DEF Bytes
<1>3. n \in Byte /\ u \in Seq(Byte) /\ d \in Seq(Byte)
  BY <1>1, ByteAssumption DEF Short, Bytes, Byte
<1>4. PICK h : h = <<n>>
  OBVIOUS
<1>5. h \in Seq(Byte) /\ Len(h) = 1 /\ h[1] = n
  BY <1>3, <1>4
<1>6. PICK p : p = h \o u
  OBVIOUS
<1>7. PICK k1, k2 \in Nat : k1 = 1 + n /\ k2 = k1 + m
  OBVIOUS
<1>8. Grown(Byte, h, u, p, 1, k1)
  BY <1>1, <1>3, <1>5, <1>6, <1>7, Appended
<1>9. p \in Seq(Byte) /\ Len(p) = k1
  BY <1>8 DEF Grown
<1>10. s = p \o d
  BY <1>1, <1>4, <1>6
<1>11. Grown(Byte, p, d, s, k1, k2)
  BY <1>2, <1>3, <1>7, <1>9, <1>10, Appended
<1>12. s \in Seq(Byte) /\ Len(s) = k2 /\ SubSeq(s, k1 + 1, k2) = d /\ SameUpTo(k1, s, p)
  BY <1>11 DEF Grown
<1>13. SubSeq(s, 1 + 1, k1) = u
  BY <1>8, <1>12, GrownCut
<1>14. s[1] = n
  <2>1. SameUpTo(1, p, h) /\ 1 <= k1
    BY <1>7, <1>8 DEF Grown
  <2>2. SameUpTo(1, s, h)
    BY <1>7, <1>12, <2>1, SameThrough
  <2> QED
    BY <1>5, <2>2 DEF SameUpTo
<1>15. s # <<>> /\ ~(Len(s) < 1 + s[1]) /\ 1 + s[1] = k1 /\ 2 + s[1] = k1 + 1
  BY <1>7, <1>12, <1>14
<1>16. SubSeq(s, 2, 1 + s[1]) = u /\ SubSeq(s, 2 + s[1], Len(s)) = d
  BY <1>12, <1>13, <1>15
<1>17. s # <<>> /\ ~(Len(s) < 1 + s[1])
  BY <1>15
<1>18. SplitSender(s) = [sender |-> u, data |-> d]
  BY <1>16, <1>17, Zenon DEF SplitSender
<1> QED
  BY <1>12, <1>18 DEF Bytes

-----------------------------------------------------------------------------
(* The inductive invariant *)

SentType == [sender : Sender, topic : Topic, event : Event, data : Data, mode : Mode]

MediaTypes ==
  /\ mode \in [Topic -> Mode] /\ member \subseteq Topic /\ sent \in Seq(SentType)
  /\ wire \in Seq([text : BOOLEAN, topic : Topic \union {<<>>}, mode : Mode \union {""}, bytes : Bytes])
  /\ reply \in [Topic -> Mode \union {""}] /\ confirmedMode \in [Topic -> Mode \union {""}]

\* The frame that Phoenix makes of what was sent.
InBinary(s) ==
  [kind |-> BinaryBroadcast, joinRef |-> <<1>>, ref |-> <<>>, topic |-> s.topic, event |-> s.event,
   data |-> IF s.mode = "multiplex" THEN <<Len(s.sender)>> \o s.sender \o s.data ELSE s.data]

Carries(m, s) == ~m.text /\ m.bytes = EncodeServer(InBinary(s)) /\ Fits(s.topic) /\ Fits(s.event)

JoinOK(n) == wire[n].text /\ wire[n].topic \in Topic /\ wire[n].mode = mode[wire[n].topic]

\* The mode of a topic that the receiver knows, or learns from what it reads before
\* the message n.
JoinedBefore(t, n) == \E i \in 1 .. Len(wire) : i < n /\ wire[i].text /\ wire[i].topic = t
Learned(t) == confirmedMode[t] # "" \/ reply[t] # ""
Known(t, n) == Learned(t) \/ JoinedBefore(t, n)

ModesAgree == \A t \in Topic : confirmedMode[t] \in {"", mode[t]} /\ reply[t] \in {"", mode[t]}

WasSent(s) == \E k \in 1 .. Len(sent) : sent[k] = s

BinaryOK(n) ==
  \E s \in SentType : WasSent(s) /\ Carries(wire[n], s) /\ s.mode = mode[s.topic] /\ Known(s.topic, n)

WireOK == \A n \in 1 .. Len(wire) : JoinOK(n) \/ BinaryOK(n)

Coming(t) == \E i \in 1 .. Len(wire) : wire[i].text /\ wire[i].topic = t
MembersOK == \A t \in member : Learned(t) \/ Coming(t)

DecodedOK ==
  \/ decoded = Nothing
  \/ /\ decoded.raw \in Bytes /\ decoded.frame = DecodeServerBinaryFrame(decoded.raw)
     /\ decoded.meant # Refused => decoded.frame = decoded.meant

MediaInv == MediaTypes /\ ModesAgree /\ WireOK /\ MembersOK /\ DecodedOK /\ HeardAsSent

-----------------------------------------------------------------------------
(* What the frames of the sequence sent are *)

LEMMA SentFacts ==
  ASSUME NEW s \in SentType
  PROVE  /\ s.sender \in Short /\ s.topic \in Bytes /\ s.event \in Bytes /\ s.data \in Bytes
         /\ s.topic \in Topic /\ s.mode \in Mode
         /\ InBinary(s).data \in Bytes
         /\ s.mode = "multiplex" => SplitSender(InBinary(s).data) = [sender |-> s.sender, data |-> s.data]
<1>1. s.sender \in Short /\ s.topic \in Bytes /\ s.event \in Bytes /\ s.data \in Bytes /\ s.topic \in Topic /\ s.mode \in Mode
  BY MediaAssumption DEF SentType, Short, Bytes, Fits
<1>2. PICK p : p = <<Len(s.sender)>> \o s.sender \o s.data
  OBVIOUS
<1>3. p \in Bytes /\ SplitSender(p) = [sender |-> s.sender, data |-> s.data]
  BY <1>1, <1>2, StampSplits
<1>4. InBinary(s).data = IF s.mode = "multiplex" THEN p ELSE s.data
  BY <1>2 DEF InBinary
<1> QED
  BY <1>1, <1>3, <1>4

LEMMA InBinaryFrame ==
  ASSUME NEW s \in SentType, Fits(s.topic), Fits(s.event)
  PROVE  InBinary(s) \in AnyFrame /\ InBinary(s).kind \in Kind
<1>1. /\ InBinary(s).kind = 2 /\ InBinary(s).joinRef = <<1>> /\ InBinary(s).ref = <<>>
      /\ InBinary(s).topic = s.topic /\ InBinary(s).event = s.event
  BY KindFacts DEF InBinary
<1>2. <<1>> \in Short /\ <<>> \in Short
  <2>1. <<1>> \in Seq(Byte) /\ Len(<<1>>) = 1 /\ <<>> \in Seq(Byte) /\ Len(<<>>) = 0
    BY KindFacts
  <2> QED
    BY <2>1, KindFacts DEF Short, Bytes
<1>3. s.topic \in Short /\ s.event \in Short /\ InBinary(s).data \in Bytes
  BY SentFacts DEF Short, Fits
<1>4. InBinary(s) = [kind |-> InBinary(s).kind, joinRef |-> InBinary(s).joinRef, ref |-> InBinary(s).ref,
                     topic |-> InBinary(s).topic, event |-> InBinary(s).event, data |-> InBinary(s).data]
  BY DEF InBinary
<1>5. 2 \in Nat /\ 2 \in Kind
  BY KindFacts DEF Kind
<1> QED
  BY <1>1, <1>2, <1>3, <1>4, <1>5 DEF AnyFrame

\* What the receiver's read loop makes of a frame that carries s.
LEMMA CarriedDecodes ==
  ASSUME NEW s \in SentType, NEW m, Carries(m, s), NEW f, f = DecodeServerBinaryFrame(m.bytes)
  PROVE  /\ m.bytes \in Bytes /\ f.kind = BinaryBroadcast
         /\ f.topic = s.topic /\ f.event = s.event /\ f.data = InBinary(s).data
<1>1. PICK b : b = InBinary(s)
  OBVIOUS
<1>2. b \in AnyFrame /\ b.kind \in Kind
  BY <1>1, InBinaryFrame DEF Carries
<1>3. m.bytes = EncodeServer(b)
  BY <1>1 DEF Carries
<1>4. m.bytes \in Bytes /\ f = Laid(RefsOf(b.kind), b)
  BY <1>2, <1>3, ServerDecodes
<1>5. b.kind = BinaryBroadcast /\ b.topic = s.topic /\ b.event = s.event
  BY <1>1 DEF InBinary
<1>6. f.kind = b.kind /\ f.topic = b.topic /\ f.event = b.event /\ f.data = b.data
  BY <1>4 DEF Laid
<1> QED
  BY <1>1, <1>4, <1>5, <1>6

LEMMA Restamped ==
  ASSUME NEW k, NEW a, NEW b, NEW t, NEW e, NEW d, NEW m, NEW y, NEW r, NEW q,
         r = [kind |-> k, joinRef |-> a, ref |-> b, topic |-> t, event |-> e, data |-> d],
         q = [r EXCEPT !.kind = m, !.data = y]
  PROVE  q = [kind |-> m, joinRef |-> a, ref |-> b, topic |-> t, event |-> e, data |-> y]
  OBVIOUS

RelayedAs(t, s, x) == x = IF t \in member THEN <<Binary(EncodeServer(InBinary(s)))>> ELSE <<>>

\* What the server makes of a push: nothing, or the frame that carries what was sent.
LEMMA RelayedCarries ==
  ASSUME NEW u \in Sender, NEW t \in Topic, NEW e \in Event, NEW d \in Data, mode \in [Topic -> Mode],
         Fits(t), Fits(e),
         NEW f, f = [Blank EXCEPT !.joinRef = << 1 >>, !.topic = t, !.event = e, !.data = d],
         NEW s, s = [sender |-> u, topic |-> t, event |-> e, data |-> d, mode |-> mode[t]],
         NEW x, x = Relayed(u, DecodeClient(EncodeBinaryPush(f)))
  PROVE  RelayedAs(t, s, x)
<1>0. PICK g : g = [kind |-> 0, joinRef |-> <<1>>, ref |-> <<>>, topic |-> t, event |-> e, data |-> d]
  OBVIOUS
<1>1. f = g
  <2>1. f = [kind |-> 0, joinRef |-> <<1>>, ref |-> <<>>, topic |-> t, event |-> e, data |-> d]
    BY KindFacts DEF Blank
  <2> QED
    BY <1>0, <2>1, Zenon
<1>2. <<1>> \in Short /\ <<>> \in Short
  <2>1. <<1>> \in Seq(Byte) /\ Len(<<1>>) = 1 /\ <<>> \in Seq(Byte) /\ Len(<<>>) = 0
    BY KindFacts
  <2> QED
    BY <2>1, KindFacts DEF Short, Bytes
<1>3. g \in AnyFrame /\ g.kind = BinaryPush /\ g.topic = t /\ g.data = d
  <2>1. t \in Short /\ e \in Short /\ d \in Bytes
    BY MediaAssumption DEF Short, Bytes, Fits
  <2>2. 0 \in Nat /\ BinaryPush = 0
    BY KindFacts
  <2>3. g \in AnyFrame
    BY <1>0, <1>2, <2>1, <2>2 DEF AnyFrame
  <2> QED
    BY <1>0, <2>2, <2>3
<1>4. DecodeClient(EncodeBinaryPush(g)) = g
  BY <1>3, ClientDecodes
<1>5. [g EXCEPT !.kind = BinaryBroadcast, !.data = Stamp(t, u, d)] = InBinary(s)
  <2>1. PICK y : y = Stamp(t, u, d)
    OBVIOUS
  <2>2. InBinary(s) = [kind |-> BinaryBroadcast, joinRef |-> <<1>>, ref |-> <<>>, topic |-> t, event |-> e, data |-> y]
    BY <2>1 DEF InBinary, Stamp
  <2>3. PICK q : q = [g EXCEPT !.kind = BinaryBroadcast, !.data = y]
    OBVIOUS
  <2>4. q = [kind |-> BinaryBroadcast, joinRef |-> <<1>>, ref |-> <<>>, topic |-> t, event |-> e, data |-> y]
    BY <1>0, <2>3, Restamped
  <2> QED
    BY <2>1, <2>2, <2>3, <2>4
<1>6. x = Relayed(u, g)
  BY <1>1, <1>4
<1> QED
  BY <1>3, <1>5, <1>6 DEF Relayed, RelayedAs

LEMMA FramedDecodes ==
  ASSUME NEW f \in Framed
  PROVE  EncodeServer(f) \in Bytes /\ DecodeServerBinaryFrame(EncodeServer(f)) = f
<1>1. /\ f.kind \in Kind /\ f.joinRef \in Bytes /\ f.ref \in Bytes /\ f.topic \in Bytes /\ f.event \in Bytes
      /\ f.data \in Bytes
      /\ f = [kind |-> f.kind, joinRef |-> f.joinRef, ref |-> f.ref, topic |-> f.topic, event |-> f.event, data |-> f.data]
  BY MediaAssumption DEF Kind, Bytes
<1>2. f.joinRef \in Short /\ f.ref \in Short /\ f.topic \in Short /\ f.event \in Short
  BY <1>1, MediaAssumption DEF Short, Fits
<1>3. f.kind \in Nat
  BY <1>1, KindFacts
<1>4. f \in AnyFrame
  BY <1>1, <1>2, <1>3 DEF AnyFrame
<1>5. (f.kind # BinaryReply => f.ref = <<>>) /\ (f.kind = BinaryBroadcast => f.joinRef = <<>>)
  BY MediaAssumption
<1>6. Laid(RefsOf(f.kind), f) = f
  <2>1. ValueOf(RefsOf(f.kind), f, "joinRef") = f.joinRef /\ ValueOf(RefsOf(f.kind), f, "ref") = f.ref
    BY <1>1, <1>5, KindFacts DEF ValueOf, RefsOf, Kind
  <2> QED
    BY <1>1, <2>1 DEF Laid
<1> QED
  BY <1>1, <1>4, <1>6, ServerDecodes

-----------------------------------------------------------------------------
(* What the receiver knows *)

\* q is p, perhaps with more at its end.
Longer(p, q) ==
  Len(p) \in Nat /\ Len(q) \in Nat /\ Len(p) <= Len(q) /\ \A i \in 1 .. Len(p) : q[i] = p[i]

\* Where messages are only added, what was known at a message still is.
LEMMA KnownKept ==
  ASSUME NEW t, NEW n \in Nat, Longer(wire, wire'), Learned(t) => Learned(t)', Known(t, n)
  PROVE  Known(t, n)'
<1>1. CASE Learned(t)
  BY <1>1 DEF Known
<1>2. CASE JoinedBefore(t, n)
  BY <1>2 DEF Known, JoinedBefore, Longer
<1> QED
  BY <1>1, <1>2 DEF Known

LEMMA ComingKept ==
  ASSUME NEW t, Longer(wire, wire'), Coming(t)
  PROVE  Coming(t)'
  BY DEF Coming, Longer

LEMMA SentKept ==
  ASSUME NEW s, Longer(sent, sent'), WasSent(s)
  PROVE  WasSent(s)'
  BY DEF Longer, WasSent

LEMMA BinaryKept ==
  ASSUME NEW n \in 1 .. Len(wire), Longer(wire, wire'), Longer(sent, sent'),
         \A t \in Topic : Learned(t) => Learned(t)', mode' = mode, BinaryOK(n)
  PROVE  BinaryOK(n)'
<1>1. PICK s \in SentType : WasSent(s) /\ Carries(wire[n], s) /\ s.mode = mode[s.topic] /\ Known(s.topic, n)
  BY DEF BinaryOK
<1>2. PICK t \in Topic : t = s.topic
  BY DEF SentType
<1>3. n \in Nat
  BY DEF Longer
<1>4. Known(t, n)'
  BY <1>1, <1>2, <1>3, KnownKept
<1>5. WasSent(s)'
  BY <1>1, SentKept
<1>6. wire'[n] = wire[n]
  BY DEF Longer
<1> QED
  BY <1>1, <1>2, <1>4, <1>5, <1>6 DEF BinaryOK

\* As the first message is read, what was known at the others still is.
LEMMA KnownShift ==
  ASSUME NEW S, wire \in Seq(S), wire # <<>>, wire' = Tail(wire), NEW t, NEW n \in Nat, n >= 1,
         Learned(t) => Learned(t)', wire[1].text /\ wire[1].topic = t => Learned(t)', Known(t, n + 1)
  PROVE  Known(t, n)'
<1>1. Len(wire) \in Nat /\ Len(wire') = Len(wire) - 1 /\ \A i \in 1 .. Len(wire') : wire'[i] = wire[i + 1]
  BY HeadTailProperties, LenProperties
<1>2. CASE Learned(t)
  BY <1>2 DEF Known
<1>3. CASE JoinedBefore(t, n + 1)
  <2>1. PICK i \in 1 .. Len(wire) : i < n + 1 /\ wire[i].text /\ wire[i].topic = t
    BY <1>3 DEF JoinedBefore
  <2>2. CASE i = 1
    BY <2>1, <2>2 DEF Known
  <2>3. CASE i # 1
    <3>1. PICK j \in Nat : j + 1 = i
      BY <1>1
    <3>2. j \in 1 .. Len(wire') /\ j < n
      BY <1>1, <2>1, <2>3, <3>1
    <3>3. wire'[j] = wire[i]
      BY <1>1, <3>1, <3>2
    <3> QED
      BY <2>1, <3>2, <3>3 DEF Known, JoinedBefore
  <2> QED
    BY <2>2, <2>3
<1> QED
  BY <1>2, <1>3 DEF Known

LEMMA WireShift ==
  ASSUME NEW S, wire \in Seq(S), wire # <<>>, wire' = Tail(wire), WireOK, mode' = mode, sent' = sent,
         \A t \in Topic : Learned(t) => Learned(t)', 
         \A t \in Topic : wire[1].text /\ wire[1].topic = t => Learned(t)'
  PROVE  WireOK'
<1>1. Len(wire) \in Nat /\ Len(wire') = Len(wire) - 1 /\ \A i \in 1 .. Len(wire') : wire'[i] = wire[i + 1]
  BY HeadTailProperties, LenProperties
<1> SUFFICES ASSUME NEW n \in 1 .. Len(wire')
             PROVE  JoinOK(n)' \/ BinaryOK(n)'
  BY DEF WireOK
<1>2. n \in Nat /\ n >= 1 /\ n + 1 \in 1 .. Len(wire) /\ wire'[n] = wire[n + 1]
  BY <1>1
<1>3. CASE JoinOK(n + 1)
  BY <1>2, <1>3 DEF JoinOK
<1>4. CASE BinaryOK(n + 1)
  <2>1. PICK s \in SentType :
          WasSent(s) /\ Carries(wire[n + 1], s) /\ s.mode = mode[s.topic] /\ Known(s.topic, n + 1)
    BY <1>4 DEF BinaryOK
  <2>2. PICK t \in Topic : t = s.topic
    BY DEF SentType
  <2>3. Known(t, n + 1) /\ (Learned(t) => Learned(t)') /\ (wire[1].text /\ wire[1].topic = t => Learned(t)')
    BY <2>1, <2>2
  <2>4. Known(t, n)'
    BY <1>2, <2>3, KnownShift
  <2>5. WasSent(s)'
    BY <2>1 DEF WasSent
  <2> QED
    BY <1>2, <2>1, <2>2, <2>4, <2>5 DEF BinaryOK
<1> QED
  BY <1>2, <1>3, <1>4 DEF WireOK

-----------------------------------------------------------------------------
(* The invariant is inductive *)

Message == [text : BOOLEAN, topic : Topic \union {<<>>}, mode : Mode \union {""}, bytes : Bytes]

LEMMA WireFacts ==
  ASSUME MediaTypes
  PROVE  /\ wire \in Seq(Message) /\ sent \in Seq(SentType)
         /\ Len(wire) \in Nat /\ Len(sent) \in Nat /\ Longer(wire, wire) /\ Longer(sent, sent)
<1>1. wire \in Seq(Message) /\ sent \in Seq(SentType)
  BY DEF MediaTypes, Message
<1>2. Len(wire) \in Nat /\ Len(sent) \in Nat
  BY <1>1, LenProperties
<1> QED
  BY <1>1, <1>2 DEF Longer

IsAdded(S, q, x, p) ==
  p \in Seq(S) /\ Longer(q, p) /\ Len(p) = Len(q) + 1 /\ p[Len(q) + 1] = x

LEMMA AddedTo ==
  ASSUME NEW S, NEW q \in Seq(S), NEW x \in S, NEW p, p = Append(q, x) \/ p = q \o <<x>>
  PROVE  IsAdded(S, q, x, p)
<1>1. p = Append(q, x)
  BY AppendIsConcat
<1> QED
  BY <1>1, AppendProperties, LenProperties DEF Longer, IsAdded

LEMMA StepJoin ==
  ASSUME MediaInv, NEW t \in Topic, JoinAccepted(t)
  PROVE  MediaInv'
<1>1. MediaTypes /\ ModesAgree /\ WireOK /\ MembersOK /\ HeardAsSent
  BY DEF MediaInv
<1>2. PICK m : m = Joined(t, mode[t])
  OBVIOUS
<1>3. m \in Message /\ m.text /\ m.topic = t /\ m.mode = mode[t]
  BY <1>1, <1>2, EmptySeq DEF MediaTypes, Message, Joined, Bytes
<1>4. /\ wire' = Append(wire, m) /\ member' = member \union {t} /\ decoded' = Nothing
      /\ UNCHANGED <<mode, reply, confirmedMode, sent, heard, sockets>>
  BY <1>2 DEF JoinAccepted
<1>5. Longer(wire, wire') /\ Len(wire') = Len(wire) + 1 /\ wire'[Len(wire) + 1] = m /\ wire' \in Seq(Message)
  <2>1. wire \in Seq(Message)
    BY <1>1, WireFacts
  <2>2. IsAdded(Message, wire, m, wire')
    BY <1>3, <1>4, <2>1, AddedTo
  <2> QED
    BY <2>2 DEF IsAdded
<1>6. Longer(sent, sent') /\ Len(wire) \in Nat /\ \A q \in Topic : Learned(q) => Learned(q)'
  BY <1>1, <1>4, WireFacts DEF Learned
<1>7. MediaTypes'
  BY <1>1, <1>4, <1>5 DEF MediaTypes, Message
<1>8. ModesAgree' /\ HeardAsSent' /\ DecodedOK'
  BY <1>1, <1>4 DEF ModesAgree, HeardAsSent, DecodedOK, Nothing
<1>9. WireOK'
  <2> SUFFICES ASSUME NEW n \in 1 .. Len(wire')
               PROVE  JoinOK(n)' \/ BinaryOK(n)'
    BY DEF WireOK
  <2>1. CASE n = Len(wire) + 1
    BY <1>3, <1>4, <1>5, <2>1 DEF JoinOK
  <2>2. CASE n # Len(wire) + 1
    <3>1. n \in 1 .. Len(wire) /\ wire'[n] = wire[n]
      BY <1>5, <1>6, <2>2 DEF Longer
    <3>2. CASE JoinOK(n)
      BY <1>4, <3>1, <3>2 DEF JoinOK
    <3>3. CASE BinaryOK(n)
      BY <1>4, <1>5, <1>6, <3>1, <3>3, BinaryKept
    <3> QED
      BY <1>1, <3>1, <3>2, <3>3 DEF WireOK
  <2> QED
    BY <2>1, <2>2
<1>10. MembersOK'
  <2> SUFFICES ASSUME NEW q \in member'
               PROVE  Learned(q)' \/ Coming(q)'
    BY DEF MembersOK
  <2>1. CASE q = t
    BY <1>3, <1>5, <1>6, <2>1 DEF Coming
  <2>2. CASE q \in member
    BY <1>1, <1>4, <1>5, <2>2, ComingKept DEF MembersOK, Learned
  <2> QED
    BY <1>4, <2>1, <2>2
<1> QED
  BY <1>7, <1>8, <1>9, <1>10 DEF MediaInv

LEMMA StepSend ==
  ASSUME MediaInv, NEW u \in Sender, NEW t \in Topic, NEW e \in Event, NEW d \in Data, SendBinary(u, t, e, d)
  PROVE  MediaInv'
<1>1. MediaTypes /\ ModesAgree /\ WireOK /\ MembersOK /\ HeardAsSent
  BY DEF MediaInv
<1>2. PICK s : s = [sender |-> u, topic |-> t, event |-> e, data |-> d, mode |-> mode[t]]
  OBVIOUS
<1>3. PICK f : f = [Blank EXCEPT !.joinRef = <<1>>, !.topic = t, !.event = e, !.data = d]
  OBVIOUS
<1>4. PICK x : x = Relayed(u, DecodeClient(EncodeBinaryPush(f)))
  OBVIOUS
<1>5. s \in SentType /\ s.topic = t /\ s.event = e /\ s.mode = mode[t]
  BY <1>1, <1>2 DEF SentType, MediaTypes
<1>6. /\ sent' = Append(sent, s) /\ decoded' = Nothing
      /\ wire' = IF Fits(t) /\ Fits(e) THEN wire \o x ELSE wire
      /\ UNCHANGED <<mode, member, reply, confirmedMode, heard, sockets>>
  BY <1>2, <1>3, <1>4 DEF SendBinary
<1>7. Fits(t) /\ Fits(e) => x = IF t \in member THEN <<Binary(EncodeServer(InBinary(s)))>> ELSE <<>>
  <2> SUFFICES ASSUME Fits(t), Fits(e)
               PROVE  RelayedAs(t, s, x)
    BY DEF RelayedAs
  <2>1. mode \in [Topic -> Mode]
    BY <1>1 DEF MediaTypes
  <2> QED
    BY <1>2, <1>3, <1>4, <2>1, RelayedCarries
<1>8. IsAdded(SentType, sent, s, sent')
  <2>1. sent \in Seq(SentType)
    BY <1>1, WireFacts
  <2> QED
    BY <1>5, <1>6, <2>1, AddedTo
<1>9. Longer(sent, sent') /\ sent' \in Seq(SentType) /\ WasSent(s)'
  <2>1. Longer(sent, sent') /\ sent' \in Seq(SentType) /\ Len(sent') = Len(sent) + 1 /\ sent'[Len(sent) + 1] = s
    BY <1>8 DEF IsAdded
  <2>2. Len(sent) + 1 \in 1 .. Len(sent')
    BY <1>1, <2>1, WireFacts
  <2> QED
    BY <2>1, <2>2 DEF WasSent
<1>10. Longer(wire, wire) /\ wire \in Seq(Message) /\ Len(wire) \in Nat
  BY <1>1, WireFacts
<1>11. PICK m : m = Binary(EncodeServer(InBinary(s)))
  OBVIOUS
<1>12. \/ wire' = wire
       \/ /\ Fits(t) /\ Fits(e) /\ t \in member /\ wire' = wire \o <<m>>
  <2>1. CASE Fits(t) /\ Fits(e) /\ t \in member
    BY <1>6, <1>7, <1>11, <2>1
  <2>2. CASE Fits(t) /\ Fits(e) /\ t \notin member
    BY <1>6, <1>7, <1>10, <2>2, ConcatEmptySeq
  <2> QED
    BY <1>6, <2>1, <2>2
<1>13. \/ wire' = wire
       \/ /\ t \in member /\ Carries(m, s) /\ IsAdded(Message, wire, m, wire')
  <2>1. SUFFICES ASSUME Fits(t), Fits(e), t \in member, wire' = wire \o <<m>>
                 PROVE  Carries(m, s) /\ IsAdded(Message, wire, m, wire')
    BY <1>12
  <2>2. ~m.text /\ m.bytes = EncodeServer(InBinary(s)) /\ m = [text |-> FALSE, topic |-> <<>>, mode |-> "", bytes |-> EncodeServer(InBinary(s))]
    BY <1>11 DEF Binary
  <2>3. Carries(m, s)
    BY <1>5, <2>1, <2>2 DEF Carries
  <2>4. m.bytes \in Bytes
    BY <1>5, <2>3, CarriedDecodes
  <2>5. m \in Message
    <3>1. PICK b : b = EncodeServer(InBinary(s))
      OBVIOUS
    <3>2. b \in Bytes /\ m = [text |-> FALSE, topic |-> <<>>, mode |-> "", bytes |-> b]
      BY <2>2, <2>4, <3>1
    <3> QED
      BY <3>2 DEF Message
  <2> QED
    BY <1>10, <2>1, <2>3, <2>5, AddedTo
<1>14. Longer(wire, wire') /\ wire' \in Seq(Message)
  BY <1>10, <1>13 DEF IsAdded
<1>15. \A q \in Topic : Learned(q) => Learned(q)'
  BY <1>6 DEF Learned
<1>16. MediaTypes'
  BY <1>1, <1>6, <1>9, <1>14 DEF MediaTypes, Message
<1>17. ModesAgree' /\ DecodedOK'
  BY <1>1, <1>6 DEF ModesAgree, DecodedOK, Nothing
<1>18. HeardAsSent'
  <2> SUFFICES ASSUME NEW h \in heard, ~h.early
               PROVE  \E i \in 1 .. Len(sent') : Told(h, sent'[i])
    BY <1>6 DEF HeardAsSent
  <2>1. PICK i \in 1 .. Len(sent) : Told(h, sent[i])
    BY <1>1 DEF HeardAsSent
  <2>2. i \in 1 .. Len(sent') /\ sent'[i] = sent[i]
    BY <1>9 DEF Longer
  <2> QED
    BY <2>1, <2>2
<1>19. \A n \in 1 .. Len(wire) : JoinOK(n)' \/ BinaryOK(n)'
  <2> SUFFICES ASSUME NEW n \in 1 .. Len(wire)
               PROVE  JoinOK(n)' \/ BinaryOK(n)'
    OBVIOUS
  <2>1. wire'[n] = wire[n]
    BY <1>14 DEF Longer
  <2>2. CASE JoinOK(n)
    BY <1>6, <2>1, <2>2 DEF JoinOK
  <2>3. CASE BinaryOK(n)
    BY <1>6, <1>9, <1>14, <1>15, <2>3, BinaryKept
  <2> QED
    BY <1>1, <2>2, <2>3 DEF WireOK
<1>20. WireOK'
  <2>1. CASE wire' = wire
    BY <1>19, <2>1 DEF WireOK
  <2>2. CASE t \in member /\ Carries(m, s) /\ IsAdded(Message, wire, m, wire')
    <3> SUFFICES ASSUME NEW n \in 1 .. Len(wire')
                 PROVE  JoinOK(n)' \/ BinaryOK(n)'
      BY DEF WireOK
    <3>1. CASE n \in 1 .. Len(wire)
      BY <1>19, <3>1
    <3>2. CASE n = Len(wire) + 1
      <4>1. wire'[n] = m /\ n \in Nat
        BY <1>10, <2>2, <3>2 DEF IsAdded
      <4>2. Learned(t) \/ Coming(t)
        BY <1>1, <2>2 DEF MembersOK
      <4>3. Known(t, n)
        BY <1>10, <3>2, <4>2 DEF Coming, Known, JoinedBefore
      <4>4. Known(t, n)'
        BY <1>14, <1>15, <4>1, <4>3, KnownKept
      <4>5. Carries(wire[n], s)'
        BY <2>2, <4>1 DEF Carries
      <4> QED
        BY <1>5, <1>6, <1>9, <4>4, <4>5 DEF BinaryOK
    <3> QED
      BY <1>10, <2>2, <3>1, <3>2 DEF IsAdded
  <2> QED
    BY <1>13, <2>1, <2>2
<1>21. MembersOK'
  BY <1>1, <1>6, <1>14, ComingKept DEF MembersOK, Learned
<1> QED
  BY <1>16, <1>17, <1>18, <1>20, <1>21 DEF MediaInv

\* What a handler is called with for a frame that carries s, once the reply to the
\* join has been taken.
LEMMA HeardCarried ==
  ASSUME MediaTypes, ModesAgree, NEW s \in SentType, NEW m, Carries(m, s), s.mode = mode[s.topic], Learned(s.topic),
         NEW h \in Heard(DecodeServerBinaryFrame(m.bytes)), ~h.early
  PROVE  Told(h, s)
<1>1. PICK f : f = DecodeServerBinaryFrame(m.bytes)
  OBVIOUS
<1>2. f.topic = s.topic /\ f.event = s.event /\ f.data = InBinary(s).data
  BY <1>1, CarriedDecodes
<1>3. PICK t \in Topic : t = s.topic
  BY DEF SentType
<1>4. PICK cut : cut = SplitSender(f.data)
  OBVIOUS
<1>5. h = [topic |-> t, event |-> f.event,
           data |-> IF confirmedMode[t] = "multiplex" THEN cut.data ELSE f.data,
           sender |-> IF confirmedMode[t] = "multiplex" THEN cut.sender ELSE <<>>, early |-> reply[t] # ""]
  BY <1>1, <1>2, <1>3, <1>4 DEF Heard
<1>6. confirmedMode[t] = s.mode
  <2>1. reply[t] = ""
    BY <1>5
  <2> QED
    BY <1>3, <2>1 DEF ModesAgree, Learned
<1>7. /\ h.topic = t /\ h.event = f.event
      /\ h.data = IF s.mode = "multiplex" THEN cut.data ELSE f.data
      /\ h.sender = IF s.mode = "multiplex" THEN cut.sender ELSE <<>>
  BY <1>5, <1>6
<1>8. CASE s.mode = "multiplex"
  <2>1. cut = [sender |-> s.sender, data |-> s.data]
    BY <1>2, <1>4, <1>8, SentFacts
  <2> QED
    BY <1>2, <1>3, <1>7, <1>8, <2>1 DEF Told
<1>9. CASE s.mode # "multiplex"
  <2>1. f.data = s.data
    BY <1>2, <1>9 DEF InBinary
  <2> QED
    BY <1>2, <1>3, <1>7, <1>9, <2>1 DEF Told
<1> QED
  BY <1>8, <1>9

LEMMA StepRead ==
  ASSUME MediaInv, Read
  PROVE  MediaInv'
<1>1. MediaTypes /\ ModesAgree /\ WireOK /\ MembersOK /\ HeardAsSent
  BY DEF MediaInv
<1>2. wire \in Seq(Message) /\ Len(wire) \in Nat
  BY <1>1, WireFacts
<1>3. wire # <<>> /\ wire' = Tail(wire) /\ UNCHANGED <<mode, member, confirmedMode, sent, sockets>>
  BY DEF Read
<1>4. PICK m : m = Head(wire)
  OBVIOUS
<1>5. 1 \in 1 .. Len(wire) /\ m = wire[1]
  <2>1. Len(wire) # 0
    BY <1>2, <1>3, EmptySeq
  <2> QED
    BY <1>2, <1>4, <2>1
<1>6. PICK f : f = DecodeServerBinaryFrame(m.bytes)
  OBVIOUS
<1>7. \/ /\ m.text /\ heard' = heard /\ decoded' = Nothing /\ reply' = [reply EXCEPT ![m.topic] = m.mode]
      \/ /\ ~m.text /\ reply' = reply /\ decoded' = Decoded(m.bytes, f)
         /\ heard' = heard \/ heard' = heard \union Heard(f)
  BY <1>4, <1>6 DEF Read
<1>8. JoinOK(1) \/ BinaryOK(1)
  BY <1>1, <1>5 DEF WireOK
<1>9. m.text => m.topic \in Topic /\ m.mode = mode[m.topic] /\ m.mode \in Mode
  BY <1>1, <1>5, <1>8 DEF JoinOK, BinaryOK, Carries, MediaTypes
<1>10. ModesAgree' /\ reply' \in [Topic -> Mode \union {""}]
  BY <1>1, <1>3, <1>7, <1>9 DEF ModesAgree, MediaTypes
<1>11. \A q \in Topic : Learned(q) => Learned(q)'
  BY <1>1, <1>3, <1>7, <1>9 DEF Learned, MediaTypes, Mode
<1>12. \A q \in Topic : wire[1].text /\ wire[1].topic = q => Learned(q)'
  BY <1>1, <1>5, <1>7, <1>9 DEF Learned, MediaTypes, Mode
<1>13. WireOK'
  BY <1>1, <1>2, <1>3, <1>11, <1>12, WireShift
<1>14. wire' \in Seq(Message) /\ Len(wire') = Len(wire) - 1 /\ \A i \in 1 .. Len(wire') : wire'[i] = wire[i + 1]
  BY <1>2, <1>3, HeadTailProperties
<1>15. MediaTypes'
  BY <1>1, <1>3, <1>10, <1>14 DEF MediaTypes, Message
<1>16. MembersOK'
  <2> SUFFICES ASSUME NEW q \in member'
               PROVE  Learned(q)' \/ Coming(q)'
    BY DEF MembersOK
  <2>1. q \in Topic /\ (Learned(q) \/ Coming(q))
    BY <1>1, <1>3 DEF MembersOK, MediaTypes
  <2>2. CASE Learned(q)
    BY <1>11, <2>1, <2>2
  <2>3. CASE Coming(q)
    <3>1. PICK i \in 1 .. Len(wire) : wire[i].text /\ wire[i].topic = q
      BY <2>3 DEF Coming
    <3>2. CASE i = 1
      BY <1>12, <2>1, <3>1, <3>2
    <3>3. CASE i # 1
      <4>1. i - 1 \in 1 .. Len(wire') /\ (i - 1) + 1 = i
        BY <1>2, <1>14, <3>3
      <4>2. wire'[i - 1] = wire[i]
        BY <1>14, <4>1
      <4> QED
        BY <3>1, <4>1, <4>2 DEF Coming
    <3> QED
      BY <3>2, <3>3
  <2> QED
    BY <2>1, <2>2, <2>3
<1>17. ~m.text => \E s \in SentType : WasSent(s) /\ Carries(m, s) /\ s.mode = mode[s.topic] /\ Learned(s.topic)
  <2> SUFFICES ASSUME ~m.text
               PROVE  \E s \in SentType : WasSent(s) /\ Carries(m, s) /\ s.mode = mode[s.topic] /\ Learned(s.topic)
    OBVIOUS
  <2>1. PICK s \in SentType : WasSent(s) /\ Carries(wire[1], s) /\ s.mode = mode[s.topic] /\ Known(s.topic, 1)
    BY <1>5, <1>8 DEF JoinOK, BinaryOK
  <2>2. ~JoinedBefore(s.topic, 1)
    BY DEF JoinedBefore
  <2>3. Learned(s.topic)
    BY <2>1, <2>2 DEF Known
  <2> QED
    BY <1>5, <2>1, <2>3
<1>18. DecodedOK'
  <2>1. CASE m.text
    BY <1>7, <2>1 DEF DecodedOK, Nothing
  <2>2. CASE ~m.text
    <3>1. m.bytes \in Bytes
      BY <1>17, <2>2, CarriedDecodes
    <3>2. decoded' = [raw |-> m.bytes, frame |-> f, meant |-> f]
      BY <1>6, <1>7, <2>2 DEF Decoded
    <3>3. decoded'.raw = m.bytes /\ decoded'.frame = f /\ decoded'.meant = f
      BY <3>2
    <3> QED
      BY <1>6, <3>1, <3>3 DEF DecodedOK
  <2> QED
    BY <2>1, <2>2
<1>19. HeardAsSent'
  <2>1. \A h \in heard : h.early \/ \E i \in 1 .. Len(sent) : Told(h, sent[i])
    BY <1>1 DEF HeardAsSent
  <2>2. ~m.text => \A h \in Heard(f) : h.early \/ \E i \in 1 .. Len(sent) : Told(h, sent[i])
    <3> SUFFICES ASSUME ~m.text, NEW h \in Heard(f), ~h.early
                 PROVE  \E i \in 1 .. Len(sent) : Told(h, sent[i])
      OBVIOUS
    <3>1. PICK s \in SentType : WasSent(s) /\ Carries(m, s) /\ s.mode = mode[s.topic] /\ Learned(s.topic)
      BY <1>17
    <3>2. Told(h, s)
      BY <1>1, <1>6, <3>1, HeardCarried
    <3> QED
      BY <3>1, <3>2 DEF WasSent
  <2>3. sent' = sent
    BY <1>3
  <2> QED
    BY <1>7, <2>1, <2>2, <2>3 DEF HeardAsSent
<1> QED
  BY <1>10, <1>13, <1>15, <1>16, <1>18, <1>19 DEF MediaInv

LEMMA WireKept ==
  ASSUME MediaTypes, WireOK, wire' = wire, sent' = sent, mode' = mode, \A q \in Topic : Learned(q) => Learned(q)'
  PROVE  WireOK'
<1>1. Longer(wire, wire') /\ Longer(sent, sent')
  BY WireFacts
<1> SUFFICES ASSUME NEW n \in 1 .. Len(wire)
             PROVE  JoinOK(n)' \/ BinaryOK(n)'
  BY DEF WireOK
<1>2. CASE JoinOK(n)
  BY <1>2 DEF JoinOK
<1>3. CASE BinaryOK(n)
  BY <1>1, <1>3, BinaryKept
<1> QED
  BY <1>2, <1>3 DEF WireOK

LEMMA StepConfirm ==
  ASSUME MediaInv, NEW t \in Topic, Confirm(t)
  PROVE  MediaInv'
<1>1. MediaTypes /\ ModesAgree /\ WireOK /\ MembersOK /\ HeardAsSent
  BY DEF MediaInv
<1>2. /\ reply[t] # "" /\ confirmedMode' = [confirmedMode EXCEPT ![t] = reply[t]] /\ reply' = [reply EXCEPT ![t] = ""]
      /\ decoded' = Nothing /\ UNCHANGED <<mode, member, wire, sent, heard, sockets>>
  BY DEF Confirm
<1>3. MediaTypes' /\ ModesAgree' /\ HeardAsSent' /\ DecodedOK'
  BY <1>1, <1>2 DEF MediaTypes, ModesAgree, HeardAsSent, DecodedOK, Nothing
<1>4. \A q \in Topic : Learned(q) => Learned(q)'
  BY <1>1, <1>2 DEF Learned, MediaTypes
<1>5. Longer(wire, wire') /\ Longer(sent, sent')
  BY <1>1, <1>2, WireFacts
<1>6. WireOK'
  BY <1>1, <1>2, <1>4, WireKept
<1>7. MembersOK'
  BY <1>1, <1>2, <1>4, <1>5, ComingKept DEF MembersOK, MediaTypes
<1> QED
  BY <1>3, <1>6, <1>7 DEF MediaInv

LEMMA StepClosed ==
  ASSUME MediaInv, SocketClosed
  PROVE  MediaInv'
<1>1. /\ member' = {} /\ wire' = <<>> /\ mode' \in [Topic -> Mode] /\ decoded' = Nothing
      /\ reply' = [t \in Topic |-> ""] /\ confirmedMode' = [t \in Topic |-> ""] /\ UNCHANGED <<sent, heard>>
  BY DEF SocketClosed
<1>2. Len(wire') = 0 /\ wire' \in Seq(Message)
  BY <1>1, EmptySeq
<1>3. MediaTypes'
  BY <1>1, <1>2 DEF MediaInv, MediaTypes, Message
<1>4. WireOK'
  BY <1>2 DEF WireOK
<1>5. ModesAgree' /\ MembersOK' /\ DecodedOK' /\ HeardAsSent'
  BY <1>1 DEF MediaInv, ModesAgree, MembersOK, DecodedOK, Nothing, HeardAsSent
<1> QED
  BY <1>3, <1>4, <1>5 DEF MediaInv

LEMMA StepOther ==
  ASSUME MediaInv, NEW raw \in Bytes, NEW meant, OtherFrame(raw, meant),
         meant # Refused => DecodeServerBinaryFrame(raw) = meant
  PROVE  MediaInv'
<1>1. /\ decoded' = Decoded(raw, meant)
      /\ UNCHANGED <<mode, member, wire, reply, confirmedMode, sent, heard, sockets>>
  BY DEF OtherFrame
<1>2. DecodedOK'
  <2>1. decoded'.raw = raw /\ decoded'.frame = DecodeServerBinaryFrame(raw) /\ decoded'.meant = meant
    BY <1>1 DEF Decoded
  <2> QED
    BY <2>1 DEF DecodedOK
<1>3. MediaTypes' /\ ModesAgree' /\ MembersOK' /\ HeardAsSent'
  BY <1>1 DEF MediaInv, MediaTypes, ModesAgree, MembersOK, Learned, Coming, HeardAsSent
<1>4. WireOK'
  BY <1>1, WireKept DEF MediaInv, Learned
<1> QED
  BY <1>2, <1>3, <1>4 DEF MediaInv

LEMMA StartsInMediaInv == MediaInit => MediaInv
<1> SUFFICES ASSUME MediaInit PROVE MediaInv
  OBVIOUS
<1>1. Len(wire) = 0 /\ wire \in Seq(Message) /\ sent \in Seq(SentType)
  BY EmptySeq DEF MediaInit
<1>2. MediaTypes
  BY <1>1 DEF MediaInit, MediaTypes, Message
<1>3. WireOK
  BY <1>1 DEF WireOK
<1>4. ModesAgree /\ MembersOK /\ DecodedOK /\ HeardAsSent
  BY DEF MediaInit, ModesAgree, MembersOK, DecodedOK, Nothing, HeardAsSent
<1> QED
  BY <1>2, <1>3, <1>4 DEF MediaInv

LEMMA MediaStep == MediaInv /\ [MediaNext]_mediaVars => MediaInv'
<1> SUFFICES ASSUME MediaInv, [MediaNext]_mediaVars PROVE MediaInv'
  OBVIOUS
<1>1. CASE \E t \in Topic : JoinAccepted(t) \/ Confirm(t)
  BY <1>1, StepJoin, StepConfirm
<1>2. CASE \E u \in Sender, t \in Topic, e \in Event, d \in Data : SendBinary(u, t, e, d)
  BY <1>2, StepSend
<1>3. CASE Read
  BY <1>3, StepRead
<1>4. CASE SocketClosed
  BY <1>4, StepClosed
<1>5. CASE \E f \in Framed : OtherFrame(EncodeServer(f), f)
  BY <1>5, FramedDecodes, StepOther
<1>6. CASE \E raw \in Stray : OtherFrame(raw, Refused)
  BY <1>6, MediaAssumption, StepOther DEF Bytes
<1>7. CASE UNCHANGED mediaVars
  <2>1. MediaTypes' /\ ModesAgree' /\ MembersOK' /\ HeardAsSent' /\ DecodedOK'
    BY <1>7 DEF mediaVars, MediaInv, MediaTypes, ModesAgree, MembersOK, Learned, Coming, HeardAsSent, DecodedOK
  <2>2. WireOK'
    BY <1>7, WireKept DEF mediaVars, MediaInv, Learned
  <2> QED
    BY <2>1, <2>2 DEF MediaInv
<1> QED
  BY <1>1, <1>2, <1>3, <1>4, <1>5, <1>6, <1>7 DEF MediaNext

\* The receiver learns the mode of a topic before it reads a frame of it, and what is on
\* the wire is what was sent: the invariant behind HeardAsSent.
THEOREM MediaCorrect == MediaSpec => []MediaInv
<1>1. MediaInv /\ [MediaNext]_mediaVars => MediaInv'
  BY MediaStep
<1> QED
  BY <1>1, StartsInMediaInv, PTL DEF MediaSpec

\* Decoding is the inverse of encoding, for frames of any length: a frame of any kind
\* comes out of the read loop's decoder as Phoenix meant it, and whatever it accepts is
\* what Phoenix's encoder would have sent (binary.go 58-126).
THEOREM FramingCorrect == MediaSpec => []DecodesExactly
<1>1. MediaInv => DecodesExactly
  <2> SUFFICES ASSUME MediaInv PROVE DecodesExactly
    OBVIOUS
  <2>1. CASE decoded = Nothing
    <3>1. decoded.frame = Refused /\ decoded.meant = Refused
      BY <2>1 DEF Nothing
    <3> QED
      BY <3>1 DEF DecodesExactly
  <2>2. CASE decoded # Nothing
    <3>1. /\ decoded.raw \in Bytes /\ decoded.frame = DecodeServerBinaryFrame(decoded.raw)
          /\ decoded.meant # Refused => decoded.frame = decoded.meant
      BY <2>2 DEF MediaInv, DecodedOK
    <3> QED
      BY <3>1, DecodedIsEncoded DEF DecodesExactly
  <2> QED
    BY <2>1, <2>2
<1> QED
  BY <1>1, MediaCorrect, PTL

\* Whatever the receiver's two goroutines do with the reply to a join, a handler is
\* called with what was sent on its topic, byte for byte, and with its sender.
THEOREM FramesCorrect == MediaSpec => []HeardAsSent
<1>1. MediaInv => HeardAsSent
  BY DEF MediaInv
<1> QED
  BY <1>1, MediaCorrect, PTL
=============================================================================
