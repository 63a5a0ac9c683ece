------------------------------- MODULE GoMedia -------------------------------
(***************************************************************************)
(* Binary frames from the SendBinary of one Go client, through the server,  *)
(* to the handlers of another (channel.go, konet.go, binary.go).            *)
(*                                                                          *)
(* The receiver's read loop and the goroutine that waits in Subscribe run   *)
(* concurrently: the reply to a join is handed over and the loop reads on.  *)
(* The senders are members of every topic; who may send is Floor's.         *)
(***************************************************************************)
EXTENDS GoBinary

CONSTANTS
  Topic,      \* topics, as bytes
  Sender,     \* user ids of the senders, as bytes
  Event,      \* events, as bytes
  Data,       \* what is sent
  Framed,     \* frames as Phoenix means them, of every kind
  Stray,      \* bytes that may be no frame at all
  MaxPushes,  \* bound: frames pushed
  MaxLosses   \* bound: sockets that the receiver loses

\* What a server never accepts a member with is a user id that its own stamp cannot
\* carry (room_channel.ex 52-53).
ASSUME MediaAssumption ==
  /\ Topic \subseteq Seq(Byte) /\ Event \subseteq Seq(Byte) /\ Data \subseteq Seq(Byte)
  /\ Stray \subseteq Seq(Byte)
  /\ \A u \in Sender : u \in Seq(Byte) /\ Fits(u)
  /\ Framed \subseteq [kind : {BinaryPush, BinaryReply, BinaryBroadcast}, joinRef : Seq(Byte), ref : Seq(Byte),
                      topic : Seq(Byte), event : Seq(Byte), data : Seq(Byte)]
  /\ \A f \in Framed :
       /\ \A v \in {f.joinRef, f.ref, f.topic, f.event} : Fits(v)
       /\ f.kind # BinaryReply => f.ref = <<>>
       /\ f.kind = BinaryBroadcast => f.joinRef = <<>>

VARIABLES
  mode,           \* the binary mode of each topic, on the server
  member,         \* topics the receiver has joined, on the server
  wire,           \* what is under way to the receiver: join replies and raw frames
  reply,          \* the reply that Subscribe's goroutine has been handed, by topic
  confirmedMode,  \* of the receiver's Channel of each topic
  decoded,        \* the frame that this step decoded, if it did, and what was meant
  sent,           \* history: what was given to SendBinary, and the mode it was sent in
  heard,          \* history: what the handlers were called with
  sockets         \* the receiver's sockets so far

mediaVars == <<mode, member, wire, reply, confirmedMode, decoded, sent, heard, sockets>>

Mode == {"exclusive", "multiplex"}
Joined(t, m) == [text |-> TRUE, topic |-> t, mode |-> m, bytes |-> <<>>]
Binary(bytes) == [text |-> FALSE, topic |-> <<>>, mode |-> "", bytes |-> bytes]

Decoded(raw, meant) == [raw |-> raw, frame |-> DecodeServerBinaryFrame(raw), meant |-> meant]
Nothing == [raw |-> <<>>, frame |-> Refused, meant |-> Refused]

MediaInit ==
  /\ mode \in [Topic -> Mode] /\ member = {} /\ wire = <<>>
  /\ reply = [t \in Topic |-> ""] /\ confirmedMode = [t \in Topic |-> ""]
  /\ decoded = Nothing /\ sent = <<>> /\ heard = {} /\ sockets = 1

\* The server accepts a join.
JoinAccepted(t) ==
  /\ t \notin member
  /\ member' = member \union {t} /\ wire' = Append(wire, Joined(t, mode[t]))
  /\ decoded' = Nothing
  /\ UNCHANGED <<mode, reply, confirmedMode, sent, heard, sockets>>

\* The server's stamp/2.
Stamp(t, u, data) == IF mode[t] = "multiplex" THEN <<Len(u)>> \o u \o data ELSE data

Relayed(u, f) ==
  IF f.topic \in member
  THEN <<Binary(EncodeServer([f EXCEPT !.kind = BinaryBroadcast, !.data = Stamp(f.topic, u, f.data)]))>>
  ELSE <<>>

\* SendBinary: what cannot be framed is refused, and reported to nobody else.
SendBinary(u, t, e, d) ==
  LET f == [Blank EXCEPT !.joinRef = <<1>>, !.topic = t, !.event = e, !.data = d] IN
  /\ Len(sent) < MaxPushes
  /\ sent' = Append(sent, [sender |-> u, topic |-> t, event |-> e, data |-> d, mode |-> mode[t]])
  /\ wire' = IF \A v \in {t, e} : Fits(v) THEN wire \o Relayed(u, DecodeClient(EncodeBinaryPush(f))) ELSE wire
  /\ decoded' = Nothing
  /\ UNCHANGED <<mode, member, reply, confirmedMode, heard, sockets>>

\* receiveBinary.  early: the mode of the join is still with Subscribe.
Heard(f) ==
  LET t == f.topic
      split == confirmedMode[t] = "multiplex"
      cut == SplitSender(f.data)
  IN  IF split /\ cut = Refused THEN {}
      ELSE {[topic |-> t, event |-> f.event, data |-> IF split THEN cut.data ELSE f.data,
             sender |-> IF split THEN cut.sender ELSE <<>>, early |-> reply[t] # ""]}

\* The read loop: handleText for a reply, handleBinary for the rest.
Read ==
  /\ wire # <<>> /\ wire' = Tail(wire)
  /\ LET m == Head(wire)
         f == DecodeServerBinaryFrame(m.bytes)
     IN
     \/ /\ m.text /\ UNCHANGED heard /\ decoded' = Nothing
        /\ reply' = [reply EXCEPT ![m.topic] = m.mode]
     \/ /\ ~m.text /\ UNCHANGED reply /\ decoded' = Decoded(m.bytes, f)
        /\ heard' = IF f.kind \in {BinaryBroadcast, BinaryPush} /\ f.topic \in Topic
                    THEN heard \union Heard(f) ELSE heard
  /\ UNCHANGED <<mode, member, confirmedMode, sent, sockets>>

\* Subscribe takes the reply it was handed.
Confirm(t) ==
  /\ reply[t] # ""
  /\ confirmedMode' = [confirmedMode EXCEPT ![t] = reply[t]]
  /\ reply' = [reply EXCEPT ![t] = ""]
  /\ decoded' = Nothing
  /\ UNCHANGED <<mode, member, wire, sent, heard, sockets>>

\* The receiver's socket is lost: socketClosed.  A topic that empties meanwhile
\* comes back in any mode.
SocketClosed ==
  /\ sockets <= MaxLosses /\ sockets' = sockets + 1
  /\ member' = {} /\ wire' = <<>>
  /\ reply' = [t \in Topic |-> ""] /\ confirmedMode' = [t \in Topic |-> ""]
  /\ mode' \in [Topic -> Mode]
  /\ decoded' = Nothing
  /\ UNCHANGED <<sent, heard>>

\* Any other frame, before there is anything else to read.
OtherFrame(raw, meant) ==
  /\ member = {} /\ sent = <<>> /\ sockets = 1 /\ decoded = Nothing
  /\ decoded' = Decoded(raw, meant)
  /\ UNCHANGED <<mode, member, wire, reply, confirmedMode, sent, heard, sockets>>

MediaNext ==
  \/ \E t \in Topic : JoinAccepted(t) \/ Confirm(t)
  \/ \E u \in Sender, t \in Topic, e \in Event, d \in Data : SendBinary(u, t, e, d)
  \/ Read \/ SocketClosed
  \/ \E f \in Framed : OtherFrame(EncodeServer(f), f)
  \/ \E raw \in Stray : OtherFrame(raw, Refused)

MediaSpec == MediaInit /\ [][MediaNext]_mediaVars

-----------------------------------------------------------------------------
\* Decoding is the inverse of Phoenix's encoding: a whole frame of any kind comes
\* out as it was, and bytes that are cut or are no frame are refused, never read
\* as some other frame (binary.go 14-24, 31-32, 89-94).
DecodesExactly ==
  LET f == decoded.frame IN
  /\ decoded.meant # Refused => f = decoded.meant
  /\ f # Refused => EncodeServer(f) = decoded.raw

Told(h, s) ==
  /\ <<h.topic, h.event, h.data>> = <<s.topic, s.event, s.data>>
  /\ h.sender = IF s.mode = "multiplex" THEN s.sender ELSE <<>>

\* A handler is only called with what was sent on its topic, byte for byte, and
\* with its sender (binary.go 22-24, channel.go 85-89), once Subscribe has taken
\* the reply to the join.
HeardAsSent == \A h \in heard : h.early \/ \E i \in 1 .. Len(sent) : Told(h, sent[i])
=============================================================================
