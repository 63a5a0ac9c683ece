------------------------------ MODULE GoBinary ------------------------------
(***************************************************************************)
(* The binary framing of the Go SDK (binary.go), byte by byte: a string is  *)
(* the sequence of its bytes, "" the empty one.  ByteMax is 255 in the code; *)
(* a smaller one keeps every case and brings the boundary within reach.     *)
(* Phoenix's side of the framing is external.                               *)
(***************************************************************************)
EXTENDS Naturals, Sequences

CONSTANT ByteMax                 \* the largest byte

ASSUME ByteAssumption == ByteMax \in Nat /\ ByteMax >= 2

Byte == 0 .. ByteMax

BinaryPush == 0
BinaryReply == 1
BinaryBroadcast == 2

\* sizedField: what fits the byte that carries its length.
MutFits(value) == TRUE                          \* mutant: the size is not checked
Fits(value) == Len(value) <= ByteMax

\* byte(len(value))
Size(value) == Len(value) % (ByteMax + 1)

\* A frame has the fields joinRef, ref, topic and event (or status), in this order,
\* except that not every kind has both refs.  A client's push has.
ClientRefs == {"joinRef", "ref"}

MutRefsOf(kind) == IF kind = 2 THEN {} ELSE ClientRefs  \* mutant: one layout both ways
RefsOf(kind) ==
  CASE kind = BinaryBroadcast -> {}
    [] kind = BinaryPush -> {"joinRef"}
    [] kind = BinaryReply -> {"joinRef", "ref"}

Encode(kind, refs, f) ==
  LET size(k) == IF k \in refs THEN <<Size(f[k])>> ELSE <<>>
      value(k) == IF k \in refs THEN f[k] ELSE <<>>
  IN  <<kind>> \o size("joinRef") \o size("ref") \o <<Size(f.topic), Size(f.event)>>
        \o value("joinRef") \o value("ref") \o f.topic \o f.event \o f.data

EncodeBinaryPush(f) == Encode(BinaryPush, ClientRefs, f)

Blank == [kind |-> BinaryPush, joinRef |-> <<>>, ref |-> <<>>, topic |-> <<>>, event |-> <<>>, data |-> <<>>]
Refused == [Blank EXCEPT !.kind = ByteMax + 1]   \* ErrShortFrame, or an unknown kind

\* take(), field after field: where the header and each field end.
Decode(refs, raw) ==
  LET j == IF "joinRef" \in refs THEN 1 ELSE 0
      r == IF "ref" \in refs THEN 1 ELSE 0
      header == 3 + j + r
      joinRef == header + (IF j = 1 THEN raw[2] ELSE 0)
      ref == joinRef + (IF r = 1 THEN raw[2 + j] ELSE 0)
      topic == ref + raw[2 + j + r]
      event == topic + raw[3 + j + r]
  IN  IF Len(raw) < header \/ event > Len(raw) THEN Refused
      ELSE [kind |-> raw[1],
            joinRef |-> SubSeq(raw, header + 1, joinRef), ref |-> SubSeq(raw, joinRef + 1, ref),
            topic |-> SubSeq(raw, ref + 1, topic), event |-> SubSeq(raw, topic + 1, event),
            data |-> SubSeq(raw, event + 1, Len(raw))]

DecodeServerBinaryFrame(raw) ==
  IF raw = <<>> \/ raw[1] \notin {BinaryPush, BinaryReply, BinaryBroadcast} THEN Refused
  ELSE Decode(RefsOf(raw[1]), raw)

\* splitSender: sender_size | sender | data
SplitSender(frame) ==
  IF frame = <<>> \/ Len(frame) < 1 + frame[1] THEN Refused
  ELSE [sender |-> SubSeq(frame, 2, 1 + frame[1]),
        data |-> SubSeq(frame, 2 + frame[1], Len(frame))]

\* Phoenix, by the layout that binary.go transcribes (binary.go 10-23).
EncodeServer(f) ==
  LET refs == CASE f.kind = BinaryBroadcast -> {}
                [] f.kind = BinaryPush -> {"joinRef"}
                [] f.kind = BinaryReply -> {"joinRef", "ref"}
  IN  Encode(f.kind, refs, f)

DecodeClient(raw) == Decode({"joinRef", "ref"}, raw)
=============================================================================
