------------------------------ MODULE MCGoMedia ------------------------------
(***************************************************************************)
(* Instances of GoMedia for TLC: with ByteMax = 2 a topic of four bytes is  *)
(* too long, and its length wraps to that of the topic it begins with.      *)
(***************************************************************************)
EXTENDS GoMedia

MCTopic == {<<1>>, <<1, 2, 1, 1>>}
MCSender == {<<2>>, <<0, 1>>}
MCEvent == {<<2>>}
MCData == {<<>>, <<1, 0>>}

Value == {<<>>, <<1>>, <<0, 2>>}
MCFramed ==
  {f \in [kind : 0 .. 2, joinRef : Value, ref : Value, topic : Value, event : Value, data : Value] :
     /\ f.kind # BinaryReply => f.ref = <<>>
     /\ f.kind = BinaryBroadcast => f.joinRef = <<>>}
MCStray == UNION {[1 .. n -> Byte] : n \in 0 .. 6}
=============================================================================
