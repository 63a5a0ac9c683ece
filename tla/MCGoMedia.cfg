SPECIFICATION MediaSpec
CONSTANTS
  ByteMax = 2
  Topic <- MCTopic
  Sender <- MCSender
  Event <- MCEvent
  Data <- MCData
  Framed <- MCFramed
  Stray <- MCStray
  MaxPushes = 2
  MaxLosses = 1
INVARIANT DecodesExactly
INVARIANT HeardAsSent
CHECK_DEADLOCK FALSE
