SPECIFICATION FairSpec
CONSTANTS
  g1 = g1  g2 = g2
  Caller = {g1, g2}
  MaxSockets = 2
  MaxUpsets = 1
  MaxCalls = 3
INVARIANT JoinedConfirmed
INVARIANT AnsweredOnce
INVARIANT JoiningIsAwaited
PROPERTY WaitersReleased
CHECK_DEADLOCK FALSE
