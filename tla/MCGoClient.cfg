SPECIFICATION FairSpec
CONSTANTS
  g1 = g1  g2 = g2
  Caller = {g1, g2}
  MaxReconnectTries = 2
  MaxLives = 2
  MaxSockets = 4
  MaxUpsets = 3
  MaxCalls = 2
INVARIANT LoopsOnce
INVARIANT ProbesPresentSocket
PROPERTY ReconnectionSettles
PROPERTY DeadSocketReplaced
CHECK_DEADLOCK FALSE
