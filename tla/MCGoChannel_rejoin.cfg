SPECIFICATION Spec
CONSTANTS
  g1 = g1  g2 = g2
  Caller = {g1, g2}
  MaxSockets = 2
  MaxUpsets = 1
  MaxCalls = 2
CHECK_DEADLOCK FALSE
PROPERTY LeftStaysLeft
