SPECIFICATION FairSpec
CONSTANTS
  room = room
  Topic = {room}
  MaxReconnectAttempts = 1
  MaxSockets = 3
  MaxUpsets = 2
  MaxCalls = 4
INVARIANT StatusTrue
INVARIANT JoinedIsKnown
PROPERTY SendsLand
PROPERTY SubscribeSettles
PROPERTY DeadSocketReplaced
CHECK_DEADLOCK FALSE
