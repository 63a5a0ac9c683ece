SPECIFICATION FairSpec
CONSTANTS
  p1 = p1  p2 = p2  api = api
  room = room
  Pid = {p1, p2}
  Api = {api}
  Room = {room}
  RoomOf <- InRoom
  Sends <- P1Twice
  Limit = 2
  Killable = {p2}
  NoEvent = NoEvent
  MaxCrashes = 1
INVARIANT CountsRight
INVARIANT BackendKnowsOccupied
INVARIANT NoGap
INVARIANT ReplayInOrder
PROPERTY OccupancySafe
PROPERTY EmptyRoomVacated
CHECK_DEADLOCK FALSE
