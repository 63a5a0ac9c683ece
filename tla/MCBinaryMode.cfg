SPECIFICATION FairSpec
CONSTANTS
  p1 = p1  p2 = p2  p3 = p3  p4 = p4
  room = room  lobby = lobby
  Pid = {p1, p2, p3, p4}
  Topic = {room, lobby}
  TopicOf <- Rooms
  NoPid = NoPid
  MaxMembers = 2
  MaxCrashes = 1
INVARIANT RefusedLeaveNoTrace
INVARIANT MembersWatched
PROPERTY ModeSafe
PROPERTY DeadForgotten
CHECK_DEADLOCK FALSE
