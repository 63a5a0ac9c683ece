SPECIFICATION Spec
CONSTANTS
  p1 = p1  p2 = p2
  alice = alice  bob = bob
  room = room
  NoRow = NoRow  NoRef = NoRef  NoUser = NoUser  NoJob = NoJob
  User = {alice, bob}
  MaxAttempts = 2
  Pid = {p1, p2}
  Topic = {room}
  Ref = {r1, r2}
  TopicOf <- InRoom
  UserOf <- OwnUser
  MaxHolds = 2
  MaxCrashes = 1
  Killable = {p1, p2}
  CanRipen = TRUE
INVARIANT MonitorsAgree
INVARIANT HoldersWatched
INVARIANT SweepComing
INVARIANT BackendToldOfEveryHold
PROPERTY LockSafe
PROPERTY HoldsEndDuly
