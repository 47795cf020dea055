SPECIFICATION ServerSpec
CONSTANTS
  NoSpace = NoSpace
  NoServer = NoServer
  c1 = c1
  c2 = c2
  s1 = s1
  room = room
  Client = {c1, c2}
  Server = {s1}
  Space = {room}
  Scheduled = {}
  MaxRouters = 2
  MaxMembers = 2
SYMMETRY Interchangeable
INVARIANTS
  ClosedChannelHasNoMember
CHECK_DEADLOCK FALSE
