SPECIFICATION ServerSpec
CONSTANTS
  NoSpace = NoSpace
  NoServer = NoServer
  c1 = c1
  c2 = c2
  s1 = s1
  s2 = s2
  room = room
  Client = {c1, c2}
  Server = {s1, s2}
  Space = {room}
  Scheduled = {}
  MaxRouters = 2
  MaxMembers = 2
SYMMETRY Interchangeable
INVARIANTS
  EmptyServerUnsubscribes
CHECK_DEADLOCK FALSE
