SPECIFICATION ServerSpec
CONSTANTS
  NoSpace = NoSpace
  NoServer = NoServer
  c1 = c1
  c2 = c2
  c3 = c3
  s1 = s1
  s2 = s2
  room = room
  hall = hall
  Client = {c1, c2, c3}
  Server = {s1, s2}
  Space = {room, hall}
  Scheduled = {}
  MaxRouters = 3
  MaxMembers = 3
SYMMETRY Interchangeable
INVARIANTS
  ServerTypeOK
  ViewMatchesMirror
  SessionIsBacked
  MembersAreRegistered
  SubscribedExactlyWhileMirrored
  WaitingMatchesPending
PROPERTIES
  ImplementsPresence
CHECK_DEADLOCK FALSE
