SPECIFICATION Spec
CONSTANTS
  NoSpace = NoSpace
  NoServer = NoServer
  s1 = s1
  s2 = s2
  room = room
  webinar = webinar
  Server = {s1, s2}
  Space = {room, webinar}
  Scheduled = {webinar}
  MaxRouters = 3
  MaxMembers = 2
INVARIANTS
  RunningHasRouter
  RunningExactlyWhileInUse
  PendingRouterIsPrivate
PROPERTIES
  RouterOutlivesUsers
