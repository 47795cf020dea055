SPECIFICATION Spec
CONSTANTS
  NoSpace = NoSpace
  NoServer = NoServer
  s1 = s1
  s2 = s2
  room = room
  webinar = webinar
  Server = {s1, s2}
  Space = {room}
  Scheduled = {}
  MaxRouters = 2
  MaxMembers = 1
PROPERTIES
  EndedIsFinal
