SPECIFICATION Spec
CONSTANTS
  None = None
  Refused = Refused
  a = a
  s1 = s1
  Space = {a}
  Server = {s1}
  MaxPicks = 1
  MaxVisits = 1
  MaxConnections = 2
INVARIANTS
  MicrophoneIsSent
CHECK_DEADLOCK FALSE
