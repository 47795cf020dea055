SPECIFICATION Spec
CONSTANTS
  None = None
  Refused = Refused
  a = a
  b = b
  s1 = s1
  s2 = s2
  Space = {a, b}
  Server = {s1, s2}
  MaxPicks = 2
  MaxVisits = 2
  MaxConnections = 2
INVARIANTS
  PageTypeOK
  VerdictIsCurrent
  ConnectsWhereCleared
  RefusedIsDisconnected
  FactoryFollowsContext
  TrackReachesTransport
  JoinsTakeTurns
SYMMETRY Interchangeable
CHECK_DEADLOCK FALSE
