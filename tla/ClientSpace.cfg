SPECIFICATION Spec
CONSTANTS
  a = a
  Other = {a}
  MaxConnections = 2
  MaxToggles = 2
  MaxQueue = 2
INVARIANTS
  ClientTypeOK
  ViewMatchesRoom
  IdIsCurrent
  OffersAreTaken
  LastPressDecides
CHECK_DEADLOCK FALSE
