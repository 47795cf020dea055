SPECIFICATION Spec
CONSTANTS
  None = None
  m1 = m1
  m2 = m2
  r1 = r1
  MaxFailures = 4
  MaxDepartures = 2
  Member = {m1, m2}
  Router = {r1}
INVARIANTS
  OneConsumerPerDirection
CHECK_DEADLOCK FALSE
