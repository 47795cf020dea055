SPECIFICATION Spec
CONSTANTS
  None = None
  m1 = m1
  m2 = m2
  r1 = r1
  r2 = r2
  MaxFailures = 4
  MaxDepartures = 2
  Member = {m1, m2}
  Router = {r1, r2}
INVARIANTS
  MeshIsRequested
  ConsumersAreIndexed
  ParamsNameTheirSource
  DepartedCannotBeConsumed
PROPERTIES
  MeshIsCompleted
CHECK_DEADLOCK FALSE
