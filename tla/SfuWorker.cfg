SPECIFICATION Spec
CONSTANTS
  None = None
  r1 = r1
  r2 = r2
  p1 = p1
  c1 = c1
  c2 = c2
  Router = {r1, r2}
  Sender = {p1}
  Receiver = {c1, c2}
  Attempt = {1}
INVARIANTS
  EachRequestIsAnsweredOnce
  NothingWaitsForProducer
  ConsumersHaveProducers
PROPERTIES
  ImplementsConsumeBuffer
CHECK_DEADLOCK FALSE
