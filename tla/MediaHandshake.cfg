SPECIFICATION HandshakeSpec
CONSTANTS
  None = None
  r1 = r1
  mic = mic
  c1 = c1
  c2 = c2
  speaker = speaker
  listener = listener
  Router = {r1}
  Sender = {mic}
  Receiver = {c1, c2}
  Attempt = {mic, c1, c2}
  Mic = mic
  Speaker = speaker
  Listener = listener
INVARIANTS
  HandshakeTypeOK
  ReadyMeansFlowing
  NoRequestIsDropped
  StatusFollowsWorker
  AnnouncedIsProducing
  AnswersMatchSteps
PROPERTIES
  ListenerFollows
CHECK_DEADLOCK FALSE
