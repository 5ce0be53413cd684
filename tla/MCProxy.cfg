SPECIFICATION Spec
CONSTANTS
  greeting = greeting
  request = request
  method_reply = method_reply
  connect_reply = connect_reply
  Clients = {c1, c2}
  Addresses = {m1, m2, m3}
  Restless = {c2}
  Nobody = Nobody
  listenfd = listenfd
  BufMax = 2
  Limits = {2, 3}
  AllocMayFail = TRUE
INVARIANTS
  TypeOK
  SuccessMeansConnected
PROPERTIES
  QueuedAreAccepted
  AcceptedAreAnswered
CHECK_DEADLOCK FALSE
