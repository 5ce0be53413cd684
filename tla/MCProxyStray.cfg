SPECIFICATION Spec
CONSTANTS
  greeting = greeting
  request = request
  method_reply = method_reply
  connect_reply = connect_reply
  Clients = {c1, c2}
  Restless = {c2}
  Addresses = {m1, m2, m3}
  Nobody = Nobody
  listenfd = listenfd
  BufMax = 2
  Limits = {2, 3}
  AllocMayFail = TRUE
INVARIANTS
  EventsReachTheirSocket
CHECK_DEADLOCK FALSE
