SPECIFICATION Spec
CONSTANTS
  greeting = greeting
  request = request
  method_reply = method_reply
  connect_reply = connect_reply
  c1 = c1
  c2 = c2
  r1 = r1
  Data <- Payloads
  Setups <- Plain
  BufMax = 4
  MaxGot = 4
INVARIANTS
  ClientGetsRemoteData
CHECK_DEADLOCK FALSE
