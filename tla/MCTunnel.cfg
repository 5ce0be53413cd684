SPECIFICATION Spec
CONSTANTS
  greeting = greeting
  request = request
  method_reply = method_reply
  connect_reply = connect_reply
  c1 = c1
  c2 = c2
  r1 = r1
  Data <- Payloads
  Setups <- AllSetups
  BufMax = 3
  MaxGot = 5
INVARIANTS
  TypeOK
  BytesConserved
  OutputArmed
  SuccessMeansConnected
  RemoteGetsPrefix
  NeverAborts
PROPERTIES
  FrozenHoldsTraffic
  GonePeersFreeTunnel
  ClientDataDelivered
  ImplementsRelay
CHECK_DEADLOCK FALSE
