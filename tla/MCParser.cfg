SPECIFICATION Spec
CONSTANTS
  Messages <- MCMessages
  Capacity = 9
  HexMax = 5
  LogMax = 8
INVARIANTS
  TypeOK
  HeadersAreLogged
  FramesAreLogged
