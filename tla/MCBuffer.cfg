SPECIFICATION Spec
CONSTANTS
  Byte = {a, b}
  NoChunk = NoChunk
  Garbage = Garbage
  INIT_BUFF_CAP = 1
  IntMax = 7
  AllocMayFail = TRUE
  MaxChunk = 3
  Chunks <- ByteStrings
INVARIANTS
  TypeOK
  IndexesOrdered
  NoGarbageReadable
PROPERTIES
  IsByteStream
  WriteReturns
