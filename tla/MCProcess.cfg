SPECIFICATION Spec
CONSTANTS
  MaxInterrupts = 2
INVARIANTS
  TypeOK
  ReturnedCallsAreWritten
  EndIsExplained
PROPERTIES
  StopsWhenAsked
CHECK_DEADLOCK FALSE
