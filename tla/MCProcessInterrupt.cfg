SPECIFICATION Spec
CONSTANTS
  MaxInterrupts = 2
PROPERTIES
  InterruptEnds
CHECK_DEADLOCK FALSE
