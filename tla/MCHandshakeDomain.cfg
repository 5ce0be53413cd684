SPECIFICATION Spec
CONSTANTS
  Sessions <- DomainSession
  MAX_UNAME_LEN = 2
  MAX_PASSWD_LEN = 2
  AllocMayFail = FALSE
INVARIANTS
  NoAssertionFails
CHECK_DEADLOCK FALSE
