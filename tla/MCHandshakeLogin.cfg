SPECIFICATION Spec
CONSTANTS
  Sessions <- LoginSession
  MAX_UNAME_LEN = 2
  MAX_PASSWD_LEN = 2
  AllocMayFail = FALSE
PROPERTIES
  LoginIsAnswered
CHECK_DEADLOCK FALSE
