SPECIFICATION Spec
CONSTANTS
  Sessions <- AllSessions
  MAX_UNAME_LEN = 2
  MAX_PASSWD_LEN = 2
  AllocMayFail = TRUE
INVARIANTS
  TypeOK
  DialsAsAsked
  AcceptsGoodClients
  StageAccounting
PROPERTIES
  GreetingIsAnswered
  RequestIsDialled
CHECK_DEADLOCK FALSE
