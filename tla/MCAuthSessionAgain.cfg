\* A second connection; nothing fails but the first one.
SPECIFICATION FairSpec
CONSTANTS
  MaxSessions = 2
  MaxWaiting = 1
  MayFail = FALSE
PROPERTY EverySessionAuthenticates
CHECK_DEADLOCK FALSE
