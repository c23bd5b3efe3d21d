\* Three connections; anything may fail.
SPECIFICATION FairSpec
CONSTANTS
  MaxSessions = 3
  MaxWaiting = 1
  MayFail = TRUE
INVARIANTS
  TypeOK
  FlagFollowsHandshake
  FirstSessionExclusive
PROPERTY FirstSessionAuthenticates
\* After the last connection broke nothing need happen.
CHECK_DEADLOCK FALSE
