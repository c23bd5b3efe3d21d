\* Both programs; everything may fail.
SPECIFICATION FairSpec
CONSTANTS
  MaxStarts = 1
  QueueLen = 1
  MaxRetry = 2
INVARIANTS
  OnlyFailuresDangle
  EndsClean
  GivesUpForGood
PROPERTIES
  FollowsLifecycle
  OnlyTheStationStrands
\* app_main() ends in a loop that does nothing.
CHECK_DEADLOCK FALSE
