\* The button example does not stop by itself, as it says it will.
SPECIFICATION FairSpec
CONSTANTS
  MaxStarts = 1
  QueueLen = 1
  MaxRetry = 2
PROPERTIES
  ButtonEnds
\* app_main() ends in a loop that does nothing.
CHECK_DEADLOCK FALSE
