\* The client is started twice at most; queues of two; everything may fail.
SPECIFICATION FairSpec
CONSTANTS
  MaxStarts = 2
  QueueLen = 2
INVARIANTS
  TypeOK
  StoppedIsSafe
  OnlyTheStructDangles
  LeftBehind
PROPERTIES
  EventsAreTaken
  EveryCallReturns
\* After esp_hass_destroy() nothing need happen.
CHECK_DEADLOCK FALSE
