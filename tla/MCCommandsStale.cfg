\* A call that follows one that timed out.
SPECIFICATION Spec
CONSTANTS
  Callers = {c1}
  Timed = {c1}
  Senders = {}
  MaxCalls = 2
  ResultQueueLen = 1
  Lossy = FALSE
  NoResult = NoResult
INVARIANT Truthful
CHECK_DEADLOCK FALSE
