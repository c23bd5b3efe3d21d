\* One call, one message with any attributes; everything may fail.
SPECIFICATION Spec
INVARIANTS
  TypeOK
  NothingLeaks
  FreedOnce
  OkMeansTrue
\* The call returns, the message is handled, and that is all.
CHECK_DEADLOCK FALSE
