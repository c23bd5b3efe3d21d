\* Two callers race for ids on a connection that breaks and loses results; one
\* waits with a timeout or does not wait, the other waits for ever.
SPECIFICATION FairSpec
CONSTANTS
  Callers = {c1, c2}
  Timed = {c1}
  Senders = {c1}
  MaxCalls = 2
  ResultQueueLen = 1
  Lossy = TRUE
  NoResult = NoResult
INVARIANTS
  TypeOK
  TruthfulInTurn
  AnswersBalance
  NoInventedSuccess
  DropsAreUnawaited
PROPERTY StrandedOnlyByLoss
\* The application may stop calling.
CHECK_DEADLOCK FALSE
