\* The documented use: one start, one prompt handler that gives the semaphore.
SPECIFICATION FairSpec
CONSTANTS
  Msgs = {m1, m2, m3, m4}
  Sources = {s1}
  Handlers = {h1}
  Giving = {h1}
  EventQueueLen = 2
  LoopQueueLen = 2
  HasEventQueue = TRUE
  RegisterFirst = TRUE
  Prompt = TRUE
  PostMayFail = FALSE
  NoMsg = NoMsg
INVARIANTS
  TypeOK
  InStep
  NoLeak
  HandlerReadsLive
PROPERTIES
  HandledBeforeDestroyed
  TokenIsForThisMessage
  ImplementsChannel
