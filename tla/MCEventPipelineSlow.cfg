\* A slow handler, two starts, posts that fail, late registration.
SPECIFICATION FairSpec
CONSTANTS
  Msgs = {m1, m2, m3}
  Sources = {s1, s2}
  Handlers = {h1}
  Giving = {h1}
  EventQueueLen = 1
  LoopQueueLen = 1
  HasEventQueue = TRUE
  RegisterFirst = FALSE
  Prompt = FALSE
  PostMayFail = TRUE
  NoMsg = NoMsg
INVARIANT NoDoubleDestroy
PROPERTY EveryMessageDestroyed
