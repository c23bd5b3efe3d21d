\* A handler may give after the take timed out.
SPECIFICATION Spec
CONSTANTS
  Msgs = {m1, m2}
  Sources = {s1}
  Handlers = {h1}
  Giving = {h1}
  EventQueueLen = 1
  LoopQueueLen = 1
  HasEventQueue = TRUE
  RegisterFirst = TRUE
  Prompt = FALSE
  PostMayFail = FALSE
  NoMsg = NoMsg
PROPERTY TokenIsForThisMessage
