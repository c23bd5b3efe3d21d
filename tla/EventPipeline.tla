---------------------------- MODULE EventPipeline ----------------------------
(***************************************************************************)
(* The life of an event message inside the client: from the moment         *)
(* message_handler() (websocket task) holds it, through                    *)
(* client->event_queue, through esp_hass_task_event_source(), which posts  *)
(* it to the event loop and then waits on client->message_semaphore, to    *)
(* the user's handler (loop task) and to esp_hass_message_destroy().       *)
(*                                                                         *)
(* Three kinds of task interleave: the websocket task, one event source    *)
(* task for each call of esp_hass_client_start() (esp_hass_client_stop()   *)
(* ends none of them), and the task of the event loop, where the handlers  *)
(* run.  A message is its heap address, so an address that was freed may   *)
(* be allocated again for a later message.                                 *)
(***************************************************************************)
EXTENDS Naturals, Sequences

CONSTANTS
  Msgs,           \* heap addresses a message can have (bounds the heap)
  Sources,        \* the event source tasks: one per esp_hass_client_start()
  Handlers,       \* functions given to esp_hass_event_handler_register()
  Giving,         \* those that call esp_hass_message_semaphore_give()
  EventQueueLen,  \* length of the queue the application created
  LoopQueueLen,   \* CONFIG_ESP_HASS_TASK_EVENT_SOURCE_QUEUE_SIZE
  HasEventQueue,  \* config->event_queue # NULL (it is optional)
  RegisterFirst,  \* handlers are registered before any event is subscribed
  Prompt,         \* handlers return within the semaphore's take timeout
  PostMayFail,    \* esp_event_post_to() may fail: it allocates
  NoMsg           \* NULL

ASSUME NoMsgAssumption == NoMsg \notin Msgs
ASSUME QueueAssumption ==
  /\ EventQueueLen \in Nat \ {0}
  /\ LoopQueueLen \in Nat \ {0}
ASSUME SwitchAssumption ==
  /\ HasEventQueue \in BOOLEAN
  /\ RegisterFirst \in BOOLEAN
  /\ Prompt \in BOOLEAN
  /\ PostMayFail \in BOOLEAN
ASSUME GivingAssumption == Giving \subseteq Handlers

VARIABLES
  heap,               \* whether each address is allocated
  rx_msg,             \* message the websocket task is about to enqueue
  event_queue,        \* client->event_queue
  source,             \* where each event source task is
  source_msg,         \* its local variable msg
  loop_queue,         \* events posted to the loop, not dispatched
  loop_msg,           \* message of the event being dispatched
  todo,               \* handlers that have not returned from that event
  message_semaphore,  \* client->message_semaphore, a binary semaphore
  registered,         \* handlers the loop knows
  handled             \* live messages every registered handler returned from

vars == <<heap, rx_msg, event_queue, source, source_msg, loop_queue,
          loop_msg, todo, message_semaphore, registered, handled>>

loopVars == <<loop_queue, loop_msg, todo>>

SourcePC == {"none", "deleted", "receive", "post", "take", "destroy"}

Elems(seq) == {seq[i] : i \in DOMAIN seq}

(* The memory msg and msg->json occupy until esp_hass_message_destroy(). *)
Destroy(m) == heap' = [heap EXCEPT ![m] = "free"]

(* The event loop still holds, or is still passing to handlers, message m. *)
InLoop(m) == m \in Elems(loop_queue) \/ (todo # {} /\ loop_msg = m)

(* Mutant of Init: the semaphore is created given, as                      *)
(* vSemaphoreCreateBinary() does.                                          *)
InitGiven ==
  /\ heap = [m \in Msgs |-> "free"]
  /\ rx_msg = NoMsg
  /\ event_queue = <<>>
  /\ source = [s \in Sources |-> "none"]
  /\ source_msg = [s \in Sources |-> NoMsg]
  /\ loop_queue = <<>>
  /\ loop_msg = NoMsg
  /\ todo = {}
  /\ message_semaphore = 1
  /\ registered = {}
  /\ handled = {}

Init ==
  /\ heap = [m \in Msgs |-> "free"]
  /\ rx_msg = NoMsg
  /\ event_queue = <<>>
  /\ source = [s \in Sources |-> "none"]
  /\ source_msg = [s \in Sources |-> NoMsg]
  /\ loop_queue = <<>>
  /\ loop_msg = NoMsg
  /\ todo = {}
  /\ message_semaphore = 0
  /\ registered = {}
  /\ handled = {}

-----------------------------------------------------------------------------
(* The application.                                                        *)

(* esp_hass_event_handler_register() *)
Register(h) ==
  /\ h \notin registered
  /\ registered' = registered \union {h}
  /\ UNCHANGED <<heap, rx_msg, event_queue, source, source_msg, loop_queue,
                 loop_msg, todo, message_semaphore, handled>>

(* esp_hass_client_start() creates the event source task, which deletes    *)
(* itself at once when there is no event queue.                            *)
ClientStart(s) ==
  /\ source[s] = "none"
  /\ source' = [source EXCEPT ![s] =
                  IF HasEventQueue THEN "receive" ELSE "deleted"]
  /\ UNCHANGED <<heap, rx_msg, event_queue, source_msg, loopVars,
                 message_semaphore, registered, handled>>

-----------------------------------------------------------------------------
(* The websocket task: message_handler() for PONG, EVENT and unknown types. *)

(* esp_hass_message_parse() allocated m.  Without an event queue the       *)
(* function returns and keeps no reference to m.                           *)
WsReceive(m) ==
  /\ rx_msg = NoMsg
  /\ heap[m] = "free"
  /\ \E s \in Sources : source[s] # "none"
  /\ RegisterFirst => registered = Handlers
  /\ heap' = [heap EXCEPT ![m] = "live"]
  /\ handled' = handled \ {m}
  /\ rx_msg' = IF HasEventQueue THEN m ELSE NoMsg
  /\ UNCHANGED <<event_queue, source, source_msg, loopVars,
                 message_semaphore, registered>>

(* Mutants of WsEnqueue: no bound; xQueueSendToFront(); the message is     *)
(* destroyed although it was queued.                                       *)
WsEnqueueUnbounded ==
  /\ rx_msg # NoMsg
  /\ event_queue' = Append(event_queue, rx_msg)
  /\ rx_msg' = NoMsg
  /\ UNCHANGED <<heap, source, source_msg, loopVars, message_semaphore,
                 registered, handled>>

WsEnqueueFront ==
  /\ rx_msg # NoMsg
  /\ Len(event_queue) < EventQueueLen
  /\ event_queue' = <<rx_msg>> \o event_queue
  /\ rx_msg' = NoMsg
  /\ UNCHANGED <<heap, source, source_msg, loopVars, message_semaphore,
                 registered, handled>>

WsEnqueueDestroys ==
  /\ rx_msg # NoMsg
  /\ Len(event_queue) < EventQueueLen
  /\ event_queue' = Append(event_queue, rx_msg)
  /\ Destroy(rx_msg)
  /\ rx_msg' = NoMsg
  /\ UNCHANGED <<source, source_msg, loopVars, message_semaphore, registered,
                 handled>>

(* xQueueSend() succeeds within ESP_HASS_QUEUE_SEND_WAIT_MS. *)
WsEnqueue ==
  /\ rx_msg # NoMsg
  /\ Len(event_queue) < EventQueueLen
  /\ event_queue' = Append(event_queue, rx_msg)
  /\ rx_msg' = NoMsg
  /\ UNCHANGED <<heap, source, source_msg, loopVars, message_semaphore,
                 registered, handled>>

(* Mutant of WsDrop: the message is not destroyed. *)
WsDropLeaks ==
  /\ rx_msg # NoMsg
  /\ Len(event_queue) = EventQueueLen
  /\ rx_msg' = NoMsg
  /\ UNCHANGED <<heap, event_queue, source, source_msg, loopVars,
                 message_semaphore, registered, handled>>

(* xQueueSend() times out on a full queue: the new message is destroyed. *)
WsDrop ==
  /\ rx_msg # NoMsg
  /\ Len(event_queue) = EventQueueLen
  /\ Destroy(rx_msg)
  /\ rx_msg' = NoMsg
  /\ UNCHANGED <<event_queue, source, source_msg, loopVars,
                 message_semaphore, registered, handled>>

-----------------------------------------------------------------------------
(* The event source tasks: esp_hass_task_event_source().                   *)

SourceReceive(s) ==
  /\ source[s] = "receive"
  /\ event_queue # <<>>
  /\ source_msg' = [source_msg EXCEPT ![s] = Head(event_queue)]
  /\ event_queue' = Tail(event_queue)
  /\ source' = [source EXCEPT ![s] = "post"]
  /\ UNCHANGED <<heap, rx_msg, loopVars, message_semaphore, registered,
                 handled>>

(* Mutant of SourcePost: the task does not wait for the semaphore. *)
SourcePostNoWait(s) ==
  /\ source[s] = "post"
  /\ Len(loop_queue) < LoopQueueLen
  /\ loop_queue' = Append(loop_queue, source_msg[s])
  /\ source' = [source EXCEPT ![s] = "destroy"]
  /\ UNCHANGED <<heap, rx_msg, event_queue, source_msg, loop_msg, todo,
                 message_semaphore, registered, handled>>

(* esp_event_post_to() with portMAX_DELAY waits for room.  It copies the   *)
(* struct, whose json pointer is still the one of this message.            *)
SourcePost(s) ==
  /\ source[s] = "post"
  /\ Len(loop_queue) < LoopQueueLen
  /\ loop_queue' = Append(loop_queue, source_msg[s])
  /\ source' = [source EXCEPT ![s] = "take"]
  /\ UNCHANGED <<heap, rx_msg, event_queue, source_msg, loop_msg, todo,
                 message_semaphore, registered, handled>>

(* A failed post is only logged: the task goes on to the semaphore. *)
SourcePostFails(s) ==
  /\ PostMayFail
  /\ source[s] = "post"
  /\ source' = [source EXCEPT ![s] = "take"]
  /\ UNCHANGED <<heap, rx_msg, event_queue, source_msg, loopVars,
                 message_semaphore, registered, handled>>

SourceTake(s) ==
  /\ source[s] = "take"
  /\ message_semaphore = 1
  /\ message_semaphore' = 0
  /\ source' = [source EXCEPT ![s] = "destroy"]
  /\ UNCHANGED <<heap, rx_msg, event_queue, source_msg, loopVars,
                 registered, handled>>

(* Mutants of SourceTimeout: a block time of zero; portMAX_DELAY. *)
SourceTimeoutZero(s) ==
  /\ source[s] = "take"
  /\ message_semaphore = 0
  /\ source' = [source EXCEPT ![s] = "destroy"]
  /\ UNCHANGED <<heap, rx_msg, event_queue, source_msg, loopVars,
                 message_semaphore, registered, handled>>

SourceTimeoutNever(s) == s \notin Sources /\ UNCHANGED vars

(* xSemaphoreTake() times out: only logged. *)
SourceTimeout(s) ==
  /\ source[s] = "take"
  /\ message_semaphore = 0
  /\ Prompt => ~InLoop(source_msg[s])
  /\ source' = [source EXCEPT ![s] = "destroy"]
  /\ UNCHANGED <<heap, rx_msg, event_queue, source_msg, loopVars,
                 message_semaphore, registered, handled>>

SourceDestroy(s) ==
  /\ source[s] = "destroy"
  /\ Destroy(source_msg[s])
  /\ source_msg' = [source_msg EXCEPT ![s] = NoMsg]
  /\ source' = [source EXCEPT ![s] = "receive"]
  /\ UNCHANGED <<rx_msg, event_queue, loopVars, message_semaphore,
                 registered, handled>>

-----------------------------------------------------------------------------
(* The event loop's task and the handlers it calls.                        *)

(* The loop takes the next event and calls each registered handler; with   *)
(* none it forgets the event.                                              *)
LoopDispatch ==
  /\ todo = {}
  /\ loop_queue # <<>>
  /\ loop_queue' = Tail(loop_queue)
  /\ todo' = registered
  /\ loop_msg' = IF registered = {} THEN NoMsg ELSE Head(loop_queue)
  /\ UNCHANGED <<heap, rx_msg, event_queue, source, source_msg,
                 message_semaphore, registered, handled>>

(* A handler returns; the giving ones end with                             *)
(* esp_hass_message_semaphore_give(), which fails when the semaphore is 1. *)
HandlerReturn(h) ==
  /\ h \in todo
  /\ todo' = todo \ {h}
  /\ message_semaphore' = IF h \in Giving THEN 1 ELSE message_semaphore
  /\ handled' = IF todo = {h} THEN handled \union {loop_msg} ELSE handled
  /\ loop_msg' = IF todo = {h} THEN NoMsg ELSE loop_msg
  /\ UNCHANGED <<heap, rx_msg, event_queue, source, source_msg, loop_queue,
                 registered>>

-----------------------------------------------------------------------------
SourceStep(s) ==
  \/ SourceReceive(s)
  \/ SourcePost(s) \/ SourcePostFails(s)
  \/ SourceTake(s) \/ SourceTimeout(s)
  \/ SourceDestroy(s)

Next ==
  \/ \E h \in Handlers : Register(h) \/ HandlerReturn(h)
  \/ \E s \in Sources : ClientStart(s) \/ SourceStep(s)
  \/ \E m \in Msgs : WsReceive(m)
  \/ WsEnqueue \/ WsDrop
  \/ LoopDispatch

(* Every task is scheduled, xQueueSend() and xSemaphoreTake() end because  *)
(* they have timeouts, and handlers return.  The server owes no message    *)
(* and the application owes no call.                                       *)
Fairness ==
  /\ WF_vars(WsEnqueue \/ WsDrop)
  /\ \A s \in Sources : WF_vars(SourceStep(s))
  /\ WF_vars(LoopDispatch)
  /\ \A h \in Handlers : WF_vars(HandlerReturn(h))

Spec == Init /\ [][Next]_vars
FairSpec == Spec /\ Fairness

-----------------------------------------------------------------------------
(* Every variable stays in its type. *)
TypeOK ==
  /\ heap \in [Msgs -> {"free", "live"}]
  /\ rx_msg \in Msgs \union {NoMsg}
  /\ event_queue \in Seq(Msgs)
  /\ Len(event_queue) <= EventQueueLen
  /\ source \in [Sources -> SourcePC]
  /\ source_msg \in [Sources -> Msgs \union {NoMsg}]
  /\ loop_queue \in Seq(Msgs)
  /\ Len(loop_queue) <= LoopQueueLen
  /\ loop_msg \in Msgs \union {NoMsg}
  /\ todo \subseteq Handlers
  /\ todo # {} <=> loop_msg # NoMsg
  /\ message_semaphore \in {0, 1}
  /\ registered \subseteq Handlers
  /\ handled \subseteq Msgs

(* Whoever will destroy a message: the websocket task while it holds it,   *)
(* the queue it waits in, the source task that took it out.                *)
Owned == {rx_msg} \union Elems(event_queue)
           \union {source_msg[s] : s \in Sources}

OneOwner ==
  /\ \A i, j \in DOMAIN event_queue :
       event_queue[i] = event_queue[j] => i = j
  /\ \A s, t \in Sources :
       source_msg[s] = source_msg[t] => s = t \/ source_msg[s] = NoMsg
  /\ rx_msg \notin Elems(event_queue)
  /\ \A s \in Sources :
       /\ source_msg[s] \notin Elems(event_queue)
       /\ source_msg[s] = rx_msg => rx_msg = NoMsg

(* A message in a queue or in a task's hands is live and is in one place   *)
(* only, so that no message is destroyed twice, whichever way the calls of *)
(* esp_hass_message_destroy() in message_handler() and in the source tasks *)
(* interleave.                                                             *)
NoDoubleDestroy ==
  /\ OneOwner
  /\ \A m \in Msgs : m \in Owned => heap[m] = "live"

(* Nothing leaks: every live message has an owner that will destroy it.    *)
(* The header of the parser asks for it: what esp_hass_message_parse()     *)
(* returns must be given to esp_hass_message_destroy().                    *)
NoLeak == \A m \in Msgs : heap[m] = "live" => m \in Owned

(* A source task has a message in hand exactly between taking it out of    *)
(* the queue and destroying it.                                            *)
Holding ==
  \A s \in Sources :
    source_msg[s] # NoMsg <=> source[s] \in {"post", "take", "destroy"}

(* The loop, the handler and the semaphore are idle except while the       *)
(* source task waits in xSemaphoreTake(), and then they are busy with its  *)
(* message: the wait keeps the two tasks in step, which is what makes one  *)
(* anonymous binary semaphore enough.                                      *)
InStep ==
  \A s \in Sources :
    /\ source[s] # "take" =>
         loop_queue = <<>> /\ todo = {} /\ message_semaphore = 0
    /\ loop_queue # <<>> =>
         /\ loop_queue = <<source_msg[s]>>
         /\ todo = {} /\ message_semaphore = 0
    /\ todo # {} => loop_msg = source_msg[s] /\ message_semaphore = 0
    /\ message_semaphore = 1 => source_msg[s] \in handled

(* No handler runs on memory that was freed: while any handler has the     *)
(* message, the source task that posted it has not destroyed it.           *)
HandlerReadsLive ==
  todo # {} => /\ heap[loop_msg] = "live"
               /\ \E s \in Sources : source_msg[s] = loop_msg

(* A successful xSemaphoreTake() is the answer to this message: its        *)
(* handlers have returned.  A token left over from an earlier message, or  *)
(* meant for another source task, would make it false.                     *)
TokenIsForThisMessage ==
  [][\A s \in Sources : SourceTake(s) => source_msg[s] \in handled]_vars

(* An event received after the handlers were registered is destroyed by    *)
(* the source task only once the handlers had it.                          *)
HandledBeforeDestroyed ==
  [][\A s \in Sources : SourceDestroy(s) => source_msg[s] \in handled]_vars

(* Every live message is destroyed in the end: no cycle of waits among the *)
(* queue, the loop and the semaphore holds it back.                        *)
EveryMessageDestroyed ==
  \A m \in Msgs : heap[m] = "live" ~> heap[m] = "free"

=============================================================================
