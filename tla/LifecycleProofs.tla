--------------------------- MODULE LifecycleProofs ---------------------------
(***************************************************************************)
(* Proofs about Lifecycle, for any number of starts and any event queue:   *)
(* types, and what the calls of the application and the tasks may find     *)
(* released under them.                                                    *)
(***************************************************************************)
EXTENDS Lifecycle, TLAPS

UsingCalls == {"start_ws", "start_timer", "start_task", "stop"}
DestroyCalls == {"delete_timer", "delete_json", "destroy_ws", "free"}

(* Which calls go with which handle.  A client found running by            *)
(* esp_hass_destroy() is the only one whose websocket task may go on.      *)
Phases ==
  /\ call \in UsingCalls => handle = "valid"
  /\ call = "start_ws" => started
  /\ call \in DestroyCalls => handle = "NULL"
  /\ handle = "none" => ws = "none" /\ held = {}
  /\ found # "none" => handle = "NULL"
  /\ ws # "none" => started /\ (handle = "valid" \/ found = "running")

(* What is allocated in each phase.                                        *)
Allocated ==
  /\ handle = "valid" =>
       Members \subseteq held /\ config = queues /\ "result_queue" \in queues
  /\ call \in DestroyCalls => "client" \in held
  /\ call \in {"delete_json", "destroy_ws", "free"} => "timer" \notin held
  /\ call = "free" => "ws_client" \notin held /\ ws = "none"
  /\ handle = "NULL" /\ call = "none" =>
       ws = "none" /\ held \subseteq {"message_semaphore", "event_loop"}
  /\ handle = "NULL" /\ found = "none" => "event_loop" \notin held
  /\ found # "none" => {"message_semaphore", "event_loop"} \subseteq held

(* client->json is the auth message that is being sent. *)
Json ==
  /\ "json" \in held => ws = "send"
  /\ ws = "send" /\ handle = "valid" => "json" \in held

(* The tasks that use the event queue know that there is one, and a client *)
(* that was quiet when it was destroyed stays quiet.                       *)
TasksOf ==
  /\ ws = "enqueue" => "event_queue" \in config
  /\ \A i \in Sources :
       /\ source[i] # "none" => handle = "valid" \/ found # "none"
       /\ source[i] \in {"receive", "post", "take"} => "event_queue" \in config
  /\ found = "quiet" => Quiet

(* What is allocated depends on the call, and what the tasks do on what is *)
(* allocated: none of the parts is inductive by itself.                    *)
IInv == TypeOK /\ Phases /\ Allocated /\ Json /\ TasksOf

-----------------------------------------------------------------------------
(* The actions, told apart. *)
LEMMA NextActions ==
  [Next]_vars =>
    \/ \E q \in SUBSET Queues : CreateQueues(q)
    \/ DeleteQueues \/ CallInit \/ CallStart \/ StartWs \/ StartTimer
    \/ StartTask \/ CallStop \/ StopWs \/ CallDestroy
    \/ DeleteTimer \/ DeleteJson \/ DestroyWs \/ Free
    \/ \E e \in WsEdges : WebsocketGoes(e[1], e[2])
    \/ \E i \in Sources : \E e \in SourceEdges : SourceGoes(i, e[1], e[2])
    \/ UNCHANGED vars
<1>1. WebsocketEvent => \E e \in WsEdges : WebsocketGoes(e[1], e[2])
  <2> SUFFICES ASSUME WebsocketEvent
               PROVE  \E e \in WsEdges : WebsocketGoes(e[1], e[2])
    OBVIOUS
  <2>1. <<"idle", "timer">> \in WsEdges
    BY DEF WsEdges
  <2>2. WebsocketGoes(<<"idle", "timer">>[1], <<"idle", "timer">>[2])
    BY DEF WebsocketEvent
  <2> QED
    BY <2>1, <2>2
<1> QED
  BY <1>1 DEF Next, Call, CallStep, WebsocketStep, SourceStep

LEMMA InitType == Init => TypeOK
<1> SUFFICES ASSUME Init PROVE TypeOK
  OBVIOUS
<1>1. source \in [Sources -> DOMAIN SourceUses]
  BY DEF Init, SourceUses
<1>2. queued \in 0..QueueLen
  BY BoundAssumption DEF Init
<1>3. call \in DOMAIN CallUses /\ ws \in DOMAIN WsUses
  BY DEF Init, CallUses, WsUses
<1>4. /\ queues \subseteq Queues /\ config \subseteq Queues
      /\ held \subseteq Members \union {"json"}
      /\ handle \in {"none", "valid", "NULL"} /\ err \in {"ESP_OK", "ESP_FAIL"}
      /\ started \in BOOLEAN /\ failed \subseteq {"timer", "task"}
      /\ found \in {"none", "quiet", "stopped", "running"}
  BY DEF Init
<1> QED
  BY <1>1, <1>2, <1>3, <1>4 DEF TypeOK

(* What a failed esp_hass_init() holds are members, none without the       *)
(* struct, and never the event loop, which comes last.                     *)
LEMMA Allocations ==
  ASSUME NEW n \in DOMAIN InitSteps
  PROVE  /\ AllocatedBefore(n) \subseteq Members
         /\ "client" \notin AllocatedBefore(n) => AllocatedBefore(n) = {}
         /\ "event_loop" \notin AllocatedBefore(n)
<1>1. n \in 1..11
  BY DEF InitSteps
<1>2. \A m : m \in AllocatedBefore(n) <=>
               m \in Members /\ \E i \in 1..(n - 1) : m = InitSteps[i]
  BY DEF AllocatedBefore
<1>3. \A i \in 1..10 : InitSteps[i] # "event_loop"
  BY DEF InitSteps
<1>4. InitSteps[1] = "config" /\ InitSteps[2] = "client"
  BY DEF InitSteps
<1>5. AllocatedBefore(n) \subseteq Members
  BY <1>2
<1>6. "event_loop" \notin AllocatedBefore(n)
  BY <1>1, <1>2, <1>3
<1>7. CASE n > 2
  BY <1>1, <1>2, <1>4, <1>5, <1>6, <1>7 DEF Members
<1>8. CASE n <= 2
  <2>1. \A i \in 1..(n - 1) : InitSteps[i] \notin Members
    BY <1>1, <1>4, <1>8 DEF Members
  <2> QED
    BY <1>2, <1>5, <1>6, <2>1
<1> QED
  BY <1>1, <1>5, <1>6, <1>7, <1>8

LEMMA NextType == TypeOK /\ [Next]_vars => TypeOK'
<1> SUFFICES ASSUME TypeOK, [Next]_vars PROVE TypeOK'
  OBVIOUS
<1> USE DEF TypeOK, CallUses, WsUses, SourceUses
<1>1. ASSUME NEW q \in SUBSET Queues, CreateQueues(q) PROVE TypeOK'
  BY <1>1 DEF CreateQueues, history
<1>2. CASE DeleteQueues
  BY <1>2 DEF DeleteQueues, history
<1>3. CASE CallInit
  <2>1. held' \subseteq Members
    BY <1>3, Allocations DEF CallInit
  <2> QED
    BY <1>3, <2>1 DEF CallInit, Return, history
<1>4. CASE CallStart
  BY <1>4 DEF CallStart
<1>5. CASE StartWs
  BY <1>5 DEF StartWs, Return
<1>6. CASE StartTimer
  BY <1>6 DEF StartTimer, Return
<1>7. CASE StartTask
  BY <1>7 DEF StartTask, Return
<1>8. CASE CallStop
  BY <1>8 DEF CallStop, history
<1>9. CASE StopWs
  BY <1>9 DEF StopWs, Return
<1>10. CASE CallDestroy
  BY <1>10 DEF CallDestroy
<1>11. CASE DeleteTimer
  BY <1>11 DEF DeleteTimer, history
<1>12. CASE DeleteJson
  BY <1>12 DEF DeleteJson, history
<1>13. CASE DestroyWs
  BY <1>13 DEF DestroyWs, history
<1>14. CASE Free
  BY <1>14 DEF Free, Return, history
<1>15. ASSUME NEW e \in WsEdges, WebsocketGoes(e[1], e[2]) PROVE TypeOK'
  <2>1. queued' \in 0..QueueLen
    BY <1>15, BoundAssumption DEF WebsocketGoes, Enqueue
  <2>2. ws' \in DOMAIN WsUses
    BY <1>15 DEF WsEdges, WebsocketGoes
  <2>3. held' \subseteq Members \union {"json"}
    BY <1>15 DEF WebsocketGoes
  <2> QED
    BY <1>15, <2>1, <2>2, <2>3 DEF WebsocketGoes, app, history
<1>16. ASSUME NEW i \in Sources, NEW e \in SourceEdges, SourceGoes(i, e[1], e[2])
      PROVE  TypeOK'
  <2>1. queued' \in 0..QueueLen
    BY <1>16, BoundAssumption DEF SourceGoes
  <2>2. e[2] \in DOMAIN SourceUses
    BY <1>16 DEF SourceEdges
  <2>3. source' \in [Sources -> DOMAIN SourceUses]
    BY <1>16, <2>2 DEF SourceGoes
  <2> QED
    BY <1>16, <2>1, <2>3 DEF SourceGoes, app, history
<1>17. CASE UNCHANGED vars
  BY <1>17 DEF vars, app, history
<1> QED
  BY <1>1, <1>2, <1>3, <1>4, <1>5, <1>6, <1>7, <1>8, <1>9, <1>10, <1>11, <1>12, <1>13, <1>14, <1>15, <1>16, <1>17, NextActions

LEMMA NextPhases == TypeOK /\ Phases /\ [Next]_vars => Phases'
<1> SUFFICES ASSUME TypeOK /\ Phases, [Next]_vars PROVE Phases'
  OBVIOUS
<1> USE DEF TypeOK, Phases, UsingCalls, DestroyCalls, CallUses, WsUses
<1>1. ASSUME NEW q \in SUBSET Queues, CreateQueues(q) PROVE Phases'
  BY <1>1 DEF CreateQueues, history
<1>2. CASE DeleteQueues
  BY <1>2 DEF DeleteQueues, history
<1>3. CASE CallInit
  BY <1>3 DEF CallInit, Return, history
<1>4. CASE CallStart
  BY <1>4 DEF CallStart
<1>5. CASE StartWs
  BY <1>5 DEF StartWs, Return
<1>6. CASE StartTimer
  BY <1>6 DEF StartTimer, Return
<1>7. CASE StartTask
  BY <1>7 DEF StartTask, Return
<1>8. CASE CallStop
  BY <1>8 DEF CallStop, history
<1>9. CASE StopWs
  BY <1>9 DEF StopWs, Return
<1>10. CASE CallDestroy
  BY <1>10 DEF CallDestroy
<1>11. CASE DeleteTimer
  BY <1>11 DEF DeleteTimer, history
<1>12. CASE DeleteJson
  BY <1>12 DEF DeleteJson, history
<1>13. CASE DestroyWs
  BY <1>13 DEF DestroyWs, history
<1>14. CASE Free
  BY <1>14 DEF Free, Return, history
<1>15. ASSUME NEW e \in WsEdges, WebsocketGoes(e[1], e[2]) PROVE Phases'
  BY <1>15 DEF WsEdges, WebsocketGoes, Enqueue, app, history
<1>16. ASSUME NEW i \in Sources, NEW e \in SourceEdges, SourceGoes(i, e[1], e[2])
      PROVE  Phases'
  BY <1>16 DEF SourceEdges, SourceGoes, app, history
<1>17. CASE UNCHANGED vars
  BY <1>17 DEF vars, app, history
<1> QED
  BY <1>1, <1>2, <1>3, <1>4, <1>5, <1>6, <1>7, <1>8, <1>9, <1>10, <1>11, <1>12, <1>13, <1>14, <1>15, <1>16, <1>17, NextActions

LEMMA NextAllocated == TypeOK /\ Phases /\ Json /\ Allocated /\ [Next]_vars => Allocated'
<1> SUFFICES ASSUME TypeOK /\ Phases /\ Json /\ Allocated, [Next]_vars PROVE Allocated'
  OBVIOUS
<1> USE DEF TypeOK, Phases, Json, Allocated, UsingCalls, DestroyCalls, Members
<1>1. ASSUME NEW q \in SUBSET Queues, CreateQueues(q) PROVE Allocated'
  BY <1>1 DEF CreateQueues, history
<1>2. CASE DeleteQueues
  BY <1>2 DEF DeleteQueues, history
<1>3. CASE CallInit
  <2>1. /\ held' \subseteq Members
        /\ handle' = "NULL" =>
             "event_loop" \notin held' /\ ("client" \notin held' => held' = {})
    BY <1>3, Allocations DEF CallInit
  <2> QED
    BY <1>3, <2>1 DEF CallInit, Return, history
<1>4. CASE CallStart
  BY <1>4 DEF CallStart
<1>5. CASE StartWs
  BY <1>5 DEF StartWs, Return
<1>6. CASE StartTimer
  BY <1>6 DEF StartTimer, Return
<1>7. CASE StartTask
  BY <1>7 DEF StartTask, Return
<1>8. CASE CallStop
  BY <1>8 DEF CallStop, history
<1>9. CASE StopWs
  BY <1>9 DEF StopWs, Return
<1>10. CASE CallDestroy
  BY <1>10 DEF CallDestroy
<1>11. CASE DeleteTimer
  BY <1>11 DEF DeleteTimer, history
<1>12. CASE DeleteJson
  BY <1>12 DEF DeleteJson, history
<1>13. CASE DestroyWs
  BY <1>13 DEF DestroyWs, history
<1>14. CASE Free
  BY <1>14 DEF Free, Return, history
<1>15. ASSUME NEW e \in WsEdges, WebsocketGoes(e[1], e[2]) PROVE Allocated'
  BY <1>15 DEF WsEdges, WebsocketGoes, Enqueue, app, history
<1>16. ASSUME NEW i \in Sources, NEW e \in SourceEdges, SourceGoes(i, e[1], e[2])
      PROVE  Allocated'
  BY <1>16 DEF SourceEdges, SourceGoes, app, history
<1>17. CASE UNCHANGED vars
  BY <1>17 DEF vars, app, history
<1> QED
  BY <1>1, <1>2, <1>3, <1>4, <1>5, <1>6, <1>7, <1>8, <1>9, <1>10, <1>11, <1>12, <1>13, <1>14, <1>15, <1>16, <1>17, NextActions

LEMMA NextJson == TypeOK /\ Phases /\ Json /\ [Next]_vars => Json'
<1> SUFFICES ASSUME TypeOK /\ Phases /\ Json, [Next]_vars PROVE Json'
  OBVIOUS
<1> USE DEF TypeOK, Phases, Json, DestroyCalls, Members
<1>1. ASSUME NEW q \in SUBSET Queues, CreateQueues(q) PROVE Json'
  BY <1>1 DEF CreateQueues, history
<1>2. CASE DeleteQueues
  BY <1>2 DEF DeleteQueues, history
<1>3. CASE CallInit
  <2>1. /\ held' \subseteq Members
        /\ handle' = "NULL" =>
             "event_loop" \notin held' /\ ("client" \notin held' => held' = {})
    BY <1>3, Allocations DEF CallInit
  <2> QED
    BY <1>3, <2>1 DEF CallInit, Return, history
<1>4. CASE CallStart
  BY <1>4 DEF CallStart
<1>5. CASE StartWs
  BY <1>5 DEF StartWs, Return
<1>6. CASE StartTimer
  BY <1>6 DEF StartTimer, Return
<1>7. CASE StartTask
  BY <1>7 DEF StartTask, Return
<1>8. CASE CallStop
  BY <1>8 DEF CallStop, history
<1>9. CASE StopWs
  BY <1>9 DEF StopWs, Return
<1>10. CASE CallDestroy
  BY <1>10 DEF CallDestroy
<1>11. CASE DeleteTimer
  BY <1>11 DEF DeleteTimer, history
<1>12. CASE DeleteJson
  BY <1>12 DEF DeleteJson, history
<1>13. CASE DestroyWs
  BY <1>13 DEF DestroyWs, history
<1>14. CASE Free
  BY <1>14 DEF Free, Return, history
<1>15. ASSUME NEW e \in WsEdges, WebsocketGoes(e[1], e[2]) PROVE Json'
  BY <1>15 DEF WsEdges, WebsocketGoes, Enqueue, app, history
<1>16. ASSUME NEW i \in Sources, NEW e \in SourceEdges, SourceGoes(i, e[1], e[2])
      PROVE  Json'
  BY <1>16 DEF SourceEdges, SourceGoes, app, history
<1>17. CASE UNCHANGED vars
  BY <1>17 DEF vars, app, history
<1> QED
  BY <1>1, <1>2, <1>3, <1>4, <1>5, <1>6, <1>7, <1>8, <1>9, <1>10, <1>11, <1>12, <1>13, <1>14, <1>15, <1>16, <1>17, NextActions

LEMMA NextTasksOf == TypeOK /\ Phases /\ Allocated /\ TasksOf /\ [Next]_vars => TasksOf'
<1> SUFFICES ASSUME TypeOK /\ Phases /\ Allocated /\ TasksOf, [Next]_vars PROVE TasksOf'
  OBVIOUS
<1> USE DEF TypeOK, Phases, Allocated, TasksOf, UsingCalls, DestroyCalls, Quiet
<1>1. ASSUME NEW q \in SUBSET Queues, CreateQueues(q) PROVE TasksOf'
  BY <1>1 DEF CreateQueues, history
<1>2. CASE DeleteQueues
  BY <1>2 DEF DeleteQueues, history
<1>3. CASE CallInit
  BY <1>3 DEF CallInit, Return, history
<1>4. CASE CallStart
  BY <1>4 DEF CallStart
<1>5. CASE StartWs
  BY <1>5 DEF StartWs, Return
<1>6. CASE StartTimer
  BY <1>6 DEF StartTimer, Return
<1>7. CASE StartTask
  BY <1>7 DEF StartTask, Return
<1>8. CASE CallStop
  BY <1>8 DEF CallStop, history
<1>9. CASE StopWs
  BY <1>9 DEF StopWs, Return
<1>10. CASE CallDestroy
  BY <1>10 DEF CallDestroy
<1>11. CASE DeleteTimer
  BY <1>11 DEF DeleteTimer, history
<1>12. CASE DeleteJson
  BY <1>12 DEF DeleteJson, history
<1>13. CASE DestroyWs
  BY <1>13 DEF DestroyWs, history
<1>14. CASE Free
  BY <1>14 DEF Free, Return, history
<1>15. ASSUME NEW e \in WsEdges, WebsocketGoes(e[1], e[2]) PROVE TasksOf'
  BY <1>15 DEF WsEdges, WebsocketGoes, Enqueue, app, history
<1>16. ASSUME NEW i \in Sources, NEW e \in SourceEdges, SourceGoes(i, e[1], e[2])
      PROVE  TasksOf'
  BY <1>16 DEF SourceEdges, SourceGoes, app, history
<1>17. CASE UNCHANGED vars
  BY <1>17 DEF vars, app, history
<1> QED
  BY <1>1, <1>2, <1>3, <1>4, <1>5, <1>6, <1>7, <1>8, <1>9, <1>10, <1>11, <1>12, <1>13, <1>14, <1>15, <1>16, <1>17, NextActions

-----------------------------------------------------------------------------
LEMMA Inductive == Spec => []IInv
<1>1. Init => IInv
  <2> SUFFICES ASSUME Init PROVE IInv
    OBVIOUS
  <2>1. TypeOK
    BY InitType
  <2>2. Phases /\ Allocated /\ Json /\ TasksOf
    BY DEF Init, Phases, Allocated, Json, TasksOf, UsingCalls, DestroyCalls, Sources
  <2> QED
    BY <2>1, <2>2 DEF IInv
<1>2. IInv /\ [Next]_vars => IInv'
  BY NextType, NextPhases, NextAllocated, NextJson, NextTasksOf DEF IInv
<1> QED
  BY <1>1, <1>2, PTL DEF Spec

(* Every variable stays in its type, and the event queue within its length. *)
THEOREM TypeCorrect == Spec => []TypeOK
<1>1. IInv => TypeOK
  BY DEF IInv
<1> QED
  BY <1>1, Inductive, PTL

(* A call of the application touches only what is there, even when the     *)
(* client was running as it was destroyed; the websocket task does so      *)
(* otherwise.                                                              *)
LEMMA CallsTouch == IInv => CallUses[call] \subseteq held
  BY DEF IInv, TypeOK, Phases, Allocated, CallUses, UsingCalls, DestroyCalls,
         Members

LEMMA WebsocketTouches ==
  IInv /\ found # "running" => WsUses[ws] \subseteq held \union queues
  BY DEF IInv, TypeOK, Phases, Allocated, Json, TasksOf, WsUses, Members

(* A client that was stopped, or never started, is destroyed safely: the   *)
(* application's calls and the websocket task touch only what is there.    *)
THEOREM SafeWhenStopped == Spec => []StoppedIsSafe
<1>1. IInv => StoppedIsSafe
  BY CallsTouch, WebsocketTouches DEF StoppedIsSafe, Exists
<1> QED
  BY <1>1, Inductive, PTL

(* An event source task that outlives the client finds the struct missing, *)
(* or the application's queue, and nothing else; and not the struct either *)
(* while nothing is queued.                                                *)
LEMMA SourcesTouch == IInv => OnlyTheStructDangles
<1> SUFFICES ASSUME IInv, NEW i \in Sources
             PROVE  LET dangling == SourceUses[source[i]] \ Exists
                    IN  /\ dangling \subseteq {"client", "event_queue"}
                        /\ found = "quiet" => "client" \notin dangling
                        /\ found = "none" => dangling = {}
  BY DEF OnlyTheStructDangles
<1> USE DEF IInv, Exists
<1>1. source[i] \in DOMAIN SourceUses
  BY DEF TypeOK
<1>2. CASE handle = "valid"
  BY <1>1, <1>2 DEF SourceUses, TypeOK, Allocated, Members, TasksOf
<1>3. CASE found # "none"
  BY <1>1, <1>3 DEF SourceUses, Allocated, TasksOf, Quiet
<1>4. CASE source[i] = "none"
  BY <1>4 DEF SourceUses
<1> QED
  BY <1>2, <1>3, <1>4 DEF TasksOf

(* That is so in every order of calls, and of the tasks' steps. *)
THEOREM StructDangles == Spec => []OnlyTheStructDangles
  BY SourcesTouch, Inductive, PTL

(* The semaphore of a client that could not be initialised, the semaphore  *)
(* and the event loop of one that was destroyed, and nothing else, are     *)
(* never released.                                                         *)
THEOREM NothingElseIsLeft == Spec => []LeftBehind
<1>1. IInv => LeftBehind
  BY DEF IInv, Allocated, LeftBehind
<1> QED
  BY <1>1, Inductive, PTL

-----------------------------------------------------------------------------
(* Why EventsAreTaken holds: where events come from, a task takes them.    *)
Taking == {"read", "receive", "post", "take"}

(* Once the websocket task runs, a task takes what it puts in the event    *)
(* queue, or is about to be created, unless a part of                      *)
(* esp_hass_client_start() failed; stopping and destroying the client, and *)
(* starting it again, change nothing about that.                           *)
EventsHaveATaker ==
  "event_queue" \in config /\ (ws # "none" \/ queued > 0) =>
    \/ failed # {}
    \/ call \in {"start_timer", "start_task"}
    \/ \E i \in Sources : source[i] \in Taking

(* Before there is a client the queue is empty.                            *)
TakerInv == EventsHaveATaker /\ (handle = "none" => queued = 0)

LEMMA NextTaker == IInv /\ TakerInv /\ [Next]_vars => TakerInv'
<1> SUFFICES ASSUME IInv, TakerInv, [Next]_vars PROVE TakerInv'
  OBVIOUS
<1> USE DEF TakerInv, EventsHaveATaker, IInv, TypeOK, Phases, UsingCalls,
            DestroyCalls, Return, history, app
<1>1. ASSUME NEW q \in SUBSET Queues, CreateQueues(q) PROVE TakerInv'
  BY <1>1 DEF CreateQueues
<1>2. CASE DeleteQueues
  BY <1>2 DEF DeleteQueues
<1>3. CASE CallInit
  BY <1>3 DEF CallInit
<1>4. CASE CallStart
  BY <1>4 DEF CallStart
<1>5. CASE StartWs
  BY <1>5 DEF StartWs
<1>6. CASE StartTimer
  BY <1>6 DEF StartTimer
<1>7. CASE StartTask
  <2>1. CASE failed' = failed \union {"task"}
    BY <1>7, <2>1 DEF StartTask
  <2>2. ASSUME NEW i \in Sources, source' = [source EXCEPT ![i] = "read"]
        PROVE  source'[i] \in Taking
    BY <2>2 DEF Taking
  <2> QED
    BY <1>7, <2>1, <2>2 DEF StartTask
<1>8. CASE CallStop
  BY <1>8 DEF CallStop
<1>9. CASE StopWs
  BY <1>9 DEF StopWs
<1>10. CASE CallDestroy
  BY <1>10 DEF CallDestroy
<1>11. CASE DeleteTimer \/ DeleteJson
  BY <1>11 DEF DeleteTimer, DeleteJson
<1>12. CASE DestroyWs
  BY <1>12 DEF DestroyWs
<1>13. CASE Free
  BY <1>13 DEF Free
<1>14. ASSUME NEW e \in WsEdges, WebsocketGoes(e[1], e[2]) PROVE TakerInv'
  <2>1. ws # "none" /\ UNCHANGED <<config, handle, call, source, failed>>
    BY <1>14 DEF WsEdges, WebsocketGoes
  <2> QED
    BY <2>1
<1>15. ASSUME NEW i \in Sources, NEW e \in SourceEdges, SourceGoes(i, e[1], e[2])
       PROVE  TakerInv'
  <2>1. /\ UNCHANGED <<config, handle, call, ws, failed>>
        /\ queued' \in Nat /\ queued' <= queued
    BY <1>15 DEF SourceGoes
  <2>2. ASSUME "event_queue" \in config, NEW j \in Sources, source[j] \in Taking
        PROVE  source'[j] \in Taking
    BY <1>15, <2>2 DEF SourceGoes, SourceEdges, Taking
  <2> QED
    BY <2>1, <2>2
<1>16. CASE UNCHANGED vars
  BY <1>16 DEF vars
<1> QED
  BY <1>1, <1>2, <1>3, <1>4, <1>5, <1>6, <1>7, <1>8, <1>9, <1>10, <1>11,
     <1>12, <1>13, <1>14, <1>15, <1>16, NextActions

(* Every event that reached the queue has a task to take it, in whichever  *)
(* order the client was started, stopped and destroyed, unless a part of   *)
(* esp_hass_client_start() failed.                                         *)
THEOREM EventsFindATaker == Spec => []EventsHaveATaker
<1>1. Init => TakerInv
  BY DEF Init, TakerInv, EventsHaveATaker
<1>2. TakerInv => EventsHaveATaker
  BY DEF TakerInv
<1> QED
  BY <1>1, <1>2, NextTaker, Inductive, PTL DEF Spec

=============================================================================
