------------------------------ MODULE Lifecycle ------------------------------
(***************************************************************************)
(* The life of one client: esp_hass_init() with everything that may fail   *)
(* in it, esp_hass_client_start(), esp_hass_client_stop() and              *)
(* esp_hass_destroy() in any order, and the tasks that use meanwhile what  *)
(* these calls allocate and release.                                       *)
(*                                                                         *)
(* Of the websocket task and the event source tasks only the order is kept *)
(* in which they touch the members of struct esp_hass_client; what they do *)
(* with messages is in RxBuffer, AuthSession and EventPipeline.            *)
(***************************************************************************)
EXTENDS Naturals, Sequences

CONSTANTS
  MaxStarts,  \* bound: event source tasks
  QueueLen    \* length of the application's event queue

ASSUME BoundAssumption == MaxStarts \in Nat \ {0} /\ QueueLen \in Nat \ {0}

VARIABLES
  queues,   \* the application's queues that exist
  config,   \* those it gave to esp_hass_init()
  held,     \* what the client allocated and did not release
  handle,   \* what the application has of the client
  call,     \* where the application is in a call
  err,      \* what its last call returned
  ws,       \* where the websocket task is in websocket_event_handler()
  source,   \* where each event source task is
  queued,   \* messages in the event queue
  started,  \* history: the application started the client, and did not stop it
  failed,   \* history: what esp_hass_client_start() could not start
  found     \* history: what esp_hass_destroy() was called on

app == <<queues, config, handle, call, err>>
history == <<started, failed, found>>
vars == <<app, held, ws, source, queued, history>>

Queues == {"event_queue", "result_queue"}
Sources == 1..MaxStarts

(* The steps of esp_hass_init() that may fail; some allocate a member. *)
InitSteps == <<"config", "client", "rx_buffer", "result_queue", "ws_config",
               "uri", "message_semaphore", "ws_client", "timer", "register",
               "event_loop">>
Members == {"client", "rx_buffer", "message_semaphore", "ws_client", "timer",
            "event_loop"}

(* What each step of a call and of a task reads or writes. *)
CallUses ==
  [none |-> {}, start_ws |-> {"client", "ws_client"},
   start_timer |-> {"client", "timer"}, start_task |-> {"client"},
   stop |-> {"client", "ws_client"}, delete_timer |-> {"client"},
   delete_json |-> {"client"}, destroy_ws |-> {"client"}, free |-> {"client"}]
WsUses ==
  [none |-> {}, idle |-> {"ws_client"}, timer |-> {"client", "timer"},
   buffer |-> {"client", "rx_buffer"}, auth |-> {"client"},
   send |-> {"client", "json", "ws_client"},
   result |-> {"client", "result_queue"}, event |-> {"client"},
   enqueue |-> {"client", "event_queue"}, clear |-> {"client", "rx_buffer"}]
SourceUses ==
  [none |-> {}, read |-> {"client"}, receive |-> {"event_queue"},
   post |-> {"client", "event_loop"}, take |-> {"client", "message_semaphore"},
   deleted |-> {}]

Init ==
  /\ queues = {} /\ config = {}
  /\ held = {}
  /\ handle = "none"
  /\ call = "none" /\ err = "ESP_OK"
  /\ ws = "none"
  /\ source = [i \in Sources |-> "none"]
  /\ queued = 0
  /\ started = FALSE /\ failed = {} /\ found = "none"

Return(e) == call' = "none" /\ err' = e

-----------------------------------------------------------------------------
(* The application's calls.  It has one client at a time in mind.          *)

(* The queues are its own: it creates them first, deletes them last. *)
CreateQueues(q) ==
  /\ call = "none" /\ handle = "none" /\ queues = {}
  /\ queues' = q
  /\ UNCHANGED <<config, held, handle, call, err, ws, source, queued, history>>

DeleteQueues ==
  /\ call = "none" /\ handle # "valid" /\ queues # {}
  /\ queues' = {}
  /\ UNCHANGED <<config, held, handle, call, err, ws, source, queued, history>>

(* What a call of esp_hass_init() holds when its n-th step fails. *)
AllocatedBefore(n) == {InitSteps[i] : i \in 1..(n - 1)} \intersect Members

(* Mutant of CallInit: the steps go on after xTimerCreate() failed. *)
CallInitNoTimer ==
  /\ call = "none" /\ handle = "none"
  /\ config' = queues
  /\ handle' = "valid"
  /\ held' = Members \ {"timer"}
  /\ Return("ESP_OK")
  /\ UNCHANGED <<queues, ws, source, queued, history>>

(* Mutant of CallInit: it returns without esp_hass_destroy(). *)
CallInitReturns ==
  /\ call = "none" /\ handle = "none"
  /\ config' = queues
  /\ handle' = "NULL"
  /\ \E n \in DOMAIN InitSteps : held' = AllocatedBefore(n)
  /\ Return("ESP_FAIL")
  /\ UNCHANGED <<queues, ws, source, queued, history>>

(* Nothing else runs during esp_hass_init(), so it is one step, but for the *)
(* esp_hass_destroy() at its end when step n failed.                        *)
CallInit ==
  /\ call = "none" /\ handle = "none"
  /\ config' = queues
  /\ \/ /\ "result_queue" \in queues
        /\ handle' = "valid"
        /\ held' = Members
        /\ Return("ESP_OK")
     \/ \E n \in DOMAIN InitSteps :
          /\ "result_queue" \notin queues => n <= 4
          /\ handle' = "NULL"
          /\ held' = AllocatedBefore(n)
          /\ IF "client" \in held'
               THEN call' = "delete_timer" /\ UNCHANGED err
               ELSE Return("ESP_FAIL")
  /\ UNCHANGED <<queues, ws, source, queued, history>>

CallStart ==
  /\ call = "none" /\ handle = "valid"
  /\ \E i \in Sources : source[i] = "none"
  /\ call' = "start_ws"
  /\ started' = TRUE
  /\ UNCHANGED <<queues, config, held, handle, err, ws, source, queued, failed,
                 found>>

(* esp_websocket_client_start() fails for a client that is running, too. *)
StartWs ==
  /\ call = "start_ws"
  /\ \/ /\ ws = "none" /\ ws' = "idle"
        /\ call' = "start_timer"
        /\ UNCHANGED <<err, started>>
     \/ /\ Return("ESP_FAIL")
        /\ started' = (ws # "none")
        /\ UNCHANGED ws
  /\ UNCHANGED <<queues, config, held, handle, source, queued, failed, found>>

StartTimer ==
  /\ call = "start_timer"
  /\ \/ call' = "start_task" /\ UNCHANGED <<err, failed>>
     \/ Return("ESP_FAIL") /\ failed' = failed \union {"timer"}
  /\ UNCHANGED <<queues, config, held, handle, ws, source, queued, started,
                 found>>

(* Mutant of StartTask: no task. *)
StartTaskForgets ==
  /\ call = "start_task"
  /\ Return("ESP_OK")
  /\ UNCHANGED <<queues, config, held, handle, ws, source, queued, history>>

(* When xTaskCreate() fails, err is still ESP_OK. *)
StartTask ==
  /\ call = "start_task"
  /\ Return("ESP_OK")
  /\ \/ /\ \E i \in Sources :
             source[i] = "none" /\ source' = [source EXCEPT ![i] = "read"]
        /\ UNCHANGED failed
     \/ failed' = failed \union {"task"} /\ UNCHANGED source
  /\ UNCHANGED <<queues, config, held, handle, ws, queued, started, found>>

CallStop ==
  /\ call = "none" /\ handle = "valid"
  /\ call' = "stop"
  /\ UNCHANGED <<queues, config, held, handle, err, ws, source, queued, history>>

(* Mutants of StopWs: it waits for a task that is not there; it does not   *)
(* wait for the task to end.                                               *)
StopWsWaits ==
  /\ call = "stop"
  /\ ws = "idle" /\ ws' = "none" /\ Return("ESP_OK")
  /\ started' = FALSE
  /\ UNCHANGED <<queues, config, held, handle, source, queued, failed, found>>

StopWsAtOnce ==
  /\ call = "stop"
  /\ Return("ESP_OK")
  /\ started' = FALSE
  /\ UNCHANGED <<queues, config, held, handle, ws, source, queued, failed, found>>

(* esp_websocket_client_stop() waits for the websocket task to leave its   *)
(* loop, and fails when there is none.  Nothing stops the others.          *)
StopWs ==
  /\ call = "stop"
  /\ \/ ws = "idle" /\ ws' = "none" /\ Return("ESP_OK")
     \/ ws = "none" /\ ws' = "none" /\ Return("ESP_FAIL")
  /\ started' = FALSE
  /\ UNCHANGED <<queues, config, held, handle, source, queued, failed, found>>

(* No event source task has anything to do. *)
Quiet ==
  queued = 0 /\ \A i \in Sources : source[i] \in {"none", "receive", "deleted"}

CallDestroy ==
  /\ call = "none" /\ handle = "valid"
  /\ handle' = "NULL"
  /\ call' = "delete_timer"
  /\ found' = IF started THEN "running" ELSE IF Quiet THEN "quiet" ELSE "stopped"
  /\ UNCHANGED <<queues, config, held, err, ws, source, queued, started, failed>>

DeleteTimer ==
  /\ call = "delete_timer" /\ call' = "delete_json"
  /\ held' = held \ {"timer"}
  /\ UNCHANGED <<queues, config, handle, err, ws, source, queued, history>>

DeleteJson ==
  /\ call = "delete_json" /\ call' = "destroy_ws"
  /\ held' = held \ {"json"}
  /\ UNCHANGED <<queues, config, handle, err, ws, source, queued, history>>

(* esp_websocket_client_destroy() stops a client that is running. *)
DestroyWs ==
  /\ call = "destroy_ws" /\ call' = "free"
  /\ ws \in {"none", "idle"}
  /\ ws' = "none"
  /\ held' = held \ {"ws_client"}
  /\ UNCHANGED <<queues, config, handle, err, source, queued, history>>

(* Mutant of Free: it deletes the event loop, too. *)
FreeLoop ==
  /\ call = "free" /\ Return("ESP_OK")
  /\ held' = held \ {"rx_buffer", "client", "event_loop"}
  /\ UNCHANGED <<queues, config, handle, ws, source, queued, history>>

Free ==
  /\ call = "free" /\ Return("ESP_OK")
  /\ held' = held \ {"rx_buffer", "client"}
  /\ UNCHANGED <<queues, config, handle, ws, source, queued, history>>

CallStep ==
  \/ StartWs \/ StartTimer \/ StartTask
  \/ StopWs
  \/ DeleteTimer \/ DeleteJson \/ DestroyWs \/ Free

-----------------------------------------------------------------------------
(* The websocket task.                                                     *)

(* websocket_event_handler(), message_handler() and                        *)
(* esp_hass_client_auth(), each line a branch: PONG and empty payloads;    *)
(* what waits for fragments, is lost or does not parse; auth_ok; messages  *)
(* of each kind; no memory for the auth message.                           *)
WsEdges ==
  {<<"idle", "timer">>, <<"timer", "idle">>,
   <<"timer", "buffer">>, <<"buffer", "idle">>,
   <<"buffer", "clear">>,
   <<"buffer", "auth">>, <<"buffer", "result">>, <<"buffer", "event">>,
   <<"auth", "clear">>, <<"auth", "send">>, <<"send", "clear">>,
   <<"result", "clear">>, <<"event", "clear">>, <<"event", "enqueue">>,
   <<"enqueue", "clear">>,
   <<"clear", "idle">>}

(* Mutant of Enqueue: xQueueSend() finds room in a full queue. *)
EnqueueUnbounded == queued' \in {queued, queued + 1}

(* The queue is full for a second, or takes the message. *)
Enqueue ==
  \/ queued = QueueLen /\ UNCHANGED queued
  \/ queued < QueueLen /\ queued' = queued + 1

WebsocketGoes(from, to) ==
  /\ ws = from /\ ws' = to
  /\ from = "idle" => call \notin {"stop", "destroy_ws"}
  /\ from = "event" => (to = "enqueue" <=> "event_queue" \in config)
  /\ held' = IF to = "send" THEN held \union {"json"}
             ELSE IF from \in {"auth", "send"} THEN held \ {"json"} ELSE held
  /\ IF from = "enqueue" THEN Enqueue ELSE UNCHANGED queued
  /\ UNCHANGED <<app, source, history>>

WebsocketEvent == WebsocketGoes("idle", "timer")

WebsocketStep ==
  \E e \in WsEdges : e[1] # "idle" /\ WebsocketGoes(e[1], e[2])

-----------------------------------------------------------------------------
(* An event source task: "read" reads client->event_queue.  Once it is     *)
(* blocked in xQueueReceive() it needs only the queue.                     *)
SourceEdges ==
  {<<"read", "deleted">>, <<"read", "receive">>, <<"receive", "post">>,
   <<"post", "take">>, <<"take", "read">>}

SourceGoes(i, from, to) ==
  /\ source[i] = from /\ source' = [source EXCEPT ![i] = to]
  /\ from = "read" => (to = "receive" <=> "event_queue" \in config)
  /\ IF from = "receive"
       THEN queued > 0 /\ queued' = queued - 1 ELSE UNCHANGED queued
  /\ UNCHANGED <<app, held, ws, history>>

SourceStep(i) == \E e \in SourceEdges : SourceGoes(i, e[1], e[2])

-----------------------------------------------------------------------------
Call ==
  \/ \E q \in SUBSET Queues : q # {} /\ CreateQueues(q)
  \/ CallInit \/ CallStart \/ CallStop \/ CallDestroy
  \/ DeleteQueues

Next ==
  \/ Call \/ CallStep
  \/ WebsocketEvent \/ WebsocketStep
  \/ \E i \in Sources : SourceStep(i)

Spec == Init /\ [][Next]_vars

(* The tasks are scheduled, and the calls of ESP-IDF return.  Nothing      *)
(* obliges the application to call, or the server to send.                 *)
Fairness ==
  /\ WF_vars(CallStep)
  /\ WF_vars(WebsocketStep)
  /\ \A i \in Sources : WF_vars(SourceStep(i))

FairSpec == Spec /\ Fairness

-----------------------------------------------------------------------------
(* Every variable stays in its type, and the event queue within its        *)
(* length.                                                                 *)
TypeOK ==
  /\ queues \subseteq Queues /\ config \subseteq Queues
  /\ held \subseteq Members \union {"json"}
  /\ handle \in {"none", "valid", "NULL"}
  /\ call \in DOMAIN CallUses
  /\ err \in {"ESP_OK", "ESP_FAIL"}
  /\ ws \in DOMAIN WsUses
  /\ source \in [Sources -> DOMAIN SourceUses]
  /\ queued \in 0..QueueLen
  /\ started \in BOOLEAN
  /\ failed \subseteq {"timer", "task"}
  /\ found \in {"none", "quiet", "stopped", "running"}

Exists == held \union queues

(* Unless the application destroys a client it started and did not stop,   *)
(* neither its calls nor the websocket task ever touch a member that was   *)
(* not allocated, or was released: esp_hass_destroy() deletes the timer    *)
(* and client->json before it stops the websocket task.                    *)
StoppedIsSafe ==
  found # "running" => CallUses[call] \union WsUses[ws] \subseteq Exists

(* Nothing ends an event source task, so it outlives the client.  What     *)
(* saves it from most of what was released is that esp_hass_destroy()      *)
(* leaves the event loop and the semaphore alone: only the struct itself   *)
(* dangles, and the event queue once the application deleted it; and not   *)
(* even the struct if nothing was queued or handled when the client was    *)
(* destroyed.                                                              *)
OnlyTheStructDangles ==
  \A i \in Sources :
    LET dangling == SourceUses[source[i]] \ Exists
    IN  /\ dangling \subseteq {"client", "event_queue"}
        /\ found = "quiet" => "client" \notin dangling
        /\ found = "none" => dangling = {}

(* What is left when the application has no client any more: the semaphore *)
(* of one whose initialisation failed; the semaphore and the event loop of *)
(* one that was destroyed, running or not; nothing else, and no websocket  *)
(* task.                                                                   *)
LeftBehind ==
  call = "none" /\ handle = "NULL" =>
    /\ held \subseteq {"message_semaphore", "event_loop"}
    /\ found = "none" => "event_loop" \notin held
    /\ ws = "none"

(* A full event queue gets room again, unless a part of                    *)
(* esp_hass_client_start() failed: when it is the event source task that   *)
(* is missing, the application was told ESP_OK.                            *)
EventsAreTaken == queued = QueueLen ~> queued < QueueLen \/ failed # {}

(* Every call returns, whatever the websocket task is doing: it waits for  *)
(* that task, which never waits for the application.                       *)
EveryCallReturns == call # "none" ~> call = "none"

=============================================================================
