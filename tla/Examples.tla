------------------------------- MODULE Examples -------------------------------
(***************************************************************************)
(* The two example programs, as users of a client (Lifecycle) on a station *)
(* (WifiStation): app_main() of each with its labels fail, start_fail and  *)
(* init_fail, and the button task, whose callback calls a service.         *)
(*                                                                         *)
(* What their commands do is in Commands, and what their handlers do with  *)
(* messages in EventPipeline: here each call succeeds or fails.            *)
(***************************************************************************)
EXTENDS Naturals, Sequences

CONSTANTS MaxStarts, QueueLen, MaxRetry

ASSUME BoundAssumption ==
  MaxStarts \in Nat \ {0} /\ QueueLen \in Nat \ {0} /\ MaxRetry \in Nat

VARIABLES
  queues, config, held, handle, call, err, ws, source, queued,
  started, failed, found,                                \* of Lifecycle
  wifi_init, s_retry_num, bits, driver, posted, streak,  \* of WifiStation
  example,     \* which of the two programs runs
  at,          \* where app_main() is
  inside,      \* in one of the calls that Lifecycle models
  why,         \* where it went to one of its failure labels
  connected,   \* esp_hass_client_is_connected()
  stop_timer,  \* the timer that is to set is_time_to_stop
  button       \* where the button task is

client == <<queues, config, held, handle, call, err, ws, source, queued,
            started, failed, found>>
wifi == <<wifi_init, s_retry_num, bits, driver, posted, streak>>
main == <<example, at, inside, why, stop_timer>>
vars == <<client, wifi, main, connected, button>>

Client == INSTANCE Lifecycle
Wifi == INSTANCE WifiStation

Script ==
  [button |-> <<"create", "wifi", "init", "start", "button", "connect",
     "authenticate", "subscribe", "register", "timer", "loop",
     "stop", "destroy", "delete", "end">>,
   hello_world |-> <<"create", "wifi", "init", "start", "connect",
     "authenticate", "register", "subscribe", "call_1", "call_2", "loop",
     "stop", "destroy", "delete", "end">>]
Steps == {Script[e][i] : e \in DOMAIN Script, i \in 1..15}

(* Mutant of OnFailure: start's goto is one label too late. *)
OnFailureLate ==
  [create |-> "delete", init |-> "delete", start |-> "delete",
   button |-> "delete", subscribe |-> "stop", register |-> "stop",
   timer |-> "stop", call_1 |-> "stop", call_2 |-> "stop"]

(* The goto of each step that may fail: to fail, start_fail or init_fail. *)
OnFailure ==
  [create |-> "delete", init |-> "delete", start |-> "destroy",
   button |-> "delete", subscribe |-> "stop", register |-> "stop",
   timer |-> "stop", call_1 |-> "stop", call_2 |-> "stop"]

(* The client's calls that take more than one step. *)
Calls == {"init", "start", "stop", "destroy"}

(* What app_main() and the callback of the button touch of the client. *)
CommandUses == {"client", "ws_client", "result_queue"}
MainUses ==
  IF at \in {"subscribe", "call_1", "call_2"} THEN CommandUses
  ELSE IF at = "register" THEN {"client", "event_loop"}
  ELSE IF at \in {"connect", "authenticate"} THEN {"client", "ws_client"}
  ELSE {}
ButtonUses == IF button = "calling" THEN CommandUses ELSE {}

Init ==
  /\ Client!Init
  /\ Wifi!Init
  /\ example \in DOMAIN Script
  /\ at = "create"
  /\ inside = FALSE
  /\ why = "none"
  /\ connected = FALSE
  /\ stop_timer = "none"
  /\ button = "none"

-----------------------------------------------------------------------------
(* app_main()                                                              *)

GoOn ==
  /\ \E i \in 1..14 :
       Script[example][i] = at /\ at' = Script[example][i + 1]
  /\ UNCHANGED why
Fail == at' = OnFailure[at] /\ why' = at

CreateQueues ==
  /\ at = "create"
  /\ \/ queues' = Client!Queues /\ GoOn
     \/ queues' \in {{}, {"event_queue"}} /\ Fail
  /\ UNCHANGED <<config, held, handle, call, err, ws, source, queued, started,
                 failed, found, wifi, example, inside, connected, stop_timer,
                 button>>

WifiInit ==
  /\ at = "wifi"
  /\ \/ Wifi!Start /\ UNCHANGED <<at, why>>
     \/ Wifi!Return /\ GoOn
  /\ UNCHANGED <<client, example, inside, connected, stop_timer, button>>

Enter ==
  /\ at \in Calls /\ ~inside
  /\ \/ at = "init" /\ Client!CallInit
     \/ at = "start" /\ Client!CallStart
     \/ at = "stop" /\ Client!CallStop
     \/ at = "destroy" /\ Client!CallDestroy
  /\ inside' = TRUE
  /\ UNCHANGED <<wifi, example, at, why, connected, stop_timer, button>>

(* The results of stop and destroy are logged. *)
Leave ==
  /\ inside /\ call = "none"
  /\ inside' = FALSE
  /\ IF \/ at = "init" /\ handle # "valid"
        \/ at = "start" /\ err # "ESP_OK"
       THEN Fail ELSE GoOn
  /\ UNCHANGED <<client, wifi, example, connected, stop_timer, button>>

TaskButtonStart ==
  /\ at = "button"
  /\ \/ button' = "created" /\ GoOn
     \/ Fail /\ UNCHANGED button
  /\ UNCHANGED <<client, wifi, example, inside, connected, stop_timer>>

(* The loops around esp_hass_client_is_connected() and                     *)
(* esp_hass_client_is_authenticated(); the latter is in AuthSession.       *)
WaitConnected ==
  /\ at = "connect" /\ connected /\ GoOn
  /\ UNCHANGED <<client, wifi, example, inside, connected, stop_timer, button>>

WaitAuthenticated ==
  /\ at = "authenticate" /\ GoOn
  /\ UNCHANGED <<client, wifi, example, inside, connected, stop_timer, button>>

Command ==
  /\ at \in {"subscribe", "register", "call_1", "call_2"}
  /\ GoOn \/ Fail
  /\ UNCHANGED <<client, wifi, example, inside, connected, stop_timer, button>>

CreateTimer ==
  /\ at = "timer"
  /\ \/ GoOn /\ stop_timer' = "created"
     \/ Fail /\ UNCHANGED stop_timer
  /\ UNCHANGED <<client, wifi, example, inside, connected, button>>

(* hello_world counts 600 seconds, button waits for its timer to expire. *)
LoopEnds ==
  /\ at = "loop"
  /\ example = "hello_world" \/ stop_timer = "started"
  /\ GoOn
  /\ UNCHANGED <<client, wifi, example, inside, connected, stop_timer, button>>

(* Mutant of DeleteQueues: app_main() ends without. *)
DeleteQueuesForgets ==
  /\ at = "delete" /\ GoOn
  /\ UNCHANGED <<client, wifi, example, inside, connected, stop_timer, button>>

DeleteQueues ==
  /\ at = "delete" /\ GoOn
  /\ queues' = {}
  /\ UNCHANGED <<config, held, handle, call, err, ws, source, queued, started,
                 failed, found, wifi, example, inside, connected, stop_timer,
                 button>>

Main ==
  \/ CreateQueues \/ WifiInit \/ Enter \/ Leave \/ TaskButtonStart
  \/ WaitConnected \/ WaitAuthenticated \/ Command \/ CreateTimer \/ LoopEnds
  \/ DeleteQueues

-----------------------------------------------------------------------------
(* task_button() creates the button or deletes itself.                     *)
ButtonCreate ==
  /\ button = "created" /\ button' \in {"ready", "deleted"}
  /\ UNCHANGED <<client, wifi, main, connected>>

(* Nothing unregisters button_single_click_cb(). *)
ButtonClick ==
  /\ button = "ready" /\ button' = "calling"
  /\ UNCHANGED <<client, wifi, main, connected>>

ButtonReturn ==
  /\ button = "calling" /\ button' = "ready"
  /\ UNCHANGED <<client, wifi, main, connected>>

-----------------------------------------------------------------------------
(* The tasks of the client, and of the station.                            *)

(* The websocket client connects by itself on a station that is up, and    *)
(* notices some time later that it is not any more.                        *)
Connect ==
  /\ ws = "idle" /\ driver = "up" /\ ~connected
  /\ connected' = TRUE
  /\ UNCHANGED <<client, wifi, main, button>>

Disconnect ==
  /\ ws \in {"none", "idle"} /\ connected
  /\ connected' = FALSE
  /\ UNCHANGED <<client, wifi, main, button>>

ClientStep ==
  /\ \/ Client!CallStep
     \/ connected /\ Client!WebsocketEvent
     \/ Client!WebsocketStep
     \/ \E i \in Client!Sources : Client!SourceStep(i)
  /\ UNCHANGED <<wifi, main, connected, button>>

StationStep ==
  /\ Wifi!Handler \/ Wifi!DriverStep
  /\ UNCHANGED <<client, main, connected, button>>

Next ==
  \/ Main
  \/ ButtonCreate \/ ButtonClick \/ ButtonReturn
  \/ Connect \/ Disconnect
  \/ ClientStep \/ StationStep

Spec == Init /\ [][Next]_vars

(* As in Lifecycle and WifiStation; app_main() goes on unless it waits for *)
(* the server.                                                             *)
Fairness ==
  /\ WF_vars(Enter \/ Leave \/ WifiInit \/ LoopEnds \/ DeleteQueues)
  /\ WF_vars(Client!CallStep /\ UNCHANGED <<wifi, main, connected, button>>)
  /\ WF_vars(Client!WebsocketStep /\ UNCHANGED <<wifi, main, connected, button>>)
  /\ WF_vars(Wifi!Handler /\ UNCHANGED <<client, main, connected, button>>)
  /\ WF_vars(driver = "connecting" /\ StationStep)

FairSpec == Spec /\ Fairness

-----------------------------------------------------------------------------
(* app_main() uses the client as Lifecycle lets its application, queues    *)
(* created before and deleted after it; but for the button task that       *)
(* cannot be created, when it deletes the queues of a running client.      *)
FollowsLifecycle ==
  Client!Init /\ [][Client!Next \/ why = "button"]_client

(* Of app_main(), the websocket task and the button's callback, who        *)
(* touches something that was released or deleted: never app_main(); the   *)
(* websocket task only when the button task could not be created, or the   *)
(* shutdown timer not started, which app_main() answers with               *)
(* esp_hass_destroy() alone; the callback only when app_main() failed      *)
(* after it created the button task.  (The event source task misses the    *)
(* struct and the queue even at an orderly end: OnlyTheStructDangles of    *)
(* Lifecycle.)                                                             *)
OnlyFailuresDangle ==
  LET Exists == Client!Exists
  IN  /\ MainUses \union Client!CallUses[call] \subseteq Exists
      /\ \/ Client!WsUses[ws] \subseteq Exists
         \/ why = "button"
         \/ why = "start" /\ "timer" \in failed
      /\ \/ ButtonUses \subseteq Exists
         \/ why \in {"subscribe", "register", "timer"}

(* When app_main() came to its end, whichever way, its queues are deleted, *)
(* and of the client nothing is left but what Lifecycle leaves behind;     *)
(* unless the button task was missing, when all of the client is.          *)
EndsClean ==
  at = "end" =>
    /\ queues = {}
    /\ IF why = "button" THEN held \ {"json"} = Client!Members
       ELSE Client!LeftBehind /\ handle # "valid"

(* What README.md, Kconfig.projbuild and the log of the button example     *)
(* promise: once in its loop, it stops its client and comes to its end.    *)
(* The timer that is to end the loop is created and never started.         *)
ButtonEnds == at = "loop" /\ example = "button" ~> at = "end"

(* The button example stays in its loop with its client. *)
ButtonStays ==
  [][example = "button" /\ at = "loop" => UNCHANGED <<at, handle>>]_vars

(* WifiStation: it gives up after MaxRetry retries, for good, and is never *)
(* idle otherwise; so an app_main() that waits for the connection then     *)
(* waits for ever, although wifi_init() returned ESP_OK.                   *)
GivesUpForGood == Wifi!GivesUpForGood

(* WifiStation: app_main() gets past wifi_init(), which waits for its bits *)
(* without a timeout, unless the station is associated for ever without an *)
(* address or esp_wifi_connect() refused, which the handler ignores.       *)
OnlyTheStationStrands ==
  at = "wifi" ~> at # "wifi" \/ [](driver \in {"associated", "refused"})

=============================================================================
