---------------------------- MODULE ExamplesProofs ----------------------------
(***************************************************************************)
(* The example programs use the client as Lifecycle lets an application    *)
(* use it, and the station as WifiStation says, for any number of starts,  *)
(* queue slots and retries; what they find gone, and what they leave.      *)
(***************************************************************************)
EXTENDS Examples, TLAPS

(* What app_main() knows of the client at each of its places. *)
Orderly ==
  /\ example \in DOMAIN Script
  /\ inside => at \in Calls
  /\ ~inside => call = "none"
  /\ at = "create" => queues = {}
  /\ at \in {"create", "wifi"} => handle = "none"
  /\ at = "destroy" /\ inside => handle # "valid"
  /\ at = "delete" => handle # "valid" \/ why = "button"

(* Where app_main() goes when nothing fails, in either program. *)
LEMMA Onwards ==
  ASSUME example \in DOMAIN Script, GoOn
  PROVE  /\ why' = why
         /\ at \in {"create", "wifi", "init", "start", "button", "connect",
                   "authenticate", "subscribe", "register", "timer",
                   "call_1", "call_2", "loop", "stop", "destroy", "delete"}
         /\ at = "create" => at' = "wifi"
         /\ at = "wifi" => at' = "init"
         /\ at = "init" => at' = "start"
         /\ at = "start" => at' = IF example = "button" THEN "button" ELSE "connect"
         /\ at = "button" => at' = "connect"
         /\ at = "connect" => at' = "authenticate"
         /\ at = "authenticate" => at' \in {"subscribe", "register"}
         /\ at = "subscribe" =>
              at' = IF example = "button" THEN "register" ELSE "call_1"
         /\ at = "register" =>
              at' = IF example = "button" THEN "timer" ELSE "subscribe"
         /\ at = "timer" => at' = "loop"
         /\ at = "call_1" => at' = "call_2"
         /\ at = "call_2" => at' = "loop"
         /\ at = "loop" => at' = "stop"
         /\ at = "stop" => at' = "destroy"
         /\ at = "destroy" => at' = "delete"
         /\ at = "delete" => at' = "end"
<1>1. PICK i \in 1..14 :
        Script[example][i] = at /\ at' = Script[example][i + 1]
  BY DEF GoOn
<1>2. i \in {1, 2, 3, 4, 5, 6, 7, 8, 9, 10, 11, 12, 13, 14}
  BY <1>1
<1>3. CASE example = "button"
  BY <1>1, <1>2, <1>3 DEF Script, GoOn
<1>4. CASE example = "hello_world"
  BY <1>1, <1>2, <1>4 DEF Script, GoOn
<1> QED
  BY <1>3, <1>4 DEF Script

LEMMA InitOrderly == Init => Orderly
  BY DEF Init, Orderly, Client!Init

(* A step of a call is a step of the application's, and gives it nothing   *)
(* new to hold.                                                            *)
LEMMA CallGoes ==
  Client!CallStep => call # "none" /\ UNCHANGED <<queues, handle>>
  BY DEF Client!CallStep, Client!StartWs, Client!StartTimer, Client!StartTask,
         Client!StopWs, Client!DeleteTimer, Client!DeleteJson,
         Client!DestroyWs, Client!Free

LEMMA TasksGo ==
  ASSUME \/ Client!WebsocketEvent \/ Client!WebsocketStep
         \/ \E i \in Client!Sources : Client!SourceStep(i)
  PROVE  UNCHANGED <<queues, handle, call>>
  BY DEF Client!WebsocketEvent, Client!WebsocketStep, Client!WebsocketGoes,
         Client!SourceStep, Client!SourceGoes, Client!app

LEMMA NextOrderly == Orderly /\ [Next]_vars => Orderly'
<1> SUFFICES ASSUME Orderly, [Next]_vars PROVE Orderly'
  OBVIOUS
<1> USE DEF Orderly, client, main
<1>1. CASE CreateQueues
  <2>1. CASE GoOn
    BY <1>1, <2>1, Onwards DEF CreateQueues, Calls
  <2>2. CASE Fail
    BY <1>1, <2>2 DEF CreateQueues, Fail, OnFailure, Calls
  <2> QED
    BY <1>1, <2>1, <2>2 DEF CreateQueues
<1>2. CASE WifiInit
  <2>1. at = "wifi" /\ UNCHANGED <<client, example, inside>>
    BY <1>2 DEF WifiInit
  <2>2. CASE UNCHANGED <<at, why>>
    BY <2>1, <2>2
  <2>3. CASE GoOn
    BY <2>1, <2>3, Onwards DEF Calls
  <2> QED
    BY <1>2, <2>2, <2>3 DEF WifiInit
<1>3. CASE Enter
  <2>1. /\ at \in Calls /\ inside' = TRUE
        /\ UNCHANGED <<example, at, why>>
    BY <1>3 DEF Enter
  <2>2. at = "destroy" => handle' # "valid"
    BY <1>3 DEF Enter, Client!CallDestroy
  <2> QED
    BY <2>1, <2>2 DEF Calls
<1>4. CASE Leave
  <2>1. /\ inside /\ call = "none" /\ inside' = FALSE
        /\ UNCHANGED <<client, example>>
    BY <1>4 DEF Leave
  <2>2. CASE GoOn
    BY <2>1, <2>2, Onwards DEF Calls
  <2>3. CASE Fail /\ ((at = "init" /\ handle # "valid") \/ at = "start")
    BY <2>1, <2>3 DEF Fail, OnFailure
  <2> QED
    BY <1>4, <2>2, <2>3 DEF Leave
<1>5. CASE TaskButtonStart \/ Command \/ CreateTimer
  <2>1. /\ at \in {"button", "subscribe", "register", "call_1", "call_2", "timer"}
        /\ UNCHANGED <<client, example, inside>>
        /\ GoOn \/ Fail
    BY <1>5 DEF TaskButtonStart, Command, CreateTimer
  <2>2. CASE GoOn
    BY <2>1, <2>2, Onwards DEF Calls
  <2>3. CASE Fail
    BY <2>1, <2>3 DEF Fail, OnFailure, Calls
  <2> QED
    BY <2>1, <2>2, <2>3
<1>6. CASE WaitConnected \/ WaitAuthenticated \/ LoopEnds \/ DeleteQueues
  <2>1. /\ at \in {"connect", "authenticate", "loop", "delete"}
        /\ UNCHANGED <<handle, call, example, inside>> /\ GoOn
    BY <1>6 DEF WaitConnected, WaitAuthenticated, LoopEnds, DeleteQueues
  <2> QED
    BY <2>1, Onwards DEF Calls
<1>7. CASE \/ ButtonCreate \/ ButtonClick \/ ButtonReturn
           \/ Connect \/ Disconnect \/ StationStep \/ UNCHANGED vars
  BY <1>7 DEF ButtonCreate, ButtonClick, ButtonReturn, Connect, Disconnect,
              StationStep, vars
<1>8. CASE ClientStep
  <2>1. UNCHANGED main
    BY <1>8 DEF ClientStep
  <2>2. UNCHANGED <<queues, handle>> /\ (call = "none" => call' = "none")
    BY <1>8, CallGoes, TasksGo DEF ClientStep
  <2> QED
    BY <2>1, <2>2
<1> QED
  BY <1>1, <1>2, <1>3, <1>4, <1>5, <1>6, <1>7, <1>8 DEF Next, Main

LEMMA NextFollows ==
  Orderly /\ [Next]_vars => [Client!Next \/ why = "button"]_client
<1> SUFFICES ASSUME Orderly, [Next]_vars, why # "button"
             PROVE  Client!Next \/ UNCHANGED client
  OBVIOUS
<1>1. CASE CreateQueues
  <2>1. /\ queues = {} /\ handle = "none" /\ call = "none"
        /\ queues' \in SUBSET Client!Queues
        /\ UNCHANGED <<config, held, handle, call, err, ws, source, queued,
                       started, failed, found>>
    BY <1>1 DEF CreateQueues, Orderly, Calls, Client!Queues
  <2>2. CASE queues' = {}
    BY <2>1, <2>2 DEF client
  <2>3. CASE queues' # {}
    <3>1. Client!CreateQueues(queues')
      BY <2>1 DEF Client!CreateQueues, Client!history
    <3> QED
      BY <2>1, <2>3, <3>1 DEF Client!Next, Client!Call
  <2> QED
    BY <2>2, <2>3
<1>2. CASE Enter
  BY <1>2 DEF Enter, Client!Next, Client!Call
<1>3. CASE DeleteQueues
  <2>1. /\ handle # "valid" /\ call = "none" /\ queues' = {}
        /\ UNCHANGED <<config, held, handle, call, err, ws, source, queued,
                       started, failed, found>>
    BY <1>3 DEF DeleteQueues, Orderly, Calls
  <2>2. CASE queues = {}
    BY <2>1, <2>2 DEF client
  <2>3. CASE queues # {}
    <3>1. Client!DeleteQueues
      BY <2>1, <2>3 DEF Client!DeleteQueues, Client!history
    <3> QED
      BY <3>1 DEF Client!Next, Client!Call
  <2> QED
    BY <2>2, <2>3
<1>4. CASE ClientStep
  BY <1>4 DEF ClientStep, Client!Next
<1>5. CASE \/ WifiInit \/ Leave \/ TaskButtonStart \/ WaitConnected
           \/ WaitAuthenticated \/ Command \/ CreateTimer \/ LoopEnds
           \/ ButtonCreate \/ ButtonClick \/ ButtonReturn
           \/ Connect \/ Disconnect \/ StationStep \/ UNCHANGED vars
  BY <1>5 DEF WifiInit, Leave, TaskButtonStart, WaitConnected,
              WaitAuthenticated, Command, CreateTimer, LoopEnds,
              ButtonCreate, ButtonClick, ButtonReturn, Connect, Disconnect,
              StationStep, vars
<1> QED
  BY <1>1, <1>2, <1>3, <1>4, <1>5 DEF Next, Main

(* Whichever step of either program fails, its calls come in an order that *)
(* Lifecycle allows, with the queues created before and deleted after the  *)
(* client; but for the label the button example goes to when its task      *)
(* cannot be created.                                                      *)
THEOREM ExamplesFollow == Spec => FollowsLifecycle
<1>1. Init => Client!Init
  BY DEF Init
<1> QED
  BY <1>1, InitOrderly, NextOrderly, NextFollows, PTL DEF Spec, FollowsLifecycle

-----------------------------------------------------------------------------
(* The station's part.  Each step of a program is one of the station's, or *)
(* leaves the station as it is.                                            *)
Station == INSTANCE WifiStationProofs

LEMMA StationSteps == [Next]_vars => [Station!Next]_(Station!vars)
<1> SUFFICES ASSUME Next PROVE Station!Next \/ UNCHANGED Station!vars
  BY DEF vars, wifi, Station!vars
<1>1. CASE WifiInit
  BY <1>1 DEF WifiInit, Wifi!Start, Wifi!Return,
              Station!Next, Station!Start, Station!Return
<1>2. CASE StationStep
  BY <1>2
     DEF StationStep, Wifi!Handler, Wifi!StaStart, Wifi!StaDisconnected,
         Wifi!GotIp, Wifi!Handle, Wifi!esp_wifi_connect, Wifi!DriverStep,
         Wifi!DriverAssociates, Wifi!DriverUp, Wifi!DriverDown,
         Station!Next, Station!Handler, Station!StaStart,
         Station!StaDisconnected, Station!GotIp, Station!Handle,
         Station!esp_wifi_connect, Station!DriverStep,
         Station!DriverAssociates, Station!DriverUp, Station!DriverDown
<1>3. CASE Next /\ ~WifiInit /\ ~StationStep
  BY <1>3
     DEF Next, Main, CreateQueues, Enter, Leave, TaskButtonStart,
         WaitConnected, WaitAuthenticated, Command, CreateTimer, LoopEnds,
         DeleteQueues, ButtonCreate, ButtonClick, ButtonReturn, Connect,
         Disconnect, ClientStep, wifi, Station!vars
<1> QED
  BY <1>1, <1>2, <1>3

(* Both programs use the station as WifiStation says, whatever else they   *)
(* do meanwhile.                                                           *)
THEOREM ExamplesUseStation == Spec => Wifi!Spec
<1>1. Init => Wifi!Init
  BY DEF Init
<1>2. Station!Next => Wifi!Next
  BY DEF Station!Next, Station!Start, Station!Return, Station!Handler,
         Station!StaStart, Station!StaDisconnected, Station!GotIp,
         Station!Handle, Station!esp_wifi_connect, Station!DriverStep,
         Station!DriverAssociates, Station!DriverUp, Station!DriverDown,
         Wifi!Next, Wifi!Start, Wifi!Return, Wifi!Handler,
         Wifi!StaStart, Wifi!StaDisconnected, Wifi!GotIp, Wifi!Handle,
         Wifi!esp_wifi_connect, Wifi!DriverStep, Wifi!DriverAssociates,
         Wifi!DriverUp, Wifi!DriverDown
<1>3. [Station!Next]_(Station!vars) => [Wifi!Next]_(Wifi!vars)
  BY <1>2 DEF Station!vars, Wifi!vars
<1> QED
  BY <1>1, <1>3, StationSteps, PTL DEF Spec, Wifi!Spec

(* Whatever the rest of the program does, the station gives up after       *)
(* MaxRetry retries, says so, and is never idle otherwise, but for a       *)
(* refused esp_wifi_connect().                                             *)
THEOREM ExamplesGiveUp == Spec => []GivesUpForGood
<1>1. Init => Station!Init
  BY DEF Init, Wifi!Init, Station!Init
<1>2. Spec => Station!Spec
  BY <1>1, StationSteps, PTL DEF Spec, Station!Spec
<1>3. MaxRetry \in Nat
  BY BoundAssumption
<1>4. Station!Spec => []Station!GivesUpForGood
  BY <1>3, Station!GivesUp
<1>5. Station!GivesUpForGood => GivesUpForGood
  BY DEF Station!GivesUpForGood, Station!GaveUp, GivesUpForGood,
         Wifi!GivesUpForGood, Wifi!GaveUp
<1> QED
  BY <1>2, <1>4, <1>5, PTL

-----------------------------------------------------------------------------
(* The client's part.  What LifecycleProofs says of a client holds of this *)
(* one, until the button task cannot be created and app_main() deletes the *)
(* queues that the client goes on using.                                   *)
Life == INSTANCE LifecycleProofs

Waiting == {"connect", "authenticate", "subscribe", "register", "timer", "loop"}
Started == Waiting \union {"button", "call_1", "call_2"}

(* Where app_main() is tells where it did not come from. *)
Reasons ==
  /\ at \notin {"stop", "destroy", "delete", "end"} => why = "none"
  /\ at = "stop" => why \notin {"create", "init", "start", "button"}
  /\ at = "destroy" => why \notin {"create", "init", "button"}

(* What the application has of its client at each place, and in which call *)
(* it is there.                                                            *)
Handles ==
  /\ at = "init" /\ ~inside => handle = "none"
  /\ at = "init" /\ inside => handle # "none" /\ (handle = "valid" => call = "none")
  /\ at \in Started \union {"start", "stop"} => handle = "valid"
  /\ at = "destroy" /\ ~inside => handle = "valid"
  /\ at = "end" /\ why # "button" => handle # "valid"
  /\ at = "end" => queues = {}
  /\ at \in {"init", "destroy"} => call \in Life!DestroyCalls \union {"none"}
  /\ at = "start" => call \in {"start_ws", "start_timer", "start_task", "none"}
  /\ at = "stop" => call \in {"stop", "none"}

(* A client is destroyed stopped, unless its shutdown timer did not start: *)
(* app_main() then goes to start_fail, past its call of stop.              *)
Destroyed ==
  /\ at \in {"create", "wifi", "init"} => ~started
  /\ at = "start" /\ ~inside => ~started
  /\ at = "start" /\ call = "start_ws" => ws = "none"
  /\ at = "start" /\ inside /\ call = "none" /\ err # "ESP_OK" =>
       ~started \/ "timer" \in failed
  /\ at = "stop" /\ inside /\ call = "none" => ~started
  /\ at = "destroy" /\ ~inside /\ started => why = "start" /\ "timer" \in failed
  /\ found # "none" => at \in {"delete", "end"} \/ (at = "destroy" /\ inside)
  /\ found = "running" => why = "start" /\ "timer" \in failed

(* The button task runs only in its example, and while nothing failed      *)
(* app_main() does not come past its loop.                                 *)
ButtonTask ==
  /\ stop_timer # "started"
  /\ IF example = "button" THEN at \notin {"call_1", "call_2"} ELSE at # "button"
  /\ button # "none" =>
       /\ example = "button"
       /\ why \in {"none", "subscribe", "register", "timer"}
       /\ why = "none" => at \in Waiting

(* A running client without its queues keeps all of its members. *)
Abandoned ==
  IF why = "button"
  THEN handle = "valid" /\ call = "none" /\ held \ {"json"} = Client!Members
  ELSE Life!IInv

IInv == Orderly /\ Reasons /\ Handles /\ Destroyed /\ ButtonTask /\ Abandoned

LEMMA InitIInv == Init => IInv
<1> SUFFICES ASSUME Init PROVE IInv
  OBVIOUS
<1>1. Life!Init
  BY DEF Init, Client!Init, Life!Init, Client!Sources, Life!Sources
<1>2. Life!TypeOK
  BY <1>1, BoundAssumption, Life!InitType DEF Life!BoundAssumption
<1>3. Life!Phases /\ Life!Allocated /\ Life!Json /\ Life!TasksOf
  BY <1>1 DEF Life!Init, Life!Phases, Life!Allocated, Life!Json, Life!TasksOf,
              Life!UsingCalls, Life!DestroyCalls, Life!Sources
<1>4. Reasons /\ Handles /\ Destroyed /\ ButtonTask
  BY DEF Init, Client!Init, Reasons, Handles, Destroyed, ButtonTask, Started,
         Waiting
<1>5. Abandoned
  BY <1>2, <1>3 DEF Init, Abandoned, Life!IInv
<1> QED
  BY <1>4, <1>5, InitOrderly DEF IInv

(* Each step of this client is one of Lifecycle's. *)
LEMMA LifeSteps == [Client!Next]_client => [Life!Next]_(Life!vars)
<1> SUFFICES ASSUME Client!Next PROVE Life!Next
  BY DEF client, Life!vars, Life!app, Life!history
<1> USE DEF Client!history, Life!history, Client!app, Life!app, Client!Return,
            Life!Return, Client!Sources, Life!Sources
<1>1. CASE Client!Call
  <2>1. ASSUME NEW q \in SUBSET Client!Queues, q # {}, Client!CreateQueues(q)
        PROVE  Life!Call
    <3>1. Life!CreateQueues(q) /\ q \in SUBSET Life!Queues
      BY <2>1 DEF Client!CreateQueues, Life!CreateQueues, Client!Queues, Life!Queues
    <3> QED
      BY <2>1, <3>1 DEF Life!Call
  <2>2. Client!CallInit => Life!CallInit
    BY DEF Client!CallInit, Life!CallInit, Client!Members, Life!Members,
           Client!InitSteps, Life!InitSteps,
           Client!AllocatedBefore, Life!AllocatedBefore
  <2>3. Client!CallStart => Life!CallStart
    BY DEF Client!CallStart, Life!CallStart
  <2>4. Client!CallStop => Life!CallStop
    BY DEF Client!CallStop, Life!CallStop
  <2>5. Client!CallDestroy => Life!CallDestroy
    BY DEF Client!CallDestroy, Life!CallDestroy, Client!Quiet, Life!Quiet
  <2>6. Client!DeleteQueues => Life!DeleteQueues
    BY DEF Client!DeleteQueues, Life!DeleteQueues
  <2> QED
    BY <1>1, <2>1, <2>2, <2>3, <2>4, <2>5, <2>6
       DEF Client!Call, Life!Call, Life!Next
<1>2. CASE Client!CallStep
  <2>1. Client!StartWs => Life!StartWs
    BY DEF Client!StartWs, Life!StartWs
  <2>2. Client!StartTimer => Life!StartTimer
    BY DEF Client!StartTimer, Life!StartTimer
  <2>3. Client!StartTask => Life!StartTask
    BY DEF Client!StartTask, Life!StartTask
  <2>4. Client!StopWs => Life!StopWs
    BY DEF Client!StopWs, Life!StopWs
  <2>5. Client!DeleteTimer => Life!DeleteTimer
    BY DEF Client!DeleteTimer, Life!DeleteTimer
  <2>6. Client!DeleteJson => Life!DeleteJson
    BY DEF Client!DeleteJson, Life!DeleteJson
  <2>7. Client!DestroyWs => Life!DestroyWs
    BY DEF Client!DestroyWs, Life!DestroyWs
  <2>8. Client!Free => Life!Free
    BY DEF Client!Free, Life!Free
  <2> QED
    BY <1>2, <2>1, <2>2, <2>3, <2>4, <2>5, <2>6, <2>7, <2>8
       DEF Client!CallStep, Life!CallStep, Life!Next
<1>3. CASE Client!WebsocketEvent \/ Client!WebsocketStep
  <2>1. ASSUME NEW from, NEW to, Client!WebsocketGoes(from, to)
        PROVE  Life!WebsocketGoes(from, to)
    BY <2>1 DEF Client!WebsocketGoes, Life!WebsocketGoes, Client!Enqueue, Life!Enqueue
  <2>2. Client!WebsocketEvent => Life!WebsocketEvent
    BY <2>1 DEF Client!WebsocketEvent, Life!WebsocketEvent
  <2>3. Client!WebsocketStep => Life!WebsocketStep
    BY <2>1 DEF Client!WebsocketStep, Life!WebsocketStep, Client!WsEdges, Life!WsEdges
  <2> QED
    BY <1>3, <2>2, <2>3 DEF Life!Next
<1>4. ASSUME NEW i \in Client!Sources, Client!SourceStep(i) PROVE Life!Next
  <2>1. Life!SourceStep(i)
    BY <1>4 DEF Client!SourceStep, Life!SourceStep, Client!SourceEdges,
                Life!SourceEdges, Client!SourceGoes, Life!SourceGoes
  <2> QED
    BY <2>1 DEF Life!Next
<1> QED
  BY <1>1, <1>2, <1>3, <1>4 DEF Client!Next

LEMMA LifeGoesOn ==
  Life!IInv /\ [Client!Next]_client => Life!IInv'
  BY LifeSteps, BoundAssumption, Life!NextType, Life!NextPhases,
     Life!NextAllocated, Life!NextJson, Life!NextTasksOf
     DEF Life!BoundAssumption, Life!IInv

LEMMA NextReasons == Orderly /\ Reasons /\ Handles /\ [Next]_vars => Reasons'
<1> SUFFICES ASSUME Orderly, Reasons, Handles, [Next]_vars PROVE Reasons'
  OBVIOUS
<1> USE DEF Reasons, Orderly, main
<1>1. CASE GoOn
  BY <1>1, Onwards
<1>2. CASE Fail /\ at \in DOMAIN OnFailure
  BY <1>2 DEF Fail, OnFailure
<1>3. CASE UNCHANGED <<at, why>>
  BY <1>3
<1>4. GoOn \/ (Fail /\ at \in DOMAIN OnFailure) \/ UNCHANGED <<at, why>>
  BY DEF Next, Main, CreateQueues, WifiInit, Enter, Leave, TaskButtonStart,
         WaitConnected, WaitAuthenticated, Command, CreateTimer, LoopEnds,
         DeleteQueues, ButtonCreate, ButtonClick, ButtonReturn, Connect,
         Disconnect, ClientStep, StationStep, vars, OnFailure
<1> QED
  BY <1>1, <1>2, <1>3, <1>4

LEMMA NextHandles == Orderly /\ Reasons /\ Handles /\ [Next]_vars => Handles'
<1> SUFFICES ASSUME Orderly, Reasons, Handles, [Next]_vars PROVE Handles'
  OBVIOUS
<1> USE DEF Handles, Orderly, Reasons, client, main, Started, Waiting,
            Life!DestroyCalls
<1>1. CASE CreateQueues
  <2>1. CASE GoOn
    BY <1>1, <2>1, Onwards DEF CreateQueues, Calls
  <2>2. CASE Fail
    BY <1>1, <2>2 DEF CreateQueues, Fail, OnFailure, Calls
  <2> QED
    BY <1>1, <2>1, <2>2 DEF CreateQueues
<1>2. CASE WifiInit
  <2>1. at = "wifi" /\ UNCHANGED <<client, example, inside>>
    BY <1>2 DEF WifiInit
  <2>2. CASE UNCHANGED <<at, why>>
    BY <2>1, <2>2
  <2>3. CASE GoOn
    BY <2>1, <2>3, Onwards DEF Calls
  <2> QED
    BY <1>2, <2>2, <2>3 DEF WifiInit
<1>3. CASE Enter
  <2>1. ~inside /\ inside' = TRUE /\ UNCHANGED <<example, at, why>>
    BY <1>3 DEF Enter
  <2>2. CASE at = "init" /\ Client!CallInit
    BY <2>1, <2>2 DEF Client!CallInit, Client!Return
  <2>3. CASE at = "start" /\ Client!CallStart
    BY <2>1, <2>3 DEF Client!CallStart
  <2>4. CASE at = "stop" /\ Client!CallStop
    BY <2>1, <2>4 DEF Client!CallStop
  <2>5. CASE at = "destroy" /\ Client!CallDestroy
    BY <2>1, <2>5 DEF Client!CallDestroy
  <2> QED
    BY <1>3, <2>2, <2>3, <2>4, <2>5 DEF Enter
<1>4. CASE Leave
  <2>1. /\ inside /\ call = "none" /\ inside' = FALSE
        /\ UNCHANGED <<client, example>>
    BY <1>4 DEF Leave
  <2>2. CASE GoOn /\ ~(at = "init" /\ handle # "valid")
    BY <2>1, <2>2, Onwards DEF Calls
  <2>3. CASE Fail /\ ((at = "init" /\ handle # "valid") \/ at = "start")
    BY <2>1, <2>3 DEF Fail, OnFailure
  <2> QED
    BY <1>4, <2>2, <2>3 DEF Leave
<1>5. CASE TaskButtonStart \/ Command \/ CreateTimer
  <2>1. /\ at \in {"button", "subscribe", "register", "call_1", "call_2", "timer"}
        /\ UNCHANGED <<client, example, inside>>
        /\ GoOn \/ Fail
    BY <1>5 DEF TaskButtonStart, Command, CreateTimer
  <2>2. CASE GoOn
    BY <2>1, <2>2, Onwards DEF Calls
  <2>3. CASE Fail
    BY <2>1, <2>3 DEF Fail, OnFailure, Calls
  <2> QED
    BY <2>1, <2>2, <2>3
<1>6. CASE WaitConnected \/ WaitAuthenticated \/ LoopEnds
  <2>1. /\ at \in {"connect", "authenticate", "loop"}
        /\ UNCHANGED <<client, example, inside>> /\ GoOn
    BY <1>6 DEF WaitConnected, WaitAuthenticated, LoopEnds
  <2> QED
    BY <2>1, Onwards DEF Calls
<1>7. CASE DeleteQueues
  BY <1>7, Onwards DEF DeleteQueues, Calls
<1>8. CASE \/ ButtonCreate \/ ButtonClick \/ ButtonReturn
           \/ Connect \/ Disconnect \/ StationStep \/ UNCHANGED vars
  BY <1>8 DEF ButtonCreate, ButtonClick, ButtonReturn, Connect, Disconnect,
              StationStep, vars
<1>9. CASE ClientStep
  <2>1. UNCHANGED main
    BY <1>9 DEF ClientStep
  <2>2. CASE Client!CallStep
    BY <2>1, <2>2
       DEF Client!CallStep, Client!StartWs, Client!StartTimer,
           Client!StartTask, Client!StopWs, Client!DeleteTimer,
           Client!DeleteJson, Client!DestroyWs, Client!Free, Client!Return
  <2>3. CASE UNCHANGED <<queues, handle, call>>
    BY <2>1, <2>3
  <2> QED
    BY <1>9, <2>2, <2>3, TasksGo DEF ClientStep
<1> QED
  BY <1>1, <1>2, <1>3, <1>4, <1>5, <1>6, <1>7, <1>8, <1>9 DEF Next, Main

LEMMA NextDestroyed == IInv /\ [Next]_vars => Destroyed'
<1> SUFFICES ASSUME IInv, [Next]_vars PROVE Destroyed'
  OBVIOUS
<1> USE DEF IInv, Destroyed, Handles, Orderly, Reasons, client, main, Started,
            Waiting, Life!DestroyCalls
<1>1. CASE CreateQueues
  <2>1. CASE GoOn
    BY <1>1, <2>1, Onwards DEF CreateQueues, Calls
  <2>2. CASE Fail
    BY <1>1, <2>2 DEF CreateQueues, Fail, OnFailure, Calls
  <2> QED
    BY <1>1, <2>1, <2>2 DEF CreateQueues
<1>2. CASE WifiInit
  <2>1. at = "wifi" /\ UNCHANGED <<client, example, inside>>
    BY <1>2 DEF WifiInit
  <2>2. CASE UNCHANGED <<at, why>>
    BY <2>1, <2>2
  <2>3. CASE GoOn
    BY <2>1, <2>3, Onwards DEF Calls
  <2> QED
    BY <1>2, <2>2, <2>3 DEF WifiInit
<1>3. CASE Enter
  <2>1. ~inside /\ inside' = TRUE /\ UNCHANGED <<example, at, why>>
    BY <1>3 DEF Enter
  <2>2. CASE at = "init" /\ Client!CallInit
    BY <2>1, <2>2 DEF Client!CallInit, Client!Return, Client!history
  <2>3. CASE at = "start" /\ Client!CallStart
    <3>1. ws = "none"
      BY <2>1, <2>3 DEF Abandoned, Life!IInv, Life!Phases
    <3> QED
      BY <2>1, <2>3, <3>1 DEF Client!CallStart
  <2>4. CASE at = "stop" /\ Client!CallStop
    BY <2>1, <2>4 DEF Client!CallStop, Client!history
  <2>5. CASE at = "destroy" /\ Client!CallDestroy
    BY <2>1, <2>5 DEF Client!CallDestroy
  <2> QED
    BY <1>3, <2>2, <2>3, <2>4, <2>5 DEF Enter
<1>4. CASE Leave
  <2>1. /\ inside /\ call = "none" /\ inside' = FALSE
        /\ UNCHANGED <<client, example>>
    BY <1>4 DEF Leave
  <2>2. CASE GoOn /\ ~(at = "init" /\ handle # "valid")
    BY <2>1, <2>2, Onwards DEF Calls
  <2>3. CASE /\ Fail
             /\ (at = "init" /\ handle # "valid") \/ (at = "start" /\ err # "ESP_OK")
    BY <2>1, <2>3 DEF Fail, OnFailure
  <2> QED
    BY <1>4, <2>2, <2>3 DEF Leave
<1>5. CASE TaskButtonStart \/ Command \/ CreateTimer
  <2>1. /\ at \in {"button", "subscribe", "register", "call_1", "call_2", "timer"}
        /\ UNCHANGED <<client, example, inside>>
        /\ GoOn \/ Fail
    BY <1>5 DEF TaskButtonStart, Command, CreateTimer
  <2>2. CASE GoOn
    BY <2>1, <2>2, Onwards DEF Calls
  <2>3. CASE Fail
    BY <2>1, <2>3 DEF Fail, OnFailure, Calls
  <2> QED
    BY <2>1, <2>2, <2>3
<1>6. CASE WaitConnected \/ WaitAuthenticated \/ LoopEnds
  <2>1. /\ at \in {"connect", "authenticate", "loop"}
        /\ UNCHANGED <<client, example, inside>> /\ GoOn
    BY <1>6 DEF WaitConnected, WaitAuthenticated, LoopEnds
  <2> QED
    BY <2>1, Onwards DEF Calls
<1>7. CASE DeleteQueues
  BY <1>7, Onwards DEF DeleteQueues, Calls
<1>8. CASE \/ ButtonCreate \/ ButtonClick \/ ButtonReturn
           \/ Connect \/ Disconnect \/ StationStep \/ UNCHANGED vars
  BY <1>8 DEF ButtonCreate, ButtonClick, ButtonReturn, Connect, Disconnect,
              StationStep, vars
<1>9. CASE ClientStep
  <2>1. UNCHANGED main
    BY <1>9 DEF ClientStep
  <2> USE DEF Client!Return, Client!history
  <2>2. CASE Client!StartWs
    <3>1. at = "start" /\ inside /\ ws = "none"
      BY <2>2 DEF Client!StartWs, Calls
    <3>2. CASE call' = "start_timer" /\ UNCHANGED <<err, started>>
      BY <2>1, <2>2, <3>1, <3>2 DEF Client!StartWs
    <3>3. CASE started' = (ws # "none") /\ call' = "none"
      <4>1. ~started'
        BY <3>1, <3>3
      <4> QED
        BY <2>1, <2>2, <3>1, <3>3, <4>1 DEF Client!StartWs
    <3> QED
      BY <2>2, <3>2, <3>3 DEF Client!StartWs
  <2>3. CASE Client!StartTimer
    BY <2>1, <2>3 DEF Client!StartTimer
  <2>4. CASE Client!StartTask
    BY <2>1, <2>4 DEF Client!StartTask
  <2>5. CASE Client!StopWs
    BY <2>1, <2>5 DEF Client!StopWs
  <2>6. CASE \/ Client!DeleteTimer \/ Client!DeleteJson \/ Client!DestroyWs
             \/ Client!Free
    BY <2>1, <2>6 DEF Client!DeleteTimer, Client!DeleteJson,
                      Client!DestroyWs, Client!Free
  <2>7. CASE \/ Client!WebsocketEvent \/ Client!WebsocketStep
             \/ \E i \in Client!Sources : Client!SourceStep(i)
    <3>1. UNCHANGED <<call, err, started, failed, found>>
      BY <2>7 DEF Client!WebsocketEvent, Client!WebsocketStep,
                  Client!WebsocketGoes, Client!SourceStep, Client!SourceGoes,
                  Client!app
    <3>2. ws = "none" => ws' = "none"
      BY <2>7 DEF Client!WebsocketEvent, Client!WebsocketStep,
                  Client!WebsocketGoes, Client!SourceStep, Client!SourceGoes,
                  Client!WsEdges
    <3> QED
      BY <2>1, <3>1, <3>2
  <2> QED
    BY <1>9, <2>2, <2>3, <2>4, <2>5, <2>6, <2>7 DEF ClientStep, Client!CallStep
<1> QED
  BY <1>1, <1>2, <1>3, <1>4, <1>5, <1>6, <1>7, <1>8, <1>9 DEF Next, Main

LEMMA NextButtonTask == IInv /\ [Next]_vars => ButtonTask'
<1> SUFFICES ASSUME IInv, [Next]_vars PROVE ButtonTask'
  OBVIOUS
<1> USE DEF IInv, ButtonTask, Orderly, Reasons, main, Waiting
<1>1. CASE TaskButtonStart
  <2>1. CASE GoOn
    BY <1>1, <2>1, Onwards DEF TaskButtonStart
  <2>2. CASE Fail /\ UNCHANGED button
    BY <1>1, <2>2 DEF TaskButtonStart, Fail, OnFailure
  <2> QED
    BY <1>1, <2>1, <2>2 DEF TaskButtonStart
<1>2. CASE CreateTimer
  <2>1. CASE GoOn
    BY <1>2, <2>1, Onwards DEF CreateTimer
  <2>2. CASE Fail /\ UNCHANGED stop_timer
    BY <1>2, <2>2 DEF CreateTimer, Fail, OnFailure
  <2> QED
    BY <1>2, <2>1, <2>2 DEF CreateTimer
<1>3. CASE /\ at \notin {"button", "timer"}
           /\ GoOn /\ (at = "loop" => example = "hello_world")
           /\ UNCHANGED <<example, stop_timer, button>>
  BY <1>3, Onwards
<1>4. CASE /\ Fail /\ UNCHANGED <<example, stop_timer, button>>
           /\ at \in {"create", "init", "start", "subscribe", "register",
                      "call_1", "call_2"}
  BY <1>4 DEF Fail, OnFailure
<1>5. CASE /\ UNCHANGED <<example, at, why, stop_timer>>
           /\ button' = button \/ button # "none"
  BY <1>5
<1>6. \/ TaskButtonStart \/ CreateTimer
      \/ /\ at \notin {"button", "timer"}
         /\ GoOn /\ (at = "loop" => example = "hello_world")
         /\ UNCHANGED <<example, stop_timer, button>>
      \/ /\ Fail /\ UNCHANGED <<example, stop_timer, button>>
         /\ at \in {"create", "init", "start", "subscribe", "register",
                    "call_1", "call_2"}
      \/ /\ UNCHANGED <<example, at, why, stop_timer>>
         /\ button' = button \/ button # "none"
  BY DEF Next, Main, CreateQueues, WifiInit, Enter, Leave, Calls,
         WaitConnected, WaitAuthenticated, Command, LoopEnds, DeleteQueues,
         ButtonCreate, ButtonClick, ButtonReturn, Connect, Disconnect,
         ClientStep, StationStep, vars
<1> QED
  BY <1>1, <1>2, <1>3, <1>4, <1>5, <1>6

LEMMA NextAbandoned == IInv /\ [Next]_vars => Abandoned'
<1> SUFFICES ASSUME IInv, [Next]_vars PROVE Abandoned'
  OBVIOUS
<1> USE DEF IInv, Orderly, Reasons, Handles
<1>1. CASE why # "button" /\ why' # "button"
  <2>1. Life!IInv'
    BY <1>1, NextFollows, LifeGoesOn DEF Abandoned
  <2> QED
    BY <1>1, <2>1 DEF Abandoned
<1>2. CASE why # "button" /\ why' = "button"
  <2>1. TaskButtonStart /\ Fail
    <3>1. GoOn => why' = why
      BY DEF GoOn
    <3>2. Fail => at = "button"
      BY <1>2 DEF Fail
    <3> QED
      BY <1>2, <3>1, <3>2
         DEF Next, Main, CreateQueues, WifiInit, Enter, Leave,
             TaskButtonStart, WaitConnected, WaitAuthenticated, Command,
             CreateTimer, LoopEnds, DeleteQueues, ButtonCreate, ButtonClick,
             ButtonReturn, Connect, Disconnect, ClientStep, StationStep,
             main, vars
  <2>2. at = "button" /\ UNCHANGED client
    BY <2>1 DEF TaskButtonStart
  <2>3. handle = "valid" /\ call = "none"
    BY <2>2 DEF Started, Calls
  <2>4. held \ {"json"} = Client!Members
    BY <1>2, <2>3 DEF Abandoned, Life!IInv, Life!TypeOK, Life!Allocated,
                      Life!Members, Client!Members
  <2> QED
    BY <1>2, <2>2, <2>3, <2>4 DEF Abandoned, client
<1>3. CASE why = "button"
  <2>1. at \in {"delete", "end"} /\ ~inside
    BY <1>3 DEF Calls
  <2>2. handle = "valid" /\ call = "none" /\ held \ {"json"} = Client!Members
    BY <1>3 DEF Abandoned
  <2>3. CASE DeleteQueues
    BY <1>3, <2>2, <2>3, Onwards DEF DeleteQueues, Abandoned
  <2>4. CASE ClientStep
    <3>1. ~Client!CallStep
      BY <2>2, CallGoes
    <3>2. held' \ {"json"} = held \ {"json"}
      BY <2>4, <3>1
         DEF ClientStep, Client!WebsocketEvent, Client!WebsocketStep,
             Client!WebsocketGoes, Client!SourceStep, Client!SourceGoes
    <3> QED
      BY <1>3, <2>2, <2>4, <3>1, <3>2, TasksGo DEF ClientStep, Abandoned, main
  <2>5. CASE \/ ButtonCreate \/ ButtonClick \/ ButtonReturn
             \/ Connect \/ Disconnect \/ StationStep \/ UNCHANGED vars
    BY <1>3, <2>2, <2>5
       DEF ButtonCreate, ButtonClick, ButtonReturn, Connect, Disconnect,
           StationStep, vars, client, main, Abandoned
  <2> QED
    BY <2>1, <2>3, <2>4, <2>5
       DEF Next, Main, CreateQueues, WifiInit, Enter, Leave,
           TaskButtonStart, WaitConnected, WaitAuthenticated, Command,
           CreateTimer, LoopEnds, Calls
<1> QED
  BY <1>1, <1>2, <1>3

LEMMA Inductive == Spec => []IInv
<1>1. IInv /\ [Next]_vars => IInv'
  BY NextOrderly, NextReasons, NextHandles, NextDestroyed, NextButtonTask,
     NextAbandoned DEF IInv
<1> QED
  BY <1>1, InitIInv, PTL DEF Spec

(* Whoever finds a part of the client gone: never app_main(); the          *)
(* websocket task only after start_fail or without the button task; the    *)
(* button's callback only after a failure that left its task behind.       *)
THEOREM OnlyFailuresFind == Spec => []OnlyFailuresDangle
<1>1. IInv => OnlyFailuresDangle
  <2> SUFFICES ASSUME IInv PROVE OnlyFailuresDangle
    OBVIOUS
  <2> USE DEF IInv
  <2>1. CASE why = "button"
    <3>1. at \in {"delete", "end"} /\ call = "none" /\ button = "none"
      BY <2>1 DEF Reasons, Abandoned, ButtonTask
    <3> QED
      BY <2>1, <3>1
         DEF OnlyFailuresDangle, MainUses, ButtonUses, Client!CallUses
  <2>2. CASE why # "button"
    <3>1. Life!IInv
      BY <2>2 DEF Abandoned
    <3>2. handle = "valid" =>
            {"client", "ws_client", "event_loop", "result_queue"} \subseteq Client!Exists
      BY <3>1 DEF Life!IInv, Life!Allocated, Life!Members, Client!Exists
    <3>3. MainUses \subseteq Client!Exists
      BY <3>2 DEF MainUses, CommandUses, Handles, Started, Waiting
    <3>4. Client!CallUses[call] \subseteq Client!Exists
      <4>1. Life!CallUses[call] \subseteq held
        BY <3>1, BoundAssumption, Life!CallsTouch DEF Life!BoundAssumption
      <4> QED
        BY <4>1 DEF Life!CallUses, Client!CallUses, Client!Exists
    <3>5. \/ Client!WsUses[ws] \subseteq Client!Exists
          \/ why = "start" /\ "timer" \in failed
      <4>1. found # "running" => Life!WsUses[ws] \subseteq held \union queues
        BY <3>1, BoundAssumption, Life!WebsocketTouches DEF Life!BoundAssumption
      <4> QED
        BY <4>1 DEF Life!WsUses, Client!WsUses, Client!Exists, Destroyed
    <3>6. ButtonUses \subseteq Client!Exists \/ why \in {"subscribe", "register", "timer"}
      BY <3>2 DEF ButtonUses, CommandUses, ButtonTask, Handles, Started
    <3> QED
      BY <3>3, <3>4, <3>5, <3>6 DEF OnlyFailuresDangle
  <2> QED
    BY <2>1, <2>2
<1> QED
  BY <1>1, Inductive, PTL

(* Whichever way app_main() came to its end, it left no queue, and of the  *)
(* client what Lifecycle leaves behind; but all of it when the button task *)
(* could not be created.                                                   *)
THEOREM EndsCleanly == Spec => []EndsClean
<1>1. IInv => EndsClean
  <2> SUFFICES ASSUME IInv, at = "end" PROVE EndsClean
    BY DEF EndsClean
  <2>1. queues = {}
    BY DEF IInv, Handles
  <2>2. CASE why = "button"
    BY <2>1, <2>2 DEF IInv, Abandoned, EndsClean
  <2>3. CASE why # "button"
    BY <2>1, <2>3 DEF IInv, Handles, Abandoned, EndsClean, Client!LeftBehind,
                      Life!IInv, Life!Allocated
  <2> QED
    BY <2>2, <2>3
<1> QED
  BY <1>1, Inductive, PTL

(* Once it waits for its timer, the button example never leaves its loop,  *)
(* nor its client, whatever else happens.                                  *)
THEOREM ButtonNeverEnds == Spec => ButtonStays
<1>1. IInv /\ [Next]_vars =>
        [example = "button" /\ at = "loop" => UNCHANGED <<at, handle>>]_vars
  <2> SUFFICES ASSUME IInv, Next, example = "button", at = "loop"
               PROVE  UNCHANGED <<at, handle>>
    OBVIOUS
  <2>1. ~LoopEnds
    BY DEF LoopEnds, IInv, ButtonTask
  <2>2. CASE ClientStep
    BY <2>2, CallGoes, TasksGo DEF ClientStep, main
  <2>3. CASE \/ ButtonCreate \/ ButtonClick \/ ButtonReturn
             \/ Connect \/ Disconnect \/ StationStep
    BY <2>3 DEF ButtonCreate, ButtonClick, ButtonReturn, Connect, Disconnect,
                StationStep, client, main
  <2> QED
    BY <2>1, <2>2, <2>3
       DEF Next, Main, CreateQueues, WifiInit, Enter, Leave, Calls, IInv,
           Orderly, TaskButtonStart, WaitConnected, WaitAuthenticated,
           Command, CreateTimer, DeleteQueues
<1> QED
  BY <1>1, Inductive, PTL DEF Spec, ButtonStays

(* So the client of either program behaves as LifecycleProofs says, until  *)
(* the button task cannot be created: its calls and its websocket task     *)
(* find what they use unless it was found running; its event source task   *)
(* misses at most the struct and the queue; and it leaves what is left of  *)
(* any client.                                                             *)
THEOREM ExamplesInherit ==
  Spec => [](why # "button" => /\ Client!StoppedIsSafe
                               /\ Client!OnlyTheStructDangles
                               /\ Client!LeftBehind)
<1>1. IInv /\ why # "button" => Client!OnlyTheStructDangles
  <2> SUFFICES ASSUME Life!IInv PROVE Client!OnlyTheStructDangles
    BY DEF IInv, Abandoned
  <2>1. Life!OnlyTheStructDangles
    BY BoundAssumption, Life!SourcesTouch DEF Life!BoundAssumption
  <2> QED
    BY <2>1 DEF Life!OnlyTheStructDangles, Client!OnlyTheStructDangles,
                Life!SourceUses, Client!SourceUses, Life!Exists,
                Client!Exists, Life!Sources, Client!Sources
<1>2. IInv /\ why # "button" => Client!LeftBehind
  BY DEF IInv, Abandoned, Life!IInv, Life!Allocated, Client!LeftBehind
<1>3. IInv /\ why # "button" => Client!StoppedIsSafe
  <2> SUFFICES ASSUME Life!IInv, found # "running"
               PROVE  Client!CallUses[call] \union Client!WsUses[ws]
                        \subseteq Client!Exists
    BY DEF IInv, Abandoned, Client!StoppedIsSafe
  <2>1. Life!CallUses[call] \subseteq held
    BY BoundAssumption, Life!CallsTouch DEF Life!BoundAssumption
  <2>2. Life!WsUses[ws] \subseteq held \union queues
    BY BoundAssumption, Life!WebsocketTouches DEF Life!BoundAssumption
  <2> QED
    BY <2>1, <2>2 DEF Life!CallUses, Client!CallUses, Life!WsUses,
                      Client!WsUses, Client!Exists
<1> QED
  BY <1>1, <1>2, <1>3, Inductive, PTL

=============================================================================
