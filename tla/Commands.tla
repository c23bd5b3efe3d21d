------------------------------- MODULE Commands -------------------------------
(***************************************************************************)
(* Commands and their results.  Tasks of the application call              *)
(* esp_hass_call_service() or esp_hass_client_subscribe_events(): take a   *)
(* message id, send the command, wait on client->result_queue and return   *)
(* what the result at its head says.  Or they call                         *)
(* esp_hass_send_message_json() alone, which is public and waits for       *)
(* nothing, though its command is answered like any.  The server answers   *)
(* each command it gets, in any order; the websocket task puts the answers *)
(* in the queue.  The connection may break and come back, and answers may  *)
(* get lost.                                                               *)
(*                                                                         *)
(* A command is named by the caller and the number of its call, and so is  *)
(* its result.  The client reads neither the name nor the id of a result.  *)
(***************************************************************************)
EXTENDS Naturals, Sequences, FiniteSets

CONSTANTS
  Callers,         \* tasks of the application that send commands
  Timed,           \* those that wait with a timeout: subscribe_events, and
                   \* call_service with a delay other than portMAX_DELAY
  Senders,         \* those that also send commands without waiting
  MaxCalls,        \* bound: calls of one caller
  ResultQueueLen,  \* length of the queue the application created
  Lossy,           \* the connection may break, answers may be lost
  NoResult         \* NULL

ASSUME CallerAssumption == Timed \subseteq Callers /\ Senders \subseteq Callers
ASSUME BoundAssumption ==
  /\ MaxCalls \in Nat \ {0}
  /\ ResultQueueLen \in Nat \ {0}
ASSUME LossAssumption == Lossy \in BOOLEAN

VARIABLES
  message_id,    \* client->message_id
  pc,            \* where each caller is
  loaded,        \* message_id as the caller's ++ read it
  call,          \* number of the caller's latest call
  connected,     \* the session with the server is up
  to_server,     \* commands on the wire
  last_id,       \* greatest id the server saw in this session
  working,       \* commands the server has not answered
  to_client,     \* results on the wire
  rx_result,     \* result the websocket task is about to enqueue
  result_queue,  \* client->result_queue
  succeeded,     \* commands the server carried out
  ok_calls,      \* calls that returned ESP_OK
  unawaited,     \* commands nobody waits for: sent alone, or given up
  overlapped,    \* a command was sent while another caller waited
  lost,          \* commands and results the connection or rx_buffer lost
  dropped        \* results message_handler() found no room for

clientVars == <<message_id, pc, loaded, call>>
wireVars == <<connected, to_server, last_id, working, to_client>>
historyVars == <<succeeded, ok_calls, unawaited, overlapped, lost, dropped>>
vars == <<clientVars, wireVars, rx_result, result_queue, historyVars>>

CallName == Callers \X (1..MaxCalls)
Command == [name : CallName, id : Nat]
Result == [name : CallName, success : BOOLEAN]

Name(c) == <<c, call[c]>>
Receivers == {c \in Callers : pc[c] = "receive"}
Elems(seq) == {seq[i] : i \in DOMAIN seq}

ASSUME NoResultAssumption == NoResult \notin Result

Init ==
  /\ message_id = 0
  /\ pc = [c \in Callers |-> "idle"]
  /\ loaded = [c \in Callers |-> 0]
  /\ call = [c \in Callers |-> 0]
  /\ connected = TRUE
  /\ to_server = <<>>
  /\ last_id = 0
  /\ working = {}
  /\ to_client = <<>>
  /\ rx_result = NoResult
  /\ result_queue = <<>>
  /\ succeeded = {}
  /\ ok_calls = {}
  /\ unawaited = 0
  /\ overlapped = FALSE
  /\ lost = 0
  /\ dropped = 0

-----------------------------------------------------------------------------
(* The callers.  ++client->message_id is a load and a store that nothing   *)
(* protects from another caller.                                           *)

LoadId(c) ==
  /\ pc[c] = "idle"
  /\ call[c] < MaxCalls
  /\ call' = [call EXCEPT ![c] = @ + 1]
  /\ loaded' = [loaded EXCEPT ![c] = message_id]
  /\ pc' = [pc EXCEPT ![c] = "store"]
  /\ UNCHANGED <<message_id, wireVars, rx_result, result_queue, historyVars>>

StoreId(c) ==
  /\ pc[c] = "store"
  /\ message_id' = loaded[c] + 1
  /\ pc' = [pc EXCEPT ![c] = "send"]
  /\ UNCHANGED <<loaded, call, wireVars, rx_result, result_queue, historyVars>>

(* esp_websocket_client_send_text() sent the whole command. *)
Transmit(c) ==
  /\ pc[c] = "send"
  /\ connected
  /\ to_server' = Append(to_server, [name |-> Name(c), id |-> loaded[c] + 1])
  /\ UNCHANGED <<message_id, loaded, call, connected, last_id, working,
                 to_client, rx_result, result_queue>>

Send(c) ==
  /\ Transmit(c)
  /\ pc' = [pc EXCEPT ![c] = "receive"]
  /\ overlapped' = (overlapped \/ Receivers # {})
  /\ UNCHANGED <<succeeded, ok_calls, unawaited, lost, dropped>>

(* The caller wanted no more: esp_hass_send_message_json() returns ESP_OK. *)
SendAlone(c) ==
  /\ c \in Senders
  /\ Transmit(c)
  /\ pc' = [pc EXCEPT ![c] = "idle"]
  /\ unawaited' = unawaited + 1
  /\ UNCHANGED <<succeeded, ok_calls, overlapped, lost, dropped>>

(* No memory for the JSON, not connected, or the send fails: ESP_FAIL. *)
SendFails(c) ==
  /\ pc[c] = "send"
  /\ pc' = [pc EXCEPT ![c] = "idle"]
  /\ UNCHANGED <<message_id, loaded, call, wireVars, rx_result, result_queue,
                 historyVars>>

(* Mutant of ReceiveResult: xQueuePeek(). *)
ReceiveResultPeek(c) ==
  /\ pc[c] = "receive"
  /\ result_queue # <<>>
  /\ ok_calls' = IF Head(result_queue).success
                   THEN ok_calls \union {Name(c)} ELSE ok_calls
  /\ pc' = [pc EXCEPT ![c] = "idle"]
  /\ UNCHANGED <<message_id, loaded, call, wireVars, rx_result, result_queue,
                 succeeded, unawaited, overlapped, lost, dropped>>

(* xQueueReceive() returns the head of the queue, and the call what it says. *)
ReceiveResult(c) ==
  /\ pc[c] = "receive"
  /\ result_queue # <<>>
  /\ result_queue' = Tail(result_queue)
  /\ ok_calls' = IF Head(result_queue).success
                   THEN ok_calls \union {Name(c)} ELSE ok_calls
  /\ pc' = [pc EXCEPT ![c] = "idle"]
  /\ UNCHANGED <<message_id, loaded, call, wireVars, rx_result, succeeded,
                 unawaited, overlapped, lost, dropped>>

(* xQueueReceive() times out: ESP_FAIL. *)
ReceiveTimeout(c) ==
  /\ c \in Timed
  /\ pc[c] = "receive"
  /\ result_queue = <<>>
  /\ unawaited' = unawaited + 1
  /\ pc' = [pc EXCEPT ![c] = "idle"]
  /\ UNCHANGED <<message_id, loaded, call, wireVars, rx_result, result_queue,
                 succeeded, ok_calls, overlapped, lost, dropped>>

-----------------------------------------------------------------------------
(* The server (external).  It refuses an id that is not greater than those *)
(* before it and answers the other commands when it is done with them.     *)

ServerAccept ==
  /\ to_server # <<>>
  /\ Head(to_server).id > last_id
  /\ last_id' = Head(to_server).id
  /\ working' = working \union {Head(to_server).name}
  /\ to_server' = Tail(to_server)
  /\ UNCHANGED <<clientVars, connected, to_client, rx_result, result_queue,
                 historyVars>>

ServerRefuse ==
  /\ to_server # <<>>
  /\ Head(to_server).id <= last_id
  /\ to_client' = Append(to_client,
                    [name |-> Head(to_server).name, success |-> FALSE])
  /\ to_server' = Tail(to_server)
  /\ UNCHANGED <<clientVars, connected, last_id, working, rx_result,
                 result_queue, historyVars>>

ServerReply(n, ok) ==
  /\ n \in working
  /\ working' = working \ {n}
  /\ to_client' = Append(to_client, [name |-> n, success |-> ok])
  /\ succeeded' = IF ok THEN succeeded \union {n} ELSE succeeded
  /\ UNCHANGED <<clientVars, connected, to_server, last_id, rx_result,
                 result_queue, ok_calls, unawaited, overlapped, lost, dropped>>

-----------------------------------------------------------------------------
(* The websocket task and the connection.                                  *)

(* websocket_event_handler() parsed a result. *)
WsReceive ==
  /\ rx_result = NoResult
  /\ to_client # <<>>
  /\ rx_result' = Head(to_client)
  /\ to_client' = Tail(to_client)
  /\ UNCHANGED <<clientVars, connected, to_server, last_id, working,
                 result_queue, historyVars>>

(* Mutant of WsEnqueue: no bound. *)
WsEnqueueUnbounded ==
  /\ rx_result # NoResult
  /\ result_queue' = Append(result_queue, rx_result)
  /\ rx_result' = NoResult
  /\ UNCHANGED <<clientVars, wireVars, historyVars>>

(* message_handler(), HASS_MESSAGE_TYPE_RESULT *)
WsEnqueue ==
  /\ rx_result # NoResult
  /\ Len(result_queue) < ResultQueueLen
  /\ result_queue' = Append(result_queue, rx_result)
  /\ rx_result' = NoResult
  /\ UNCHANGED <<clientVars, wireVars, historyVars>>

(* Mutant of WsDrop: a block time of zero. *)
WsDropAtOnce ==
  /\ rx_result # NoResult
  /\ Len(result_queue) = ResultQueueLen
  /\ rx_result' = NoResult
  /\ dropped' = dropped + 1
  /\ UNCHANGED <<clientVars, wireVars, result_queue, succeeded, ok_calls,
                 unawaited, overlapped, lost>>

(* The queue stayed full for ESP_HASS_QUEUE_SEND_WAIT_MS: the result is    *)
(* destroyed.  A caller in xQueueReceive() would have made room.           *)
WsDrop ==
  /\ rx_result # NoResult
  /\ Len(result_queue) = ResultQueueLen
  /\ Receivers = {}
  /\ rx_result' = NoResult
  /\ dropped' = dropped + 1
  /\ UNCHANGED <<clientVars, wireVars, result_queue, succeeded, ok_calls,
                 unawaited, overlapped, lost>>

(* A result that does not survive websocket_event_handler(): see RxBuffer. *)
ResultLost ==
  /\ Lossy
  /\ to_client # <<>>
  /\ to_client' = Tail(to_client)
  /\ lost' = lost + 1
  /\ UNCHANGED <<clientVars, connected, to_server, last_id, working, rx_result,
                 result_queue, succeeded, ok_calls, unawaited, overlapped,
                 dropped>>

(* The connection breaks with everything on the wire.  The client resets   *)
(* nothing: it neither empties result_queue nor wakes a caller.            *)
Disconnect ==
  /\ Lossy
  /\ connected
  /\ connected' = FALSE
  /\ to_server' = <<>>
  /\ to_client' = <<>>
  /\ working' = {}
  /\ lost' = lost + Len(to_server) + Len(to_client) + Cardinality(working)
  /\ UNCHANGED <<clientVars, last_id, rx_result, result_queue, succeeded,
                 ok_calls, unawaited, overlapped, dropped>>

(* The websocket client reconnects; ids start afresh for the server only.  *)
Reconnect ==
  /\ ~connected
  /\ connected' = TRUE
  /\ last_id' = 0
  /\ UNCHANGED <<clientVars, to_server, working, to_client, rx_result,
                 result_queue, historyVars>>

-----------------------------------------------------------------------------
CallerStep(c) ==
  \/ StoreId(c) \/ Send(c) \/ SendAlone(c) \/ SendFails(c)
  \/ ReceiveResult(c) \/ ReceiveTimeout(c)

ServerReplies == \E n \in CallName, ok \in BOOLEAN : ServerReply(n, ok)

Next ==
  \/ \E c \in Callers : LoadId(c) \/ CallerStep(c)
  \/ ServerAccept \/ ServerRefuse \/ ServerReplies
  \/ WsReceive \/ WsEnqueue \/ WsDrop
  \/ ResultLost \/ Disconnect \/ Reconnect

(* Tasks are scheduled, timeouts fire, the server answers, the websocket   *)
(* client reconnects.  Nobody owes a new call.                             *)
Fairness ==
  /\ \A c \in Callers : WF_vars(CallerStep(c))
  /\ WF_vars(ServerAccept \/ ServerRefuse) /\ WF_vars(ServerReplies)
  /\ WF_vars(WsReceive) /\ WF_vars(WsEnqueue \/ WsDrop)
  /\ WF_vars(Reconnect)

Spec == Init /\ [][Next]_vars
FairSpec == Spec /\ Fairness

-----------------------------------------------------------------------------
(* Every variable stays in its type. *)
TypeOK ==
  /\ message_id \in Nat
  /\ pc \in [Callers -> {"idle", "store", "send", "receive"}]
  /\ loaded \in [Callers -> Nat]
  /\ call \in [Callers -> 0..MaxCalls]
  /\ connected \in BOOLEAN
  /\ to_server \in Seq(Command)
  /\ last_id \in Nat
  /\ working \subseteq CallName
  /\ to_client \in Seq(Result)
  /\ rx_result \in Result \union {NoResult}
  /\ result_queue \in Seq(Result)
  /\ Len(result_queue) <= ResultQueueLen
  /\ succeeded \subseteq CallName
  /\ ok_calls \subseteq CallName
  /\ unawaited \in Nat
  /\ overlapped \in BOOLEAN
  /\ lost \in Nat
  /\ dropped \in Nat

(* ESP_OK is the truth: esp_hass_call_service() and                        *)
(* esp_hass_client_subscribe_events() return it only for a command the     *)
(* server carried out.                                                     *)
Truthful == ok_calls \subseteq succeeded

(* ESP_OK is the truth, whatever the connection loses, as long as callers  *)
(* take turns and every command sent is waited for until its result comes. *)
(* Nothing but that protects a caller from the result of another command:  *)
(* Truthful itself does not hold.                                          *)
TruthfulInTurn == unawaited = 0 /\ ~overlapped => Truthful

(* Results between the server and the callers. *)
Outstanding ==
  Cardinality(working) + Len(to_server) + Len(to_client)
    + (IF rx_result = NoResult THEN 0 ELSE 1) + Len(result_queue)

(* The result queue keeps its balance: whoever waits and every command     *)
(* nobody waits for has one answer that is under way, was lost or was      *)
(* dropped; none is taken twice, and none answers what was not sent.       *)
AnswersBalance ==
  Cardinality(Receivers) + unawaited = Outstanding + lost + dropped

(* However the results are shuffled among the callers, no more calls       *)
(* return ESP_OK than commands were carried out.                           *)
NoInventedSuccess == Cardinality(ok_calls) <= Cardinality(succeeded)

(* A result is dropped for lack of room only when more results than the    *)
(* queue holds belong to nobody: callers that wait for their answers never *)
(* need more than one slot, and whatever the others leave in the queue     *)
(* costs no caller its answer.                                             *)
DropsAreUnawaited == dropped > 0 => dropped + ResultQueueLen <= unawaited

(* A caller that waits without a timeout is stranded only when nothing is  *)
(* under way to it any more and as many commands or results were lost as   *)
(* callers wait: by the connection, never by the client's own queue, the   *)
(* race for ids or another caller.  (The default delay of                  *)
(* esp_hass_call_service() is portMAX_DELAY.)                              *)
StrandedOnlyByLoss ==
  \A c \in Callers :
    pc[c] = "receive" ~> \/ pc[c] # "receive"
                         \/ Outstanding = 0 /\ Cardinality(Receivers) <= lost

=============================================================================
