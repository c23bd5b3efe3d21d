----------------------------- MODULE ServiceCall -----------------------------
(***************************************************************************)
(* What one esp_hass_call_service() and one message of the server allocate *)
(* and free, and what the message's attributes make of the call's result.  *)
(* The message is parsed and dispatched by the websocket task, at any time *)
(* of the call; any allocation and any send may fail.                      *)
(*                                                                         *)
(* Which call a result belongs to is in Commands, what becomes of messages *)
(* in the event queue in EventPipeline.  No caller reads msg->id.          *)
(***************************************************************************)
VARIABLES
  heap,     \* what is allocated
  twice,    \* history: pointers freed after what they point to was freed
  crashed,  \* a NULL pointer was followed: the device restarts
  text,     \* the attributes of the server's message
  rx,       \* where the websocket task is with it
  msg,      \* esp_hass_message_t
  place,    \* who has msg; "gone": the call had it
  pc,       \* where the call is
  pointers, \* json_error and json_error_msg, when not NULL
  err       \* what the call returns

receiver == <<text, rx, msg>>
caller == <<pc, pointers, err>>
vars == <<heap, twice, crashed, receiver, place, caller>>

(* string_to_type(): what it does not know, commands among it, is UNKNOWN. *)
StringToType ==
  [auth |-> "AUTH", auth_invalid |-> "AUTH_INVALID", auth_ok |-> "AUTH_OK",
   auth_required |-> "AUTH_REQUIRED", result |-> "RESULT", event |-> "EVENT",
   pong |-> "PONG"]
MessageTypes ==
  {StringToType[s] : s \in DOMAIN StringToType} \union {"UNKNOWN"}

(* Attributes of the server's messages, as far as the code looks at them.  *)
Texts ==
  [type : DOMAIN StringToType \union {"call_service", "no string"},
   success : {"true", "false", "no bool", "absent"},
   error : {"absent", "bare", "with message"},
   ha_version : BOOLEAN]
NoText == [type |-> "no string", success |-> "absent", error |-> "absent",
           ha_version |-> FALSE]

(* Mutant of ParseMessage: success is true unless it is false. *)
ParseMessageTrue(t) ==
  [type |-> IF t.type \in DOMAIN StringToType
              THEN StringToType[t.type] ELSE "UNKNOWN",
   success |-> t.type = "result" /\ t.success # "false"]

(* esp_hass_message_parse(), as far as the message it returns goes. *)
ParseMessage(t) ==
  [type |-> IF t.type \in DOMAIN StringToType
              THEN StringToType[t.type] ELSE "UNKNOWN",
   success |-> t.type = "result" /\ t.success = "true"]

Message == {"msg", "msg->json"}

(* free() and cJSON_Delete() of pointers to what S holds. *)
Release(S) == heap' = heap \ S /\ twice' = twice \union (S \ heap)

Init ==
  /\ heap = {} /\ twice = {} /\ crashed = FALSE
  /\ text = NoText /\ rx = "none" /\ msg = ParseMessage(NoText)
  /\ place = "nowhere"
  /\ pc = "idle" /\ pointers = {} /\ err = "ESP_FAIL"

-----------------------------------------------------------------------------
(* The websocket task.                                                     *)

Arrive ==
  /\ rx = "none" /\ rx' = "parse"
  /\ text' \in Texts
  /\ UNCHANGED <<heap, twice, crashed, msg, place, caller>>

(* The label fail reads msg->json: calloc() must not have failed. *)
ParseNoMemory ==
  /\ rx = "parse"
  /\ crashed' = TRUE
  /\ UNCHANGED <<heap, twice, receiver, place, caller>>

(* cJSON_Parse() fails: the message is freed again. *)
ParseFails ==
  /\ rx = "parse" /\ rx' = "done"
  /\ UNCHANGED <<heap, twice, crashed, text, msg, place, caller>>

Parse ==
  /\ rx = "parse" /\ rx' = "dispatch"
  /\ msg' = ParseMessage(text)
  /\ heap' = heap \union Message
  /\ place' = "websocket"
  /\ UNCHANGED <<twice, crashed, text, caller>>

(* message_handler(), in the end. *)
Hand(to) == rx' = "done" /\ place' = to

(* AUTH_INVALID and AUTH_REQUIRED: the version is copied from an attribute *)
(* that, the comment says, is present in messages of authentication.       *)
FollowsNoVersion ==
  /\ rx = "dispatch" /\ msg.type \in {"AUTH_INVALID", "AUTH_REQUIRED"}
  /\ ~text.ha_version
  /\ crashed' = TRUE
  /\ UNCHANGED <<heap, twice, receiver, place, caller>>

(* These, AUTH_OK, and what a queue does not take are destroyed. *)
Destroy ==
  /\ rx = "dispatch"
  /\ msg.type \in {"AUTH_INVALID", "AUTH_REQUIRED"} => text.ha_version
  /\ Release(Message)
  /\ Hand("nowhere")
  /\ UNCHANGED <<crashed, text, msg, caller>>

(* Mutant of Queue: nobody looks at what xQueueSend() returned; a message  *)
(* that the queue took is destroyed, too.                                  *)
QueueDestroys ==
  /\ rx = "dispatch"
  /\ msg.type \notin {"AUTH_INVALID", "AUTH_REQUIRED", "AUTH_OK"}
  /\ Release(Message)
  /\ Hand(IF msg.type = "RESULT" THEN "result_queue" ELSE "event_queue")
  /\ UNCHANGED <<crashed, text, msg, caller>>

Queue ==
  /\ rx = "dispatch"
  /\ msg.type \notin {"AUTH_INVALID", "AUTH_REQUIRED", "AUTH_OK"}
  /\ Hand(IF msg.type = "RESULT" THEN "result_queue" ELSE "event_queue")
  /\ UNCHANGED <<heap, twice, crashed, text, msg, caller>>

-----------------------------------------------------------------------------
(* The call.                                                               *)

(* Mutant of CreateJson: entity_id's failure goes to fail, not to          *)
(* fail_target.                                                            *)
CreateJsonLeaks ==
  /\ pc = "idle"
  /\ heap' = heap \union {"target"} /\ pc' = "free"
  /\ UNCHANGED <<twice, crashed, receiver, place, pointers, err>>

(* create_call_service_json().  Each of its failures frees what it had,    *)
(* the target too as long as it is not part of the command.                *)
CreateJson ==
  /\ pc = "idle"
  /\ \/ heap' = heap \union {"json"} /\ pc' = "id"
     \/ pc' = "free" /\ UNCHANGED heap
  /\ UNCHANGED <<twice, crashed, receiver, place, pointers, err>>

(* esp_hass_send_message_json(): the id is added, *)
AddId ==
  /\ pc = "id" /\ pc' \in {"print", "free"}
  /\ UNCHANGED <<heap, twice, crashed, receiver, place, pointers, err>>

(* the command is printed, *)
PrintJson ==
  /\ pc = "print"
  /\ \/ heap' = heap \union {"json_string"} /\ pc' = "send"
     \/ pc' = "free" /\ UNCHANGED heap
  /\ UNCHANGED <<twice, crashed, receiver, place, pointers, err>>

(* Mutant of Send: the string is freed only after success. *)
SendLeaks ==
  /\ pc = "send"
  /\ \/ pc' = "receive" /\ Release({"json_string"})
     \/ pc' = "free" /\ UNCHANGED <<heap, twice>>
  /\ UNCHANGED <<crashed, receiver, place, pointers, err>>

(* and sent, wholly or not. *)
Send ==
  /\ pc = "send" /\ pc' \in {"receive", "free"}
  /\ Release({"json_string"})
  /\ UNCHANGED <<crashed, receiver, place, pointers, err>>

Timeout ==
  /\ pc = "receive" /\ place # "result_queue" /\ pc' = "free"
  /\ UNCHANGED <<heap, twice, crashed, receiver, place, pointers, err>>

(* The result, and the pointers into its attribute error. *)
Receive ==
  /\ pc = "receive" /\ place = "result_queue"
  /\ place' = "call" /\ pc' = "free"
  /\ err' = IF msg.type = "RESULT" /\ msg.success THEN "ESP_OK" ELSE "ESP_FAIL"
  /\ pointers' =
       IF msg.type # "RESULT" \/ msg.success \/ text.error = "absent" THEN {}
       ELSE IF text.error = "bare" THEN {"json_error"}
       ELSE {"json_error", "json_error_msg"}
  /\ UNCHANGED <<heap, twice, crashed, receiver>>

(* The label fail, where success ends too: msg and json, if there are any, *)
Free ==
  /\ pc = "free" /\ pc' = "free_error"
  /\ Release((IF place = "call" THEN Message ELSE {}) \union (heap \intersect {"json"}))
  /\ place' = IF place = "call" THEN "gone" ELSE place
  /\ UNCHANGED <<crashed, receiver, pointers, err>>

(* and the pointers, which point into what msg->json was: what comes of    *)
(* that is undefined.                                                      *)
FreeError ==
  /\ pc = "free_error" /\ pc' = "returned"
  /\ twice' = twice \union pointers
  /\ pointers' = {}
  /\ crashed' \in (IF pointers = {} THEN {FALSE} ELSE BOOLEAN)
  /\ UNCHANGED <<heap, receiver, place, err>>

-----------------------------------------------------------------------------
Websocket ==
  \/ Arrive
  \/ ParseNoMemory \/ ParseFails \/ Parse
  \/ FollowsNoVersion \/ Destroy \/ Queue

Caller ==
  \/ CreateJson \/ AddId \/ PrintJson \/ Send
  \/ Timeout \/ Receive
  \/ Free \/ FreeError

Next == ~crashed /\ (Websocket \/ Caller)

Spec == Init /\ [][Next]_vars

-----------------------------------------------------------------------------
(* Every variable stays in its type. *)
TypeOK ==
  /\ heap \subseteq Message \union {"json", "json_string"}
  /\ twice \subseteq Message \union {"json", "json_string"}
               \union {"json_error", "json_error_msg"}
  /\ crashed \in BOOLEAN
  /\ text \in Texts
  /\ rx \in {"none", "parse", "dispatch", "done"}
  /\ msg \in [type : MessageTypes, success : BOOLEAN]
  /\ place \in {"nowhere", "websocket", "result_queue", "event_queue", "call",
             "gone"}
  /\ pc \in {"idle", "id", "print", "send", "receive", "free", "free_error",
            "returned"}
  /\ pointers \subseteq {"json_error", "json_error_msg"}
  /\ err \in {"ESP_OK", "ESP_FAIL"}

(* Whatever fails, in whichever order the two tasks run: a message is      *)
(* allocated as long as somebody has it, and no longer; and a call that    *)
(* returned left nothing of its command behind.                            *)
NothingLeaks ==
  /\ heap \intersect Message = IF place \in {"nowhere", "gone"} THEN {} ELSE Message
  /\ pc \in {"idle", "free_error", "returned"} => heap \subseteq Message

(* A result that says anything but success: true, with an attribute error: *)
(* json_error points into it.                                              *)
Refusal ==
  text.type = "result" /\ text.success # "true" /\ text.error # "absent"

(* In whichever order the two tasks run, a message has one owner that      *)
(* destroys it once, and so has all that the call allocates.  What is      *)
(* freed a second time is at most the attribute error of a refusal that    *)
(* the call itself received and destroyed, and such a call returns         *)
(* ESP_FAIL.  (That it is freed a second time, always, is a defect of the  *)
(* code and no promise: see RefusalFreesTwice of ServiceCallProofs.)       *)
FreedOnce ==
  /\ twice \subseteq {"json_error", "json_error_msg"}
  /\ twice # {} => Refusal /\ place = "gone" /\ err = "ESP_FAIL"

(* ESP_OK says that the server's message was a result with success: true,  *)
(* and that the call destroyed it.                                         *)
OkMeansTrue ==
  err = "ESP_OK" =>
    /\ text.type = "result" /\ text.success = "true"
    /\ place = IF pc = "free" THEN "call" ELSE "gone"

=============================================================================
