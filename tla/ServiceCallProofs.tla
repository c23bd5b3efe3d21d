--------------------------- MODULE ServiceCallProofs ---------------------------
(***************************************************************************)
(* Proofs about ServiceCall: what the call and the websocket task have     *)
(* allocated in every order of their steps, and which message the pointers *)
(* into its attribute error may outlive.                                   *)
(***************************************************************************)
EXTENDS ServiceCall, TLAPS

(* The message is in one pair of hands, and the call has had it only as    *)
(* the result it waited for.                                               *)
Hands ==
  /\ rx \in {"none", "parse"} => place = "nowhere"
  /\ place = "websocket" <=> rx = "dispatch"
  /\ place = "call" => pc = "free"
  /\ place = "gone" => pc \in {"free_error", "returned"}
  /\ place # "nowhere" => msg = ParseMessage(text)
  /\ place \in {"result_queue", "call", "gone"} => msg.type = "RESULT"

(* What is allocated: the message while somebody has it, the command until *)
(* the label fail, the string while it is being sent.                      *)
Allocated ==
  /\ heap \intersect Message = IF place \in {"nowhere", "gone"} THEN {} ELSE Message
  /\ "json" \in heap => pc \in {"id", "print", "send", "receive", "free"}
  /\ "json_string" \in heap <=> pc = "send"

(* What the call knows of the message it had, and what it does with the    *)
(* pointers into it.                                                       *)
Had == place \in {"call", "gone"}

Known ==
  /\ err = "ESP_OK" => Had /\ msg.success
  /\ pointers # {} => pc \in {"free", "free_error"} /\ Had /\ Refusal
  /\ Had /\ Refusal /\ pc # "returned" => pointers # {}
  /\ twice \subseteq {"json_error", "json_error_msg"}
  /\ twice # {} => pc = "returned" /\ Had /\ Refusal
  /\ pc = "returned" /\ Had /\ Refusal => twice # {}

IInv == TypeOK /\ Hands /\ Allocated /\ Known

-----------------------------------------------------------------------------
(* What esp_hass_message_parse() makes of the attributes. *)
LEMMA Parsed ==
  ASSUME NEW t \in Texts
  PROVE  /\ ParseMessage(t) \in [type : MessageTypes, success : BOOLEAN]
         /\ ParseMessage(t).type = "RESULT" <=> t.type = "result"
         /\ ParseMessage(t).success <=> t.type = "result" /\ t.success = "true"
         /\ ParseMessage(t).type \in {"AUTH_INVALID", "AUTH_REQUIRED"}
              => t.type \in {"auth_required", "auth_invalid"}
<1>1. /\ DOMAIN StringToType = {"auth", "auth_invalid", "auth_ok", "auth_required",
                                "result", "event", "pong"}
      /\ StringToType["auth"] = "AUTH"
      /\ StringToType["auth_invalid"] = "AUTH_INVALID"
      /\ StringToType["auth_ok"] = "AUTH_OK"
      /\ StringToType["auth_required"] = "AUTH_REQUIRED"
      /\ StringToType["result"] = "RESULT"
      /\ StringToType["event"] = "EVENT"
      /\ StringToType["pong"] = "PONG"
  BY DEF StringToType
<1>2. /\ ParseMessage(t).success <=> t.type = "result" /\ t.success = "true"
      /\ ParseMessage(t).type = IF t.type \in DOMAIN StringToType
                                THEN StringToType[t.type] ELSE "UNKNOWN"
  BY DEF ParseMessage
<1>3. ParseMessage(t).type \in MessageTypes
  BY <1>2 DEF MessageTypes
<1>4. ParseMessage(t) \in [type : MessageTypes, success : BOOLEAN]
  BY <1>2, <1>3 DEF ParseMessage
<1> QED
  BY <1>1, <1>2, <1>4

LEMMA InitIInv == Init => IInv
<1> SUFFICES ASSUME Init PROVE IInv
  OBVIOUS
<1>1. NoText \in Texts
  BY DEF NoText, Texts
<1>2. TypeOK
  BY <1>1, Parsed DEF Init, TypeOK
<1>3. Hands /\ Allocated /\ Known
  BY DEF Init, Hands, Allocated, Known, Had, Message
<1> QED
  BY <1>2, <1>3 DEF IInv

(* Every pointer of Release was allocated, but for the ones into msg->json *)
(* that FreeError deletes by itself.                                       *)
LEMMA NextType == IInv /\ [Next]_vars => TypeOK'
<1> SUFFICES ASSUME IInv, [Next]_vars PROVE TypeOK'
  OBVIOUS
<1> USE DEF IInv, TypeOK, receiver, caller, Release, Message, Hand
<1>1. CASE Arrive
  BY <1>1 DEF Arrive
<1>2. CASE ParseNoMemory
  BY <1>2 DEF ParseNoMemory
<1>3. CASE ParseFails
  BY <1>3 DEF ParseFails
<1>4. CASE Parse
  BY <1>4, Parsed DEF Parse
<1>5. CASE FollowsNoVersion
  BY <1>5 DEF FollowsNoVersion
<1>6. CASE Destroy
  BY <1>6 DEF Destroy, Hands, Allocated
<1>7. CASE Queue
  BY <1>7 DEF Queue
<1>8. CASE CreateJson
  BY <1>8 DEF CreateJson
<1>9. CASE AddId
  BY <1>9 DEF AddId
<1>10. CASE PrintJson
  BY <1>10 DEF PrintJson
<1>11. CASE Send
  BY <1>11 DEF Send, Allocated
<1>12. CASE Timeout
  BY <1>12 DEF Timeout
<1>13. CASE Receive
  BY <1>13 DEF Receive
<1>14. CASE Free
  BY <1>14 DEF Free, Hands, Allocated
<1>15. CASE FreeError
  BY <1>15 DEF FreeError
<1>16. CASE UNCHANGED vars
  BY <1>16 DEF vars
<1> QED
  BY <1>1, <1>2, <1>3, <1>4, <1>5, <1>6, <1>7, <1>8, <1>9, <1>10, <1>11, <1>12, <1>13, <1>14, <1>15, <1>16 DEF Next, Websocket, Caller

LEMMA NextHands == IInv /\ [Next]_vars => Hands'
<1> SUFFICES ASSUME IInv, [Next]_vars PROVE Hands'
  OBVIOUS
<1> USE DEF IInv, TypeOK, Hands, receiver, caller, Release, Message, Hand
<1>1. CASE Arrive
  BY <1>1 DEF Arrive
<1>2. CASE ParseNoMemory
  BY <1>2 DEF ParseNoMemory
<1>3. CASE ParseFails
  BY <1>3 DEF ParseFails
<1>4. CASE Parse
  BY <1>4, Parsed DEF Parse
<1>5. CASE FollowsNoVersion
  BY <1>5, Parsed DEF FollowsNoVersion
<1>6. CASE Destroy
  BY <1>6 DEF Destroy
<1>7. CASE Queue
  BY <1>7, Parsed DEF Queue
<1>8. CASE CreateJson
  BY <1>8 DEF CreateJson
<1>9. CASE AddId
  BY <1>9 DEF AddId
<1>10. CASE PrintJson
  BY <1>10 DEF PrintJson
<1>11. CASE Send
  BY <1>11 DEF Send
<1>12. CASE Timeout
  BY <1>12 DEF Timeout
<1>13. CASE Receive
  BY <1>13, Parsed DEF Receive
<1>14. CASE Free
  BY <1>14, Parsed DEF Free
<1>15. CASE FreeError
  BY <1>15, Parsed DEF FreeError
<1>16. CASE UNCHANGED vars
  BY <1>16 DEF vars
<1> QED
  BY <1>1, <1>2, <1>3, <1>4, <1>5, <1>6, <1>7, <1>8, <1>9, <1>10, <1>11, <1>12, <1>13, <1>14, <1>15, <1>16 DEF Next, Websocket, Caller

LEMMA NextAllocated == IInv /\ [Next]_vars => Allocated'
<1> SUFFICES ASSUME IInv, [Next]_vars PROVE Allocated'
  OBVIOUS
<1> USE DEF IInv, TypeOK, Hands, Allocated, receiver, caller, Release, Message, Hand
<1>1. CASE Arrive
  BY <1>1 DEF Arrive
<1>2. CASE ParseNoMemory
  BY <1>2 DEF ParseNoMemory
<1>3. CASE ParseFails
  BY <1>3 DEF ParseFails
<1>4. CASE Parse
  BY <1>4, Parsed DEF Parse
<1>5. CASE FollowsNoVersion
  BY <1>5, Parsed DEF FollowsNoVersion
<1>6. CASE Destroy
  BY <1>6 DEF Destroy
<1>7. CASE Queue
  BY <1>7, Parsed DEF Queue
<1>8. CASE CreateJson
  BY <1>8 DEF CreateJson
<1>9. CASE AddId
  BY <1>9 DEF AddId
<1>10. CASE PrintJson
  BY <1>10 DEF PrintJson
<1>11. CASE Send
  BY <1>11 DEF Send
<1>12. CASE Timeout
  BY <1>12 DEF Timeout
<1>13. CASE Receive
  BY <1>13, Parsed DEF Receive
<1>14. CASE Free
  BY <1>14, Parsed DEF Free
<1>15. CASE FreeError
  BY <1>15, Parsed DEF FreeError
<1>16. CASE UNCHANGED vars
  BY <1>16 DEF vars
<1> QED
  BY <1>1, <1>2, <1>3, <1>4, <1>5, <1>6, <1>7, <1>8, <1>9, <1>10, <1>11, <1>12, <1>13, <1>14, <1>15, <1>16 DEF Next, Websocket, Caller

LEMMA NextKnown == IInv /\ [Next]_vars => Known'
<1> SUFFICES ASSUME IInv, [Next]_vars PROVE Known'
  OBVIOUS
<1> USE DEF IInv, TypeOK, Hands, Allocated, Known, Had, Refusal, receiver, caller, Release, Message, Hand
<1>1. CASE Arrive
  BY <1>1 DEF Arrive
<1>2. CASE ParseNoMemory
  BY <1>2 DEF ParseNoMemory
<1>3. CASE ParseFails
  BY <1>3 DEF ParseFails
<1>4. CASE Parse
  BY <1>4, Parsed DEF Parse
<1>5. CASE FollowsNoVersion
  BY <1>5, Parsed DEF FollowsNoVersion
<1>6. CASE Destroy
  BY <1>6 DEF Destroy
<1>7. CASE Queue
  BY <1>7, Parsed DEF Queue
<1>8. CASE CreateJson
  BY <1>8 DEF CreateJson
<1>9. CASE AddId
  BY <1>9 DEF AddId
<1>10. CASE PrintJson
  BY <1>10 DEF PrintJson
<1>11. CASE Send
  BY <1>11 DEF Send
<1>12. CASE Timeout
  BY <1>12 DEF Timeout
<1>13. CASE Receive
  BY <1>13, Parsed DEF Receive
<1>14. CASE Free
  BY <1>14, Parsed DEF Free
<1>15. CASE FreeError
  BY <1>15, Parsed DEF FreeError
<1>16. CASE UNCHANGED vars
  BY <1>16 DEF vars
<1> QED
  BY <1>1, <1>2, <1>3, <1>4, <1>5, <1>6, <1>7, <1>8, <1>9, <1>10, <1>11, <1>12, <1>13, <1>14, <1>15, <1>16 DEF Next, Websocket, Caller

LEMMA Inductive == Spec => []IInv
<1>1. IInv /\ [Next]_vars => IInv'
  BY NextType, NextHands, NextAllocated, NextKnown DEF IInv
<1> QED
  BY <1>1, InitIInv, PTL DEF Spec

(* Every variable stays in its type. *)
THEOREM TypeCorrect == Spec => []TypeOK
<1>1. IInv => TypeOK
  BY DEF IInv
<1> QED
  BY <1>1, Inductive, PTL

(* In every order of the two tasks' steps and whatever fails, a message is *)
(* allocated exactly while somebody has it, and a call that returned left  *)
(* nothing of its command.                                                 *)
THEOREM NoLeaks == Spec => []NothingLeaks
<1>1. IInv => NothingLeaks
  BY DEF IInv, TypeOK, Allocated, NothingLeaks
<1> QED
  BY <1>1, Inductive, PTL

(* Whatever fails and whichever task goes first, nothing is freed twice    *)
(* but the attribute error of a refusal that the call received.            *)
THEOREM FreesOnce == Spec => []FreedOnce
<1>1. IInv => FreedOnce
  <2> SUFFICES ASSUME IInv PROVE FreedOnce
    OBVIOUS
  <2>1. /\ twice \subseteq {"json_error", "json_error_msg"}
        /\ twice # {} => pc = "returned" /\ place = "gone" /\ Refusal
    BY DEF IInv, Known, Had, Hands
  <2>2. Had /\ msg.success => ~Refusal
    BY Parsed DEF IInv, TypeOK, Hands, Had, Refusal
  <2>3. twice # {} => err = "ESP_FAIL"
    BY <2>1, <2>2 DEF IInv, TypeOK, Known
  <2> QED
    BY <2>1, <2>3 DEF FreedOnce
<1> QED
  BY <1>1, Inductive, PTL

(* The defect: every call that received a refusal with an error and        *)
(* returned has freed it twice, with the message first and then by itself. *)
THEOREM RefusalFreesTwice ==
  Spec => [](pc = "returned" /\ place = "gone" /\ Refusal => twice # {})
<1>1. IInv => (pc = "returned" /\ place = "gone" /\ Refusal => twice # {})
  BY DEF IInv, Known, Had
<1> QED
  BY <1>1, Inductive, PTL

(* A call returns ESP_OK only for a result with success: true, which it    *)
(* destroyed itself.                                                       *)
THEOREM OkIsTrue == Spec => []OkMeansTrue
<1>1. IInv => OkMeansTrue
  BY Parsed DEF IInv, TypeOK, Hands, Known, Had, OkMeansTrue
<1> QED
  BY <1>1, Inductive, PTL

=============================================================================
