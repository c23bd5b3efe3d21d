------------------------- MODULE EventPipelineProofs -------------------------
(***************************************************************************)
(* Proofs about EventPipeline, for any number of messages and any queue    *)
(* lengths: typing, ownership of the heap for any number of source tasks   *)
(* and handlers; for one source task with one prompt handler, their        *)
(* lockstep and that they implement EventChannel, but for its fairness;    *)
(* and that, in a careful use, no event is destroyed unhandled.            *)
(***************************************************************************)
EXTENDS EventRefinement, TLAPS

-----------------------------------------------------------------------------
(* What Append and Tail do to the elements of a queue. *)

LEMMA AppendElems ==
  ASSUME NEW S, NEW q \in Seq(S), NEW e \in S
  PROVE  /\ Append(q, e) \in Seq(S)
         /\ Len(Append(q, e)) = Len(q) + 1
         /\ \A i \in DOMAIN q : Append(q, e)[i] = q[i]
         /\ Append(q, e)[Len(q) + 1] = e
         /\ Elems(Append(q, e)) = Elems(q) \union {e}
  BY DEF Elems

LEMMA TailElems ==
  ASSUME NEW S, NEW q \in Seq(S), q # <<>>
  PROVE  /\ Head(q) = q[1] /\ Head(q) \in S
         /\ 1 \in DOMAIN q
         /\ Tail(q) \in Seq(S)
         /\ Len(Tail(q)) = Len(q) - 1
         /\ \A i \in DOMAIN Tail(q) : i + 1 \in DOMAIN q /\ Tail(q)[i] = q[i + 1]
         /\ Elems(q) = {Head(q)} \union Elems(Tail(q))
<1>1. /\ Head(q) = q[1] /\ Head(q) \in S /\ 1 \in DOMAIN q
      /\ Tail(q) \in Seq(S) /\ Len(Tail(q)) = Len(q) - 1
      /\ \A i \in DOMAIN Tail(q) : i + 1 \in DOMAIN q /\ Tail(q)[i] = q[i + 1]
  OBVIOUS
<1>2. DOMAIN q = 1..Len(q) /\ DOMAIN Tail(q) = 1..(Len(q) - 1) /\ Len(q) \in Nat
  BY <1>1
<1>3. ASSUME NEW e \in Elems(q) PROVE e \in {Head(q)} \union Elems(Tail(q))
  <2>1. PICK i \in DOMAIN q : e = q[i]
    BY <1>3 DEF Elems
  <2>2. CASE i = 1
    BY <1>1, <2>1, <2>2
  <2>3. CASE i # 1
    <3>1. i - 1 \in DOMAIN Tail(q) /\ Tail(q)[i - 1] = q[i]
      BY <1>1, <1>2, <2>1, <2>3
    <3> QED
      BY <2>1, <3>1 DEF Elems
  <2> QED
    BY <2>2, <2>3
<1>4. {Head(q)} \union Elems(Tail(q)) \subseteq Elems(q)
  BY <1>1 DEF Elems
<1> QED
  BY <1>1, <1>3, <1>4

-----------------------------------------------------------------------------
(* The variables keep their types and a source task has a message in hand  *)
(* exactly when its place in the loop says so.                             *)
TypeInv == TypeOK /\ Holding

USE NoMsgAssumption, QueueAssumption, SwitchAssumption, GivingAssumption

LEMMA InitType == Init => TypeInv
  BY DEF Init, TypeInv, TypeOK, Holding, SourcePC

LEMMA NextType == TypeInv /\ [Next]_vars => TypeInv'
<1> SUFFICES ASSUME TypeInv, [Next]_vars PROVE TypeInv'
  OBVIOUS
<1> USE DEF TypeInv, TypeOK, Holding, SourcePC, loopVars, Destroy
<1>1. ASSUME NEW h \in Handlers, Register(h) PROVE TypeInv'
  BY <1>1 DEF Register
<1>2. ASSUME NEW h \in Handlers, HandlerReturn(h) PROVE TypeInv'
  BY <1>2 DEF HandlerReturn
<1>3. ASSUME NEW s \in Sources, ClientStart(s) PROVE TypeInv'
  BY <1>3 DEF ClientStart
<1>4. ASSUME NEW m \in Msgs, WsReceive(m) PROVE TypeInv'
  BY <1>4 DEF WsReceive
<1>5. CASE WsEnqueue
  BY <1>5, AppendElems DEF WsEnqueue
<1>6. CASE WsDrop
  BY <1>6 DEF WsDrop
<1>7. ASSUME NEW s \in Sources, SourceReceive(s) PROVE TypeInv'
  BY <1>7, TailElems DEF SourceReceive
<1>8. ASSUME NEW s \in Sources, SourcePost(s) PROVE TypeInv'
  BY <1>8, AppendElems DEF SourcePost
<1>9. ASSUME NEW s \in Sources, SourcePostFails(s) PROVE TypeInv'
  BY <1>9 DEF SourcePostFails
<1>10. ASSUME NEW s \in Sources, SourceTake(s) PROVE TypeInv'
  BY <1>10 DEF SourceTake
<1>11. ASSUME NEW s \in Sources, SourceTimeout(s) PROVE TypeInv'
  BY <1>11 DEF SourceTimeout
<1>12. ASSUME NEW s \in Sources, SourceDestroy(s) PROVE TypeInv'
  BY <1>12 DEF SourceDestroy
<1>13. CASE LoopDispatch
  BY <1>13, TailElems DEF LoopDispatch
<1>14. CASE UNCHANGED vars
  BY <1>14 DEF vars
<1> QED
  BY <1>1, <1>2, <1>3, <1>4, <1>5, <1>6, <1>7, <1>8, <1>9, <1>10, <1>11,
     <1>12, <1>13, <1>14 DEF Next, SourceStep

(* The variables of the event path keep their types in every behaviour,    *)
(* whatever the numbers of tasks, handlers, messages and queue slots.      *)
THEOREM TypeCorrect == Spec => [](TypeOK /\ Holding)
  BY InitType, NextType, PTL DEF Spec, TypeInv

-----------------------------------------------------------------------------
(* Ownership.  A message changes hands in one step, so it is never in two  *)
(* places; only parsing makes an address live and only its owner's         *)
(* esp_hass_message_destroy() frees it.                                    *)
OwnInv == NoDoubleDestroy /\ (HasEventQueue => NoLeak)

LEMMA InitOwn == Init => OwnInv
  BY DEF Init, OwnInv, NoDoubleDestroy, OneOwner, Owned, NoLeak, Elems

LEMMA NextOwn == TypeInv /\ OwnInv /\ [Next]_vars => OwnInv'
<1> SUFFICES ASSUME TypeInv, OwnInv, [Next]_vars PROVE OwnInv'
  OBVIOUS
<1> USE DEF TypeInv, TypeOK, Holding, OwnInv, NoDoubleDestroy, OneOwner, Owned,
            NoLeak, loopVars, Destroy
(* The steps that move no message keep everything the invariant reads. *)
<1>1. ASSUME UNCHANGED <<heap, rx_msg, event_queue, source_msg>> PROVE OwnInv'
  BY <1>1 DEF Elems
<1>2. ASSUME NEW m \in Msgs, WsReceive(m) PROVE OwnInv'
  <2>1. /\ heap[m] = "free"
        /\ heap' = [heap EXCEPT ![m] = "live"]
        /\ rx_msg = NoMsg /\ rx_msg' = IF HasEventQueue THEN m ELSE NoMsg
        /\ event_queue' = event_queue /\ source_msg' = source_msg
    BY <1>2 DEF WsReceive
  <2>2. m # rx_msg /\ m \notin Elems(event_queue)
          /\ \A t \in Sources : source_msg[t] # m
    BY <2>1
  <2>3. NoMsg \notin Elems(event_queue)
    BY DEF Elems
  <2>4. Elems(event_queue)' = Elems(event_queue)
    BY <2>1 DEF Elems
  <2>5. OneOwner'
    BY <2>1, <2>2, <2>3, <2>4
  <2>6. \A n \in Msgs : n \in Owned' => heap'[n] = "live"
    BY <2>1, <2>2, <2>4
  <2>7. HasEventQueue => \A n \in Msgs : heap'[n] = "live" => n \in Owned'
    BY <2>1, <2>4
  <2> QED
    BY <2>5, <2>6, <2>7
<1>3. CASE WsEnqueue
  <2>1. /\ Elems(event_queue)' = Elems(event_queue) \union {rx_msg}
        /\ event_queue' \in Seq(Msgs)
        /\ Len(event_queue') = Len(event_queue) + 1
        /\ \A i \in DOMAIN event_queue : event_queue'[i] = event_queue[i]
        /\ event_queue'[Len(event_queue) + 1] = rx_msg
    BY <1>3, AppendElems DEF WsEnqueue
  <2>2. \A i, j \in DOMAIN event_queue' :
          event_queue'[i] = event_queue'[j] => i = j
    BY <1>3, <2>1 DEF WsEnqueue, Elems
  <2>3. /\ rx_msg \in Msgs /\ rx_msg' = NoMsg
        /\ heap' = heap /\ source_msg' = source_msg
    BY <1>3 DEF WsEnqueue
  <2>4. NoMsg \notin Elems(event_queue)
    BY DEF Elems
  <2>5. OneOwner'
    BY <2>1, <2>2, <2>3, <2>4
  <2>6. \A n \in Msgs : n \in Owned' <=> n \in Owned
    BY <2>1, <2>3
  <2> QED
    BY <2>3, <2>5, <2>6
<1>4. CASE WsDrop
  <2>1. /\ rx_msg \in Msgs /\ rx_msg' = NoMsg
        /\ heap' = [heap EXCEPT ![rx_msg] = "free"]
        /\ event_queue' = event_queue /\ source_msg' = source_msg
    BY <1>4 DEF WsDrop
  <2>2. NoMsg \notin Elems(event_queue)
    BY DEF Elems
  <2>3. Elems(event_queue)' = Elems(event_queue)
    BY <2>1 DEF Elems
  <2>4. OneOwner'
    BY <2>1, <2>2, <2>3
  <2>5. \A n \in Msgs : n \in Owned' <=> n \in Owned /\ n # rx_msg
    BY <2>1, <2>3
  <2> QED
    BY <2>1, <2>4, <2>5
<1>5. ASSUME NEW s \in Sources, SourceReceive(s) PROVE OwnInv'
  <2> DEFINE m == Head(event_queue)
  <2>1. /\ m = event_queue[1] /\ m \in Msgs /\ 1 \in DOMAIN event_queue
        /\ event_queue' \in Seq(Msgs)
        /\ \A i \in DOMAIN event_queue' :
             i + 1 \in DOMAIN event_queue /\ event_queue'[i] = event_queue[i + 1]
        /\ Elems(event_queue) = {m} \union Elems(event_queue')
    BY <1>5, TailElems DEF SourceReceive
  <2>2. m \notin Elems(event_queue')
    BY <2>1 DEF Elems
  <2>3. source_msg[s] = NoMsg /\ source_msg' = [source_msg EXCEPT ![s] = m]
    BY <1>5 DEF SourceReceive
  <2>4. \A i, j \in DOMAIN event_queue' :
          event_queue'[i] = event_queue'[j] => i = j
    BY <2>1
  <2>5. heap' = heap /\ rx_msg' = rx_msg
    BY <1>5 DEF SourceReceive
  <2> HIDE DEF m
  <2> QED
    BY <2>1, <2>2, <2>3, <2>4, <2>5
<1>6. ASSUME NEW s \in Sources, SourceDestroy(s) PROVE OwnInv'
  BY <1>6 DEF SourceDestroy, Elems
<1>7. ASSUME NEW h \in Handlers, Register(h) \/ HandlerReturn(h) PROVE OwnInv'
  BY <1>1, <1>7 DEF Register, HandlerReturn
<1>8. ASSUME NEW s \in Sources,
             \/ ClientStart(s) \/ SourcePost(s) \/ SourcePostFails(s)
             \/ SourceTake(s) \/ SourceTimeout(s)
      PROVE  OwnInv'
  BY <1>1, <1>8
     DEF ClientStart, SourcePost, SourcePostFails, SourceTake, SourceTimeout
<1>9. CASE LoopDispatch
  BY <1>1, <1>9 DEF LoopDispatch
<1>10. CASE UNCHANGED vars
  BY <1>1, <1>10 DEF vars
<1> QED
  BY <1>2, <1>3, <1>4, <1>5, <1>6, <1>7, <1>8, <1>9, <1>10 DEF Next, SourceStep

(* No message is ever in two hands, or freed while in somebody's hands,    *)
(* whoever is slow and whatever fails.                                     *)
THEOREM SingleOwner == Spec => []NoDoubleDestroy
<1>1. TypeInv /\ OwnInv /\ [Next]_vars => (TypeInv /\ OwnInv)'
  BY NextType, NextOwn
<1> QED
  BY <1>1, InitType, InitOwn, PTL DEF Spec, OwnInv

(* For any number of source tasks, handlers and messages, slow or prompt,  *)
(* with posts that fail and queues that overflow: a live message is in the *)
(* hands of exactly one of the websocket task, the event queue and the     *)
(* source tasks, and without one only when the client has no event queue.  *)
THEOREM Ownership == Spec => [](NoDoubleDestroy /\ (HasEventQueue => NoLeak))
<1>1. TypeInv /\ OwnInv /\ [Next]_vars => (TypeInv /\ OwnInv)'
  BY NextType, NextOwn
<1> QED
  BY <1>1, InitType, InitOwn, PTL DEF Spec, OwnInv

-----------------------------------------------------------------------------
(* Lockstep.  The documented use of the client: it was started once, one   *)
(* handler is registered, and the handler returns before the take times    *)
(* out.                                                                    *)
DocumentedUse ==
  /\ Prompt
  /\ \E s : Sources = {s}
  /\ \A g, h \in Handlers : g = h

StepInv == TypeInv /\ NoDoubleDestroy /\ InStep

LEMMA InitStep == Init => InStep
  BY DEF Init, InStep

(* A singleton queue: after a post onto the empty loop queue, and before   *)
(* the loop takes its only event.                                          *)
LEMMA Singleton ==
  ASSUME NEW S, NEW e \in S
  PROVE  /\ Append(<<>>, e) = <<e>>
         /\ Head(<<e>>) = e
         /\ Tail(<<e>>) = <<>>
         /\ <<e>> # <<>>
         /\ e \in Elems(<<e>>)
  BY DEF Elems

LEMMA NextStep == DocumentedUse /\ StepInv /\ [Next]_vars => InStep'
<1> SUFFICES ASSUME DocumentedUse, StepInv, [Next]_vars PROVE InStep'
  OBVIOUS
<1>s. PICK s : Sources = {s}
  BY DEF DocumentedUse
<1> USE DEF StepInv, TypeInv, TypeOK, Holding, InStep, SourcePC, loopVars
<1>1. ASSUME NEW h \in Handlers, HandlerReturn(h) PROVE InStep'
  <2>1. todo = {h}
    BY <1>1 DEF HandlerReturn, DocumentedUse
  <2>2. /\ loop_msg = source_msg[s] /\ message_semaphore = 0
        /\ source[s] = "take" /\ loop_queue = <<>>
    BY <1>s, <2>1
  <2> QED
    BY <1>1, <1>s, <2>1, <2>2 DEF HandlerReturn
<1>2. ASSUME NEW t \in Sources, ClientStart(t) PROVE InStep'
  BY <1>2, <1>s DEF ClientStart
<1>3. ASSUME NEW m \in Msgs, WsReceive(m) PROVE InStep'
  <2>1. source_msg[s] # m
    BY <1>3, <1>s DEF WsReceive, NoDoubleDestroy, Owned
  <2> QED
    BY <1>3, <1>s, <2>1 DEF WsReceive
<1>4. ASSUME NEW t \in Sources, SourceReceive(t) PROVE InStep'
  <2>1. source[s] = "receive" /\ loop_queue = <<>> /\ todo = {}
          /\ message_semaphore = 0
    BY <1>4, <1>s DEF SourceReceive
  <2> QED
    BY <1>4, <1>s, <2>1 DEF SourceReceive
<1>5. ASSUME NEW t \in Sources, SourcePost(t) PROVE InStep'
  <2>1. /\ source[s] = "post" /\ loop_queue = <<>> /\ todo = {}
        /\ message_semaphore = 0 /\ source_msg[s] \in Msgs
    BY <1>5, <1>s DEF SourcePost
  <2>2. loop_queue' = <<source_msg[s]>>
    BY <1>5, <1>s, <2>1, Singleton DEF SourcePost
  <2> QED
    BY <1>5, <1>s, <2>1, <2>2 DEF SourcePost
<1>6. ASSUME NEW t \in Sources, SourcePostFails(t) PROVE InStep'
  BY <1>6, <1>s DEF SourcePostFails
<1>7. ASSUME NEW t \in Sources, SourceTake(t) PROVE InStep'
  BY <1>7, <1>s DEF SourceTake
<1>8. ASSUME NEW t \in Sources, SourceTimeout(t) PROVE InStep'
  <2>1. ~InLoop(source_msg[s]) /\ source_msg[s] \in Msgs /\ source[s] = "take"
    BY <1>8, <1>s DEF SourceTimeout, DocumentedUse
  <2>2. todo = {}
    BY <1>s, <2>1 DEF InLoop
  <2>3. loop_queue = <<>>
    BY <1>s, <2>1, Singleton DEF InLoop
  <2> QED
    BY <1>8, <1>s, <2>1, <2>2, <2>3 DEF SourceTimeout
<1>9. ASSUME NEW t \in Sources, SourceDestroy(t) PROVE InStep'
  BY <1>9, <1>s DEF SourceDestroy, Destroy
<1>10. CASE LoopDispatch
  <2>1. /\ source[s] = "take" /\ loop_queue = <<source_msg[s]>>
        /\ message_semaphore = 0 /\ source_msg[s] \in Msgs
    BY <1>10, <1>s DEF LoopDispatch
  <2>2. loop_queue' = <<>> /\ (todo' # {} => loop_msg' = source_msg[s])
    BY <1>10, <2>1, Singleton DEF LoopDispatch
  <2> QED
    BY <1>10, <1>s, <2>1, <2>2 DEF LoopDispatch
<1>11. ASSUME NEW h \in Handlers, Register(h) PROVE InStep'
  BY <1>11, <1>s DEF Register
<1>12. CASE WsEnqueue \/ WsDrop
  BY <1>12, <1>s DEF WsEnqueue, WsDrop
<1>13. CASE UNCHANGED vars
  BY <1>13, <1>s DEF vars
<1> QED
  BY <1>1, <1>2, <1>3, <1>4, <1>5, <1>6, <1>7, <1>8, <1>9, <1>10, <1>11,
     <1>12, <1>13 DEF Next, SourceStep

LEMMA StepInvariant == ASSUME DocumentedUse PROVE Spec => []StepInv
<1>1. StepInv /\ OwnInv /\ [Next]_vars => (StepInv /\ OwnInv)'
  BY NextType, NextOwn, NextStep DEF StepInv, OwnInv
<1>2. Init => StepInv /\ OwnInv
  BY InitType, InitOwn, InitStep DEF StepInv, OwnInv
<1> QED
  BY <1>1, <1>2, PTL DEF Spec

(* In the documented use the wait for the semaphore keeps the source task, *)
(* the loop and the handler in step, for any numbers and lengths.          *)
THEOREM Lockstep == ASSUME DocumentedUse PROVE Spec => []InStep
<1>1. StepInv => InStep
  BY DEF StepInv
<1> QED
  BY <1>1, StepInvariant, PTL

(* In the documented use, for any number of messages and any queue         *)
(* lengths, no handler ever runs on a message that was destroyed.          *)
THEOREM HandlerSafety ==
  ASSUME DocumentedUse PROVE Spec => []HandlerReadsLive
<1>1. StepInv => HandlerReadsLive
  <2> SUFFICES ASSUME StepInv, todo # {} PROVE HandlerReadsLive
    BY DEF HandlerReadsLive
  <2>1. PICK s \in Sources : loop_msg = source_msg[s]
    BY DEF StepInv, InStep, DocumentedUse
  <2>2. loop_msg \in Msgs /\ loop_msg \in Owned
    BY <2>1 DEF StepInv, TypeInv, TypeOK, Owned
  <2> QED
    BY <2>1, <2>2 DEF HandlerReadsLive, StepInv, NoDoubleDestroy
<1>2. Spec => []StepInv
  BY StepInvariant
<1> QED
  BY <1>1, <1>2, PTL

(* In the documented use a token taken from the semaphore is always the    *)
(* answer to the message the source task posted, never one left over from  *)
(* an earlier message.                                                     *)
THEOREM TokenSafety ==
  ASSUME DocumentedUse PROVE Spec => TokenIsForThisMessage
<1>1. StepInv /\ [Next]_vars
        => [\A s \in Sources : SourceTake(s) => source_msg[s] \in handled]_vars
  BY DEF StepInv, InStep, SourceTake
<1>2. Spec => []StepInv
  BY StepInvariant
<1> QED
  BY <1>1, <1>2, PTL DEF Spec, TokenIsForThisMessage

-----------------------------------------------------------------------------
(* The state function of the mapping, for the one source task.             *)
LEMMA Mapping ==
  ASSUME NEW s, Sources = {s}
  PROVE  /\ channel_current = source_msg[s]
         /\ channel_phase = IF source_msg[s] = NoMsg THEN "idle"
                            ELSE IF todo # {} THEN "reading"
                            ELSE IF source_msg[s] \in handled THEN "read"
                            ELSE "handed"
<1>1. CASE source_msg[s] = NoMsg
  <2>1. Busy = {}
    BY <1>1 DEF Busy
  <2> QED
    BY <1>1, <2>1 DEF channel_current, channel_phase
<1>2. CASE source_msg[s] # NoMsg
  <2>1. Busy = {s} /\ Busy # {}
    BY <1>2 DEF Busy
  <2>2. channel_current = source_msg[s]
    BY <2>1 DEF channel_current
  <2> QED
    BY <1>2, <2>1, <2>2 DEF channel_phase
<1> QED
  BY <1>1, <1>2

(* Whoever has not been with the loop yet is not marked as handled, though *)
(* its address was used before.                                            *)
Fresh ==
  /\ rx_msg \notin handled
  /\ Elems(event_queue) \intersect handled = {}
  /\ \A s \in Sources :
       source[s] = "post" \/ loop_queue # <<>> => source_msg[s] \notin handled

ChannelInv == StepInv /\ Fresh

LEMMA InitFresh == Init => Fresh
  BY DEF Init, Fresh, Elems

LEMMA NextFresh == DocumentedUse /\ ChannelInv /\ [Next]_vars => Fresh'
<1> SUFFICES ASSUME DocumentedUse, ChannelInv, [Next]_vars PROVE Fresh'
  OBVIOUS
<1>s. PICK s : Sources = {s}
  BY DEF DocumentedUse
<1> USE NoMsgAssumption
<1> USE DEF ChannelInv, StepInv, TypeInv, TypeOK, Holding, Fresh, loopVars
<1>1. ASSUME NEW h \in Handlers, HandlerReturn(h) PROVE Fresh'
  <2>1. todo = {h} /\ loop_msg = source_msg[s] /\ loop_queue = <<>>
    BY <1>1, <1>s DEF HandlerReturn, DocumentedUse, InStep
  <2>2. /\ source[s] = "take" /\ loop_msg # NoMsg
        /\ handled' = handled \union {source_msg[s]}
    BY <1>1, <1>s, <2>1 DEF HandlerReturn, InStep
  <2>3. source_msg[s] # rx_msg /\ source_msg[s] \notin Elems(event_queue)
    BY <1>s, <2>1, <2>2 DEF NoDoubleDestroy, OneOwner
  <2> QED
    BY <1>1, <1>s, <2>1, <2>2, <2>3 DEF HandlerReturn
<1>2. ASSUME NEW m \in Msgs, WsReceive(m) PROVE Fresh'
  BY <1>2, <1>s DEF WsReceive
<1>3. CASE WsEnqueue
  <2>1. /\ Elems(event_queue)' = Elems(event_queue) \union {rx_msg}
        /\ rx_msg' = NoMsg /\ handled' = handled
    BY <1>3, AppendElems DEF WsEnqueue
  <2> QED
    BY <1>3, <2>1 DEF WsEnqueue
<1>4. CASE WsDrop
  BY <1>4 DEF WsDrop, Elems
<1>5. ASSUME NEW t \in Sources, SourceReceive(t) PROVE Fresh'
  <2>1. /\ Head(event_queue) \in Elems(event_queue)
        /\ Elems(event_queue') \subseteq Elems(event_queue)
    BY <1>5, TailElems DEF SourceReceive
  <2>2. loop_queue = <<>>
    BY <1>5, <1>s DEF SourceReceive, InStep
  <2> QED
    BY <1>5, <1>s, <2>1, <2>2 DEF SourceReceive
<1>6. ASSUME NEW t \in Sources, SourcePost(t) PROVE Fresh'
  BY <1>6, <1>s DEF SourcePost, Elems
<1>7. ASSUME NEW t \in Sources,
             \/ ClientStart(t) \/ SourcePostFails(t)
             \/ SourceTake(t) \/ SourceTimeout(t) \/ SourceDestroy(t)
      PROVE  Fresh'
  <2>1. /\ UNCHANGED <<rx_msg, event_queue, loop_queue, handled>>
        /\ source'[s] # "post"
        /\ loop_queue # <<>> => source_msg'[s] = source_msg[s]
    BY <1>7, <1>s
       DEF ClientStart, SourcePostFails, SourceTake, SourceTimeout,
           SourceDestroy, SourcePC, InStep
  <2> QED
    BY <1>s, <2>1 DEF Elems
<1>8. CASE LoopDispatch
  <2>1. loop_queue' = <<>>
    BY <1>8, <1>s, Singleton DEF LoopDispatch, InStep
  <2> QED
    BY <1>8, <1>s, <2>1 DEF LoopDispatch, Elems
<1>9. ASSUME NEW h \in Handlers, Register(h) PROVE Fresh'
  BY <1>9 DEF Register, Elems
<1>10. CASE UNCHANGED vars
  BY <1>10 DEF vars, Elems
<1> QED
  BY <1>1, <1>2, <1>3, <1>4, <1>5, <1>6, <1>7, <1>8, <1>9, <1>10
     DEF Next, SourceStep

LEMMA ChannelInvariant == ASSUME DocumentedUse PROVE Spec => []ChannelInv
<1>1. ChannelInv /\ [Next]_vars /\ StepInv' => ChannelInv'
  BY NextFresh DEF ChannelInv
<1>2. Init => Fresh
  BY InitFresh
<1>3. ChannelInv <=> StepInv /\ Fresh
  BY DEF ChannelInv
<1> QED
  BY <1>1, <1>2, <1>3, StepInvariant, PTL DEF Spec

-----------------------------------------------------------------------------
(* The step simulation.  With one source task and its message at hand, the *)
(* channel's phase is read off that task.                                  *)

LEMMA MapsInit == DocumentedUse /\ Init => Channel!Init
<1> SUFFICES ASSUME DocumentedUse, Init PROVE Channel!Init
  OBVIOUS
<1>s. PICK s : Sources = {s}
  BY DEF DocumentedUse
<1> QED
  BY <1>s, Mapping DEF Init, Channel!Init

LEMMA MapsNext ==
  DocumentedUse /\ ChannelInv /\ ChannelInv' /\ [Next]_vars
    => [Channel!Next]_(Channel!vars)
<1> SUFFICES ASSUME DocumentedUse, ChannelInv, ChannelInv', [Next]_vars
             PROVE  [Channel!Next]_(Channel!vars)
  OBVIOUS
<1>s. PICK s : Sources = {s}
  BY DEF DocumentedUse
<1>m. /\ channel_current = source_msg[s]
      /\ channel_phase = IF source_msg[s] = NoMsg THEN "idle"
                         ELSE IF todo # {} THEN "reading"
                         ELSE IF source_msg[s] \in handled THEN "read"
                         ELSE "handed"
  BY <1>s, Mapping
<1>p. /\ channel_current' = source_msg'[s]
      /\ channel_phase' = IF source_msg'[s] = NoMsg THEN "idle"
                          ELSE IF todo' # {} THEN "reading"
                          ELSE IF source_msg'[s] \in handled' THEN "read"
                          ELSE "handed"
  <2>1. Busy' = {t \in Sources : source_msg'[t] # NoMsg}
    BY DEF Busy
  <2>2. CASE source_msg'[s] = NoMsg
    <3>1. Busy' = {}
      BY <1>s, <2>1, <2>2
    <3> QED
      BY <2>2, <3>1 DEF channel_current, channel_phase
  <2>3. CASE source_msg'[s] # NoMsg
    <3>1. Busy' = {s} /\ Busy' # {}
      BY <1>s, <2>1, <2>3
    <3>2. channel_current' = source_msg'[s]
      BY <3>1 DEF channel_current
    <3> QED
      BY <2>3, <3>1, <3>2 DEF channel_phase
  <2> QED
    BY <2>2, <2>3
<1> USE DEF ChannelInv, StepInv, TypeInv, TypeOK, Holding, InStep, loopVars
(* The steps the channel does not see. *)
<1>0. ASSUME UNCHANGED <<event_queue, source_msg, todo>>,
             source_msg[s] # NoMsg =>
               (source_msg[s] \in handled' <=> source_msg[s] \in handled)
      PROVE  UNCHANGED Channel!vars
  BY <1>0, <1>m, <1>p DEF Channel!vars
<1>1. ASSUME NEW h \in Handlers, HandlerReturn(h) PROVE Channel!Next
  <2>0. h \in todo /\ todo = {h}
    BY <1>1 DEF HandlerReturn, DocumentedUse
  <2>1. todo = {h} /\ loop_msg = source_msg[s]
    BY <1>s, <2>0
  <2>2. /\ source_msg[s] # NoMsg /\ source_msg' = source_msg
        /\ todo' = {} /\ event_queue' = event_queue
        /\ source_msg[s] \in handled'
    BY <1>1, <2>1 DEF HandlerReturn
  <2>3. Channel!EndRead
    BY <1>m, <1>p, <2>1, <2>2 DEF Channel!EndRead
  <2> QED
    BY <2>3 DEF Channel!Next
<1>2. CASE WsEnqueue
  <2>1. /\ rx_msg \in Msgs /\ rx_msg # source_msg[s]
        /\ rx_msg \notin Elems(event_queue)
        /\ event_queue' = Append(event_queue, rx_msg)
        /\ Len(event_queue) < EventQueueLen
    BY <1>2, <1>s DEF WsEnqueue, NoDoubleDestroy, OneOwner
  <2>2. UNCHANGED <<channel_current, channel_phase>>
    BY <1>2, <1>m, <1>p DEF WsEnqueue
  <2>3. Channel!Accept(rx_msg)
    BY <1>m, <2>1, <2>2 DEF Channel!Accept, Elems
  <2> QED
    BY <2>1, <2>3 DEF Channel!Next
<1>3. ASSUME NEW t \in Sources, SourceReceive(t) PROVE Channel!Next
  <2>1. t = s
    BY <1>s
  <2>2. /\ source_msg[s] = NoMsg /\ event_queue # <<>> /\ todo = {}
        /\ todo' = {}
        /\ source_msg'[s] = Head(event_queue)
        /\ event_queue' = Tail(event_queue)
    BY <1>3, <1>s, <2>1 DEF SourceReceive
  <2>3. source_msg'[s] # NoMsg /\ source_msg'[s] \notin handled'
    <3>1. source_msg'[s] \in Msgs
      BY <2>2, TailElems
    <3>2. source'[s] = "post"
      BY <1>3, <2>1 DEF SourceReceive
    <3> QED
      BY <1>s, <3>1, <3>2 DEF Fresh
  <2>4. Channel!Hand
    BY <1>m, <1>p, <2>2, <2>3 DEF Channel!Hand
  <2> QED
    BY <2>4 DEF Channel!Next
<1>4. ASSUME NEW t \in Sources, SourceDestroy(t) PROVE Channel!Next
  <2>1. t = s
    BY <1>s
  <2>2. /\ source_msg[s] # NoMsg /\ source_msg'[s] = NoMsg /\ todo = {}
        /\ event_queue' = event_queue
    BY <1>4, <1>s, <2>1 DEF SourceDestroy
  <2>3. Channel!Reclaim
    BY <1>m, <1>p, <2>2 DEF Channel!Reclaim
  <2> QED
    BY <2>3 DEF Channel!Next
<1>5. CASE LoopDispatch
  <2>1. /\ todo = {} /\ loop_queue # <<>> /\ todo' = registered
        /\ UNCHANGED <<event_queue, source_msg, handled>>
    BY <1>5 DEF LoopDispatch
  <2>2. source_msg[s] # NoMsg /\ source_msg[s] \notin handled
    BY <1>s, <2>1 DEF Fresh
  <2>3. CASE registered = {}
    BY <1>0, <2>1, <2>3
  <2>4. CASE registered # {}
    <3>1. Channel!BeginRead
      BY <1>m, <1>p, <2>1, <2>2, <2>4 DEF Channel!BeginRead
    <3> QED
      BY <3>1 DEF Channel!Next
  <2> QED
    BY <2>3, <2>4
<1>6. ASSUME NEW m \in Msgs, WsReceive(m) PROVE UNCHANGED Channel!vars
  <2>1. source_msg[s] # m
    BY <1>6, <1>s DEF WsReceive, NoDoubleDestroy, Owned
  <2> QED
    BY <1>0, <1>6, <2>1 DEF WsReceive
<1>7. ASSUME NEW t \in Sources,
             \/ ClientStart(t) \/ SourcePost(t) \/ SourcePostFails(t)
             \/ SourceTake(t) \/ SourceTimeout(t)
      PROVE  UNCHANGED Channel!vars
  BY <1>0, <1>7
     DEF ClientStart, SourcePost, SourcePostFails, SourceTake, SourceTimeout
<1>8. ASSUME NEW h \in Handlers, Register(h) PROVE UNCHANGED Channel!vars
  BY <1>0, <1>8 DEF Register
<1>9. CASE WsDrop
  BY <1>0, <1>9 DEF WsDrop
<1>10. CASE UNCHANGED vars
  BY <1>0, <1>10 DEF vars
<1> QED
  BY <1>1, <1>2, <1>3, <1>4, <1>5, <1>6, <1>7, <1>8, <1>9, <1>10
     DEF Next, SourceStep

(* In the documented use, for any number of messages and any queue         *)
(* lengths, the queue, the source task, the event loop and the semaphore   *)
(* together take no step the channel could not take: events come out in    *)
(* the order they were accepted, one at a time, and none is reclaimed      *)
(* while it is read.                                                       *)
THEOREM ImplementsChannelSteps ==
  ASSUME DocumentedUse PROVE Spec => ChannelSteps
<1>1. Init => Channel!Init
  BY MapsInit
<1>2. ChannelInv /\ ChannelInv' /\ [Next]_vars => [Channel!Next]_(Channel!vars)
  BY MapsNext
<1> QED
  BY <1>1, <1>2, ChannelInvariant, PTL DEF Spec, ChannelSteps

-----------------------------------------------------------------------------
(* No event is lost on the way.  The use the header asks for: handlers are *)
(* registered before an event can come, the handler gives the semaphore    *)
(* when it is done, and the post to the loop does not fail.                *)
CarefulUse ==
  /\ DocumentedUse
  /\ RegisterFirst
  /\ Handlers # {} /\ Giving = Handlers
  /\ ~PostMayFail

(* A message that is under way has its handler, the token is there once    *)
(* the handler returned, and so the source task leaves xSemaphoreTake()    *)
(* with it.                                                                *)
Delivered ==
  /\ rx_msg # NoMsg \/ event_queue # <<>> \/ (\E s \in Sources : source_msg[s] # NoMsg)
       => registered = Handlers
  /\ \A s \in Sources :
       /\ source[s] = "take" /\ loop_queue = <<>> /\ todo = {}
            => message_semaphore = 1
       /\ source[s] = "destroy" => source_msg[s] \in handled

LEMMA InitDelivered == Init => Delivered
  BY DEF Init, Delivered

LEMMA NextDelivered ==
  CarefulUse /\ StepInv /\ Delivered /\ [Next]_vars => Delivered'
<1> SUFFICES ASSUME CarefulUse, StepInv, Delivered, [Next]_vars
             PROVE  Delivered'
  OBVIOUS
<1>s. PICK s : Sources = {s}
  BY DEF CarefulUse, DocumentedUse
<1> USE DEF CarefulUse, StepInv, TypeInv, TypeOK, Holding, InStep, SourcePC,
            Delivered, loopVars
<1>1. ASSUME NEW h \in Handlers, HandlerReturn(h) PROVE Delivered'
  <2>1. todo = {h} /\ h \in Giving
    BY <1>1 DEF HandlerReturn, DocumentedUse
  <2> QED
    BY <1>1, <1>s, <2>1 DEF HandlerReturn
<1>2. ASSUME NEW m \in Msgs, WsReceive(m) PROVE Delivered'
  <2>1. source_msg[s] # m
    BY <1>2, <1>s DEF WsReceive, NoDoubleDestroy, Owned
  <2> QED
    BY <1>2, <1>s, <2>1 DEF WsReceive
<1>3. CASE WsEnqueue \/ WsDrop
  BY <1>3, <1>s DEF WsEnqueue, WsDrop
<1>4. ASSUME NEW t \in Sources, SourceReceive(t) PROVE Delivered'
  BY <1>4, <1>s DEF SourceReceive
<1>5. ASSUME NEW t \in Sources, SourcePost(t) PROVE Delivered'
  <2>1. t = s /\ source_msg[s] \in Msgs /\ loop_queue = <<>>
    BY <1>5, <1>s DEF SourcePost
  <2>2. loop_queue' # <<>>
    BY <1>5, <2>1, Singleton DEF SourcePost
  <2> QED
    BY <1>5, <1>s, <2>1, <2>2 DEF SourcePost
<1>6. ASSUME NEW t \in Sources, SourceTake(t) PROVE Delivered'
  BY <1>6, <1>s DEF SourceTake
<1>7. ASSUME NEW t \in Sources, SourceTimeout(t) PROVE FALSE
  <2>1. /\ ~InLoop(source_msg[s]) /\ source_msg[s] \in Msgs
        /\ source[s] = "take" /\ message_semaphore = 0
    BY <1>7, <1>s DEF SourceTimeout, DocumentedUse
  <2>2. todo = {}
    BY <1>s, <2>1 DEF InLoop
  <2>3. loop_queue = <<>>
    BY <1>s, <2>1, Singleton DEF InLoop
  <2> QED
    BY <1>s, <2>1, <2>2, <2>3
<1>8. ASSUME NEW t \in Sources, SourceDestroy(t) PROVE Delivered'
  BY <1>8, <1>s DEF SourceDestroy
<1>9. CASE LoopDispatch
  <2>1. /\ source[s] = "take" /\ source_msg[s] # NoMsg
        /\ todo' = registered
    BY <1>9, <1>s DEF LoopDispatch
  <2>2. todo' # {}
    BY <1>s, <2>1
  <2> QED
    BY <1>9, <1>s, <2>1, <2>2 DEF LoopDispatch
<1>10. ASSUME NEW h \in Handlers, Register(h) PROVE Delivered'
  BY <1>10, <1>s DEF Register
<1>11. ASSUME NEW t \in Sources, ClientStart(t) PROVE Delivered'
  BY <1>11, <1>s DEF ClientStart
<1>12. ASSUME NEW t \in Sources, SourcePostFails(t) PROVE FALSE
  BY <1>12 DEF SourcePostFails
<1>13. CASE UNCHANGED vars
  BY <1>13, <1>s DEF vars
<1> QED
  BY <1>1, <1>2, <1>3, <1>4, <1>5, <1>6, <1>7, <1>8, <1>9, <1>10, <1>11,
     <1>12, <1>13 DEF Next, SourceStep

(* In the careful use every event the queue accepted was with its handler  *)
(* before the source task destroys it, for any number of messages and any  *)
(* queue lengths.                                                          *)
THEOREM NoEventSkipped == ASSUME CarefulUse PROVE Spec => HandledBeforeDestroyed
<1>1. Spec => []StepInv
  BY StepInvariant DEF CarefulUse
<1>2. StepInv /\ Delivered /\ [Next]_vars => Delivered'
  BY NextDelivered
<1>3. Delivered /\ [Next]_vars
        => [\A s \in Sources : SourceDestroy(s) => source_msg[s] \in handled]_vars
  BY DEF Delivered, SourceDestroy
<1> QED
  BY <1>1, <1>2, <1>3, InitDelivered, PTL DEF Spec, HandledBeforeDestroyed

=============================================================================
