---------------------------- MODULE EventRefinement ----------------------------
(***************************************************************************)
(* EventPipeline as an EventChannel: which message the source task has in  *)
(* hand, and how far the loop and the handler are with it.                 *)
(***************************************************************************)
EXTENDS EventPipeline

(* The source task that holds a message, when there is one. *)
Busy == {s \in Sources : source_msg[s] # NoMsg}

channel_current ==
  IF Busy = {} THEN NoMsg ELSE source_msg[CHOOSE s \in Busy : TRUE]

channel_phase ==
  CASE Busy = {} -> "idle"
    [] Busy # {} /\ todo # {} -> "reading"
    [] Busy # {} /\ todo = {} /\ channel_current \in handled -> "read"
    [] Busy # {} /\ todo = {} /\ channel_current \notin handled -> "handed"

Channel == INSTANCE EventChannel
  WITH Msgs <- Msgs, Capacity <- EventQueueLen, NoMsg <- NoMsg,
       pending <- event_queue, current <- channel_current,
       phase <- channel_phase

(* The queue, the source task, the event loop and the semaphore together   *)
(* are a channel that hands over one event at a time, in order, and        *)
(* reclaims it only when no handler reads it.                              *)
ImplementsChannel == Channel!Spec

(* The channel without its fairness.                                       *)
ChannelSteps == Channel!Init /\ [][Channel!Next]_(Channel!vars)

=============================================================================
