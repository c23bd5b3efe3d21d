----------------------------- MODULE EventChannel -----------------------------
(***************************************************************************)
(* What the event path promises the application, without tasks, event loop *)
(* or semaphore: events are accepted in order or refused on arrival, one   *)
(* at a time is handed over, a handler may read the one handed over, and   *)
(* only a message that is not being read is reclaimed.                     *)
(***************************************************************************)
EXTENDS Sequences, Naturals

CONSTANTS
  Msgs,      \* messages
  Capacity,  \* how many accepted messages may wait
  NoMsg      \* no message handed over

VARIABLES
  pending,   \* accepted messages, oldest first
  current,   \* the message handed over
  phase      \* what became of it

vars == <<pending, current, phase>>

Init == pending = <<>> /\ current = NoMsg /\ phase = "idle"

Accept(m) ==
  /\ m # current
  /\ \A i \in DOMAIN pending : pending[i] # m
  /\ Len(pending) < Capacity
  /\ pending' = Append(pending, m)
  /\ UNCHANGED <<current, phase>>

Hand ==
  /\ phase = "idle"
  /\ pending # <<>>
  /\ current' = Head(pending)
  /\ pending' = Tail(pending)
  /\ phase' = "handed"

BeginRead ==
  /\ phase = "handed"
  /\ phase' = "reading"
  /\ UNCHANGED <<pending, current>>

EndRead ==
  /\ phase = "reading"
  /\ phase' = "read"
  /\ UNCHANGED <<pending, current>>

Reclaim ==
  /\ phase \in {"handed", "read"}
  /\ current' = NoMsg
  /\ phase' = "idle"
  /\ UNCHANGED pending

Next == (\E m \in Msgs : Accept(m)) \/ Hand \/ BeginRead \/ EndRead \/ Reclaim

(* What was accepted is handed over, and what was handed over is reclaimed. *)
Spec == Init /\ [][Next]_vars
          /\ WF_vars(Hand) /\ WF_vars(EndRead) /\ WF_vars(Reclaim)
=============================================================================
