------------------------------ MODULE MCLifecycle ------------------------------
(***************************************************************************)
(* Lifecycle on a small instance: two starts, an event queue of two.       *)
(***************************************************************************)
EXTENDS Lifecycle
=============================================================================
