--------------------------- MODULE MCEventPipeline ---------------------------
(***************************************************************************)
(* EventPipeline on small instances, and the abstract channel it           *)
(* implements when one source task runs and its one handler is prompt.     *)
(***************************************************************************)
EXTENDS EventRefinement
=============================================================================
