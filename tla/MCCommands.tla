------------------------------ MODULE MCCommands ------------------------------
(***************************************************************************)
(* Commands on small instances: the .cfg files choose the callers, which   *)
(* of them time out, and whether the connection loses messages.            *)
(***************************************************************************)
EXTENDS Commands
=============================================================================
