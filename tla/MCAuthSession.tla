---------------------------- MODULE MCAuthSession ----------------------------
(***************************************************************************)
(* AuthSession on small instances: the .cfg files choose how often the     *)
(* client connects and whether allocations and sends fail.                 *)
(***************************************************************************)
EXTENDS AuthSession
=============================================================================
