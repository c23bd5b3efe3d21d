---------------------------- MODULE MCServiceCall ----------------------------
(***************************************************************************)
(* ServiceCall has no constants: the run is exhaustive.                    *)
(***************************************************************************)
EXTENDS ServiceCall
=============================================================================
