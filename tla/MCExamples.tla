------------------------------ MODULE MCExamples ------------------------------
(***************************************************************************)
(* Both examples on a small instance: one start, as in their code, an      *)
(* event queue of one, two retries of the station.                         *)
(***************************************************************************)
EXTENDS Examples
=============================================================================
