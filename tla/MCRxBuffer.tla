------------------------------ MODULE MCRxBuffer ------------------------------
(***************************************************************************)
(* RxBuffer on small instances.  Nothing tells the messages apart, so that *)
(* the safety runs may use symmetry.                                       *)
(***************************************************************************)
EXTENDS RxBuffer, TLC

Symmetry == Permutations(Msgs)
=============================================================================
