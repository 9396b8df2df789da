----------------------------- MODULE MCCallMux -----------------------------
(***************************************************************************)
(* Instances of CallMux for TLC.                                           *)
(***************************************************************************)
EXTENDS CallMux, TLC

Symmetry == Permutations(Calls)
=============================================================================
