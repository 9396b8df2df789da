---------------------------- MODULE MCClientFids ----------------------------
(***************************************************************************)
(* Instances of ClientFids for TLC.                                        *)
(***************************************************************************)
EXTENDS ClientFids, TLC

CONSTANT a

\* A path of two batches when MaxWElem is 2; its directory takes one.
MCPaths == {<<a, a, a>>}

\* The goroutines are alike.
Symmetry == Permutations(Procs)
=============================================================================
