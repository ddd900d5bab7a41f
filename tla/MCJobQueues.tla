---------------------------- MODULE MCJobQueues ----------------------------
(***************************************************************************)
(* JobQueues for TLC.                                                      *)
(***************************************************************************)
EXTENDS JobQueues

\* -3600 in the code; any negative number behaves alike
MCBasePriority == -1

Symmetry == Permutations(Job)
=============================================================================
