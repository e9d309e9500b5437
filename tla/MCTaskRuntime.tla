---------------------------- MODULE MCTaskRuntime ----------------------------
(***************************************************************************)
(* TaskRuntime for TLC.  Workers are interchangeable, and so are           *)
(* maintenance passes; only runs without liveness use the symmetry.        *)
(***************************************************************************)
EXTENDS TaskRuntime, TLC

Symmetry == Permutations(Workers) \cup Permutations(Maintainers) \cup Permutations(Requests)
=============================================================================
