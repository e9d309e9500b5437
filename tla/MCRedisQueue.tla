---------------------------- MODULE MCRedisQueue ----------------------------
(***************************************************************************)
(* The queue and its callers for TLC: tasks and workers are                *)
(* interchangeable.                                                        *)
(***************************************************************************)
EXTENDS QueueClients, TLC

Symmetry == Permutations(Tasks) \cup Permutations(Workers)
=============================================================================
