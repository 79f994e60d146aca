------------------------- MODULE MCWorkerPoolClaims -------------------------
(* Model-checking definitions for WorkerPoolClaims. *)
EXTENDS WorkerPoolClaims, TLC

Symmetry == Permutations(Workers) \cup Permutations(Jobs)
=============================================================================
