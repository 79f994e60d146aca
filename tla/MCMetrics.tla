----------------------------- MODULE MCMetrics ------------------------------
(* Model-checking definitions for Metrics. *)
EXTENDS Metrics, TLC

Symmetry == Permutations(Workers) \cup Permutations(Types)
=============================================================================
