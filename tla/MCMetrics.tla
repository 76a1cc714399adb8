------------------------------- MODULE MCMetrics -------------------------------
(* Metrics for TLC. *)
EXTENDS Metrics, TLC

NodeSymmetry == Permutations(Nodes)
===============================================================================
