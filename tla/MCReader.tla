------------------------------- MODULE MCReader -------------------------------
(* Reader for TLC. *)
EXTENDS Reader, TLC

NodeSymmetry == Permutations(Nodes)
===============================================================================
