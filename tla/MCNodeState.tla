------------------------------ MODULE MCNodeState ------------------------------
(* NodeState for TLC. *)
EXTENDS NodeState
===============================================================================
