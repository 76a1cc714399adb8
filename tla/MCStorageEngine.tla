---------------------------- MODULE MCStorageEngine ----------------------------
(* StorageEngine for TLC. *)
EXTENDS StorageInvariant, StorageRefinement, TLC

NodeSymmetry == Permutations(Nodes)
===============================================================================
