---------------------------- MODULE MCMetadataFile ----------------------------
(* MetadataFile for TLC. *)
EXTENDS MetadataFile

\* A long, a short and a middle version.
Sizes == [v \in 1 .. 3 |-> CASE v = 1 -> 3 [] v = 2 -> 1 [] v = 3 -> 2]
===============================================================================
