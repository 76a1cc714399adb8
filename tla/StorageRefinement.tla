--------------------------- MODULE StorageRefinement ---------------------------
(***************************************************************************)
(* StorageEngine implements NodeStore.  A place is a RecordPosition; the   *)
(* log has the records of every segment, collected ones included, while    *)
(* `loaded` is what a replay of the files still in the directory applies:  *)
(* that opening, recovery, rotation, the index and garbage collection are  *)
(* invisible is what the refinement says.                                  *)
(***************************************************************************)
EXTENDS StorageEngine

WrittenPositions == [seg : SegIds, off : 0 .. MaxSegmentLen]

Store == INSTANCE NodeStore WITH
  Places         <- WrittenPositions,
  Earlier        <- Before,
  log            <- [p \in RecordsIn(cells, SegIds) |-> CellAt(cells, p)],
  durable        <- { p \in RecordsIn(cells, SegIds) :
                        p.off < synced[p.seg] /\ p.seg \notin dir \ dir_durable },
  status         <- nodes_json,
  status_durable <- nodes_json_durable,
  loaded         <- [n \in Nodes |-> IF nodes_json[n] = "active"
                                     THEN replay_node_state(cells, dir, n, None) ELSE {}]

\* Every step of the engine, of a collection, of recovery and of a fault is a
\* step of the abstract store or invisible to its callers (create_node,
\* save_*, append_entries, remove_node, collect_garbage, recover_storage_dir).
ImplementsNodeStore == Store!Spec
===============================================================================
