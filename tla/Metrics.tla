-------------------------------- MODULE Metrics --------------------------------
(***************************************************************************)
(* The counters and gauges of an engine (metrics.rs) beside the steps of   *)
(* StorageEngine that update them.                                         *)
(*                                                                         *)
(* A cell stands for a record, so what is counted in bytes has the values  *)
(* of what is counted in records, and is left out.  A cell does not tell a *)
(* term, a vote and an append apart: they are the one kind "other".  There *)
(* is no corruption, and no checksum_failures.  Counters are u64 and stop  *)
(* at their largest value.                                                 *)
(***************************************************************************)
EXTENDS StorageEngine

CONSTANTS
  U64Max,     \* the largest value of a counter
  Operations  \* the StorageOperationKinds that callers try

ASSUME CounterAssumption == U64Max \in Nat \ {0}

\* Node IDs are u64.
ASSUME NodesAssumption == IsFiniteSet(Nodes)

VARIABLES
  metrics,           \* StorageEngine.metrics
  deleted_segments,  \* the local variable of collect_garbage
  segments_at_open,  \* history: how many segments there were at the start
  loads              \* history: how many node states have been loaded since

counters == <<metrics, deleted_segments, segments_at_open, loads>>

Kinds == {"other", "snapshot_checkpoint"}

\* record.metric_kind()
metric_kind(cell) == IF cell.checkpoint THEN "snapshot_checkpoint" ELSE "other"

NoRecords == [k \in Kinds |-> 0]

\* StorageMetricsCounters::default
NewMetrics ==
  [records_written |-> NoRecords, records_replayed |-> NoRecords,
   segment_rotations |-> 0, syncs |-> 0, durable_syncs |-> 0, replay_truncations |-> 0,
   nodes_created |-> 0, nodes_removed |-> 0,
   rejected_operations |-> [error \in {"unknown", "removed"} |-> [o \in Operations |-> 0]],
   snapshot_checkpoints_saved |-> 0, gc_runs |-> 0, gc_segments_deleted |-> 0,
   active_nodes |-> 0, removed_nodes |-> 0, checkpoint_index_nodes |-> 0,
   active_append_segment_id |-> 0, active_append_segment_len |-> 0, unsynced_records |-> 0]

\* increment: saturating_add
increment(counter, value) == IF counter + value > U64Max THEN U64Max ELSE counter + value

-------------------------------------------------------------------------------
(***************************************************************************)
(* The methods of StorageMetricsCounters: m is the value before.           *)
(***************************************************************************)

record_written(m, kind) ==
  [m EXCEPT !.records_written[kind] = increment(@, 1),
            !.unsynced_records = increment(@, 1)]

record_replayed(m, kind, count) == [m EXCEPT !.records_replayed[kind] = increment(@, count)]

segment_opened(m, id, len) ==
  [m EXCEPT !.active_append_segment_id = id, !.active_append_segment_len = len]

segment_written(m, len) == [m EXCEPT !.active_append_segment_len = len]

segment_rotated(m, id, len) ==
  segment_opened([m EXCEPT !.segment_rotations = increment(@, 1)], id, len)

sync_requested(m) == [m EXCEPT !.syncs = increment(@, 1)]

segment_synced(m) ==
  [m EXCEPT !.durable_syncs = increment(@, 1), !.unsynced_records = 0]

replay_truncated(m) == [m EXCEPT !.replay_truncations = increment(@, 1)]

node_created(m) == [m EXCEPT !.nodes_created = increment(@, 1)]

node_removed(m) == [m EXCEPT !.nodes_removed = increment(@, 1)]

rejected_operation(m, operation, error) ==
  [m EXCEPT !.rejected_operations[error][operation] = increment(@, 1)]

snapshot_checkpoint_saved(m) == [m EXCEPT !.snapshot_checkpoints_saved = increment(@, 1)]

gc_ran(m) == [m EXCEPT !.gc_runs = increment(@, 1)]

gc_deleted_segments(m, count) == [m EXCEPT !.gc_segments_deleted = increment(@, count)]

\* registry_loaded and node_counts_changed
node_counts_changed(m, reg) ==
  [m EXCEPT !.active_nodes = Cardinality(ActiveNodes(reg)),
            !.removed_nodes = Cardinality({ n \in Nodes : reg[n] = "removed" })]

\* checkpoint_index_loaded and checkpoint_index_changed
checkpoint_index_changed(m, index) ==
  [m EXCEPT !.checkpoint_index_nodes = Cardinality({ n \in Nodes : index[n] # None })]

-------------------------------------------------------------------------------
(***************************************************************************)
(* The steps of the engine, each with its updates.                         *)
(***************************************************************************)

MInit ==
  /\ Init
  /\ metrics = NewMetrics
  /\ deleted_segments = 0
  /\ segments_at_open = 0
  /\ loads = 0

\* A step that sets the metrics to m and leaves the rest alone.
Sets(m) == metrics' = m /\ UNCHANGED <<deleted_segments, segments_at_open, loads>>

\* The truncation that recovery counts.
OpenRecoverM ==
  /\ OpenRecover
  /\ metrics' = IF tail' # tail THEN replay_truncated(NewMetrics) ELSE NewMetrics
  /\ deleted_segments' = 0
  /\ segments_at_open' = Cardinality(dir \cup {active_segment'})
  /\ loads' = 0

OpenLoadM ==
  /\ OpenLoad
  /\ Sets(checkpoint_index_changed(node_counts_changed(metrics, registry'), checkpoint_index'))

\* SegmentWriter::open
OpenFileM == (OpenExisting \/ OpenDir) /\ Sets(segment_opened(metrics, active_segment, segment_len'))

\* StorageEngine::sync
SyncM == Sync /\ Sets(sync_requested(metrics))

RotateSyncM == RotateSync /\ Sets(segment_synced(metrics))

\* Mutant: the gauges of the old segment stay.
RotateDirM_CountOnly == RotateDir /\ Sets([metrics EXCEPT !.segment_rotations = increment(@, 1)])

RotateDirM == RotateDir /\ Sets(segment_rotated(metrics, active_segment', segment_len'))

WriteM ==
  /\ Write
  /\ LET kind == IF op.kind = "save_record" THEN "other" ELSE "snapshot_checkpoint"
     IN  Sets(segment_written(record_written(metrics, kind), segment_len'))

\* SegmentWriter::sync asks the gauge whether there is something to do.
WriterSyncM ==
  /\ AppendSync \/ SyncCall
  /\ Sets(IF metrics.unsynced_records # 0 THEN segment_synced(metrics) ELSE metrics)

\* save_snapshot refreshes the gauge of the index before it collects garbage,
\* remove_node when it is done.
IndexDirM ==
  /\ IndexDir
  /\ Sets(IF op.kind = "save_snapshot" THEN checkpoint_index_changed(metrics, checkpoint_index') ELSE metrics)

\* The end of create_node.
RegistryDirM ==
  /\ RegistryDir
  /\ Sets(IF op.kind = "create_node"
          THEN checkpoint_index_changed(
                 node_counts_changed(node_created(metrics), registry'), checkpoint_index')
          ELSE metrics)

GcStartM ==
  /\ GcStart
  /\ metrics' = gc_ran(metrics)
  /\ deleted_segments' = 0
  /\ UNCHANGED <<segments_at_open, loads>>

\* Mutant: the last deletion is not counted.
GcDeleteM_Stale ==
  /\ GcDelete
  /\ deleted_segments' = deleted_segments + 1
  /\ metrics' = IF gc_segments' = {} THEN gc_deleted_segments(metrics, deleted_segments) ELSE metrics
  /\ UNCHANGED <<segments_at_open, loads>>

\* The segments that are deleted are counted when the loop is over.
GcDeleteM ==
  /\ GcDelete
  /\ deleted_segments' = deleted_segments + 1
  /\ metrics' = IF gc_segments' = {} THEN gc_deleted_segments(metrics, deleted_segments') ELSE metrics
  /\ UNCHANGED <<segments_at_open, loads>>

\* The end of save_snapshot and of remove_node.
ReturnM ==
  /\ Return
  /\ Sets(CASE op.kind = "save_snapshot" -> snapshot_checkpoint_saved(metrics)
            [] op.kind = "remove_node" ->
                 checkpoint_index_changed(
                   node_counts_changed(node_removed(metrics), registry), checkpoint_index)
            [] OTHER -> metrics)

\* ensure_node_exists rejects a call.
Reject(n, operation) ==
  /\ pc = "idle"
  /\ registry[n] # "active"
  /\ Sets(rejected_operation(metrics, operation, registry[n]))
  /\ UNCHANGED vars

\* The records at these positions are replayed.
Replayed(applied) ==
  LET count(kind) == Cardinality({ p \in applied : metric_kind(CellAt(cells, p)) = kind })
  IN  record_replayed(record_replayed(metrics, "other", count("other")),
                      "snapshot_checkpoint", count("snapshot_checkpoint"))

\* StorageEngine::load of an active node.
LoadNode(n) ==
  /\ pc = "idle"
  /\ registry[n] = "active"
  /\ metrics' = Replayed(replay_node_state(cells, dir, n, checkpoint_index[n]))
  /\ loads' = increment(loads, 1)
  /\ UNCHANGED <<vars, deleted_segments, segments_at_open>>

\* StorageEngine::load_all
LoadAll ==
  LET targets == ActiveNodes(registry)
      states  == replay_storage_dir(cells, dir, targets, checkpoint_index)
  IN  /\ pc = "idle"
      /\ targets # {}
      /\ metrics' = Replayed(UNION { states[n] : n \in targets })
      /\ loads' = increment(loads, Cardinality(targets))
      /\ UNCHANGED <<vars, deleted_segments, segments_at_open>>

\* The steps that update nothing.
Uncounted ==
  \/ OpenCreate \/ OpenMagic
  \/ \E n \in Nodes : CreateNode(n) \/ SaveRecord(n) \/ SaveSnapshot(n) \/ RemoveNode(n)
  \/ RotateFails \/ RotateCreate \/ RotateMagic
  \/ IndexReplace \/ RegistryReplace \/ GcDir

\* The metrics go with the engine.
GoneM ==
  /\ Close \/ Fault
  /\ metrics' = NewMetrics
  /\ deleted_segments' = 0
  /\ segments_at_open' = 0
  /\ loads' = 0

MNext ==
  \/ OpenRecoverM \/ OpenLoadM \/ OpenFileM
  \/ SyncM \/ RotateSyncM \/ RotateDirM \/ WriteM \/ WriterSyncM
  \/ IndexDirM \/ RegistryDirM \/ GcStartM \/ GcDeleteM \/ ReturnM
  \/ LoadAll
  \/ \E n \in Nodes : LoadNode(n) \/ \E operation \in Operations : Reject(n, operation)
  \/ Uncounted /\ UNCHANGED counters
  \/ GoneM

MSpec == MInit /\ [][MNext]_<<vars, counters>>

-------------------------------------------------------------------------------
(***************************************************************************)
(* Properties.                                                             *)
(***************************************************************************)

\* Between calls each gauge has the value that it stands for, also after a
\* reopening and after a call that failed at a rotation; and the one by which
\* SegmentWriter::sync decides is zero exactly if this engine has no append
\* that is pending.
GaugesAreCurrent ==
  pc = "idle" =>
    /\ metrics.active_nodes = Cardinality(ActiveNodes(nodes_json))
    /\ metrics.removed_nodes = Cardinality({ n \in Nodes : nodes_json[n] = "removed" })
    /\ metrics.checkpoint_index_nodes = Cardinality({ n \in Nodes : checkpoint_index[n] # None })
    /\ metrics.active_append_segment_id = active_segment
    /\ metrics.active_append_segment_len = Len(cells[active_segment])
    /\ metrics.unsynced_records = 0 <=> unsynced_records = 0

\* A counter that has not reached its largest value.
Exact(counter) == counter < U64Max

\* Between calls the counters tell one story: every checkpoint record was
\* written by a create_node or a save_snapshot that was counted; each
\* collection belongs to a snapshot or a removal; the segments there are the
\* ones at the start, those rotated to, less those deleted; and each state
\* that was loaded took one checkpoint record, the newest.
CountersAddUp ==
  pc = "idle" =>
    LET m == metrics IN
    /\ Exact(m.records_written["snapshot_checkpoint"]) =>
         m.records_written["snapshot_checkpoint"] = m.nodes_created + m.snapshot_checkpoints_saved
    /\ Exact(m.gc_runs) => m.gc_runs = m.snapshot_checkpoints_saved + m.nodes_removed
    /\ Exact(m.segment_rotations) /\ Exact(m.gc_segments_deleted) =>
         Cardinality(dir) = segments_at_open + m.segment_rotations - m.gc_segments_deleted
    /\ Exact(loads) => m.records_replayed["snapshot_checkpoint"] = loads
===============================================================================
