----------------------------- MODULE MetricsProofs -----------------------------
(***************************************************************************)
(* The gauges are current and the counters add up, for every set of nodes, *)
(* every bound and every largest value of a counter, whatever the faults.  *)
(***************************************************************************)
EXTENDS Metrics, DurabilityProofs, FiniteSetTheorems

Counter == 0 .. U64Max

MetricsType ==
  [records_written : [Kinds -> Counter], records_replayed : [Kinds -> Counter],
   segment_rotations : Counter, syncs : Counter, durable_syncs : Counter, replay_truncations : Counter,
   nodes_created : Counter, nodes_removed : Counter,
   rejected_operations : [{"unknown", "removed"} -> [Operations -> Counter]],
   snapshot_checkpoints_saved : Counter, gc_runs : Counter, gc_segments_deleted : Counter,
   active_nodes : Nat, removed_nodes : Nat, checkpoint_index_nodes : Nat,
   active_append_segment_id : SegIds, active_append_segment_len : Nat, unsynced_records : Counter]

CounterTypes ==
  /\ metrics \in MetricsType
  /\ deleted_segments \in Nat
  /\ segments_at_open \in Nat
  /\ loads \in Counter

Opening == {"open_load", "open_file", "open_magic", "open_dir"}

\* No call is in progress, and a closed engine has nothing to synchronize.
IdleInv ==
  /\ pc \in Opening \cup {"closed", "refused", "idle"} => op.kind = "none"
  /\ pc = "closed" => unsynced_records = 0

\* Each gauge stands for the field of the engine that it is set from; those
\* of the nodes and of the index are behind in remove_node until it returns.
GaugeInv ==
  /\ pc \in Loaded /\ op.kind # "remove_node" =>
       /\ metrics.active_nodes = Cardinality(ActiveNodes(registry))
       /\ metrics.removed_nodes = Cardinality({ n \in Nodes : registry[n] = "removed" })
       /\ metrics.checkpoint_index_nodes = Cardinality({ n \in Nodes : checkpoint_index[n] # None })
  /\ pc \in Ready =>
       /\ metrics.active_append_segment_id = active_segment
       /\ metrics.active_append_segment_len = segment_len
  /\ metrics.unsynced_records = 0 <=> unsynced_records = 0

\* A checkpoint record that is written and whose call is not yet counted.
PendingRecords ==
  IF \/ /\ op.kind \in {"create_node", "save_snapshot"}
        /\ pc \in {"append_sync", "index_replace", "index_dir", "registry_replace", "registry_dir"} \cup Collecting
     \/ op.kind = "save_snapshot" /\ pc = "return"
  THEN 1 ELSE 0

\* A collection that is counted and whose call is not.
PendingRuns == IF pc \in {"gc_delete", "gc_dir"} \/ (pc = "return" /\ Collects) THEN 1 ELSE 0

\* Segments that are created or deleted and not yet counted.
PendingSegments ==
  IF pc \in Rotating THEN 1 ELSE IF pc = "gc_delete" THEN 0 - deleted_segments ELSE 0

RecordCountInv ==
  LET written == metrics.records_written["snapshot_checkpoint"] IN
  Exact(written) => written = metrics.nodes_created + metrics.snapshot_checkpoints_saved + PendingRecords

RunCountInv ==
  Exact(metrics.gc_runs) =>
    metrics.gc_runs = metrics.snapshot_checkpoints_saved + metrics.nodes_removed + PendingRuns

SegmentCountInv ==
  /\ pc \in {"open_load", "open_file"} => segments_at_open = Cardinality(dir \cup {active_segment})
  /\ pc \in Opening => metrics.segment_rotations = 0 /\ metrics.gc_segments_deleted = 0
  /\ /\ pc \in Ready \cup {"open_magic", "open_dir"}
     /\ Exact(metrics.segment_rotations) /\ Exact(metrics.gc_segments_deleted)
     => Cardinality(dir) =
          segments_at_open + metrics.segment_rotations - metrics.gc_segments_deleted + PendingSegments

LoadCountInv == metrics.records_replayed["snapshot_checkpoint"] = loads

MetricsInv ==
  /\ CounterTypes
  /\ IdleInv
  /\ GaugeInv
  /\ RecordCountInv
  /\ RunCountInv
  /\ SegmentCountInv
  /\ LoadCountInv

-------------------------------------------------------------------------------
(***************************************************************************)
(* The engine under the counters is StorageEngine.                         *)
(***************************************************************************)

\* A step of Metrics is a step of the engine, or leaves it alone.
LEMMA MetricsStep ==
  [MNext]_<<vars, counters>> => [Next]_vars
<1> SUFFICES ASSUME [MNext]_<<vars, counters>> PROVE [Next]_vars
  OBVIOUS
<1>1. ASSUME OpenRecoverM \/ OpenLoadM \/ OpenFileM
      PROVE  Next
  BY <1>1 DEF OpenRecoverM, OpenLoadM, OpenFileM, Next, Open
<1>2. ASSUME SyncM \/ RotateSyncM \/ RotateDirM \/ WriteM \/ WriterSyncM
      PROVE  Next
  BY <1>2 DEF SyncM, RotateSyncM, RotateDirM, WriteM, WriterSyncM, Next, Begin, Proceed, AppendSteps
<1>3. ASSUME IndexDirM \/ RegistryDirM \/ GcStartM \/ GcDeleteM \/ ReturnM
      PROVE  Next
  BY <1>3 DEF IndexDirM, RegistryDirM, GcStartM, GcDeleteM, ReturnM, Next, Proceed
<1>4. ASSUME LoadAll \/ \E n \in Nodes : LoadNode(n) \/ \E operation \in Operations : Reject(n, operation)
      PROVE  UNCHANGED vars
  BY <1>4 DEF LoadAll, LoadNode, Reject
<1>5. ASSUME Uncounted
      PROVE  Next
  BY <1>5 DEF Uncounted, Next, Open, Begin, Proceed, AppendSteps
<1>6. ASSUME GoneM
      PROVE  Next
  BY <1>6 DEF GoneM, Next
<1> QED BY <1>1, <1>2, <1>3, <1>4, <1>5, <1>6 DEF MNext

\* What is proved of the engine holds under the counters.
LEMMA EngineUnderneath ==
  MSpec => Spec
<1>1. MInit => Init
  BY DEF MInit
<1> QED BY <1>1, MetricsStep, PTL DEF MSpec, Spec

-------------------------------------------------------------------------------
(***************************************************************************)
(* What the methods of StorageMetricsCounters change.                      *)
(***************************************************************************)

CountFields(m) ==
  <<m.records_written["snapshot_checkpoint"], m.nodes_created, m.nodes_removed,
    m.snapshot_checkpoints_saved, m.gc_runs>>

SegmentFields(m) == <<m.segment_rotations, m.gc_segments_deleted>>

NodeGauges(m) == <<m.active_nodes, m.removed_nodes, m.checkpoint_index_nodes>>

WriterGauges(m) == <<m.active_append_segment_id, m.active_append_segment_len>>

SyncGauge(m) == m.unsynced_records

LoadField(m) == m.records_replayed["snapshot_checkpoint"]

\* increment stays within u64, is exact below its end and never gives 0.
LEMMA Increment ==
  ASSUME NEW c \in Counter, NEW v \in Nat
  PROVE  /\ increment(c, v) \in Counter
         /\ increment(c, v) < U64Max => increment(c, v) = c + v /\ c < U64Max
         /\ v = 1 => increment(c, v) # 0
  BY CounterAssumption DEF increment, Counter

\* StorageMetricsCounters::default
LEMMA NewMetricsEffect ==
  /\ NewMetrics \in MetricsType
  /\ CountFields(NewMetrics) = <<0, 0, 0, 0, 0>>
  /\ SegmentFields(NewMetrics) = <<0, 0>>
  /\ SyncGauge(NewMetrics) = 0
  /\ LoadField(NewMetrics) = 0
<1>1. 0 \in Counter /\ 0 \in SegIds
  BY CounterAssumption, SegmentIdAssumption DEF Counter, SegIds
<1>2. NoRecords \in [Kinds -> Counter] /\ NoRecords["snapshot_checkpoint"] = 0
  BY <1>1 DEF NoRecords, Kinds
<1>3. [error \in {"unknown", "removed"} |-> [o \in Operations |-> 0]]
        \in [{"unknown", "removed"} -> [Operations -> Counter]]
  BY <1>1
<1> QED BY <1>1, <1>2, <1>3 DEF NewMetrics, MetricsType, CountFields, SegmentFields, SyncGauge, LoadField

\* sync_requested
LEMMA SyncRequested ==
  ASSUME NEW m \in MetricsType
  PROVE  LET r == sync_requested(m) IN
         /\ r \in MetricsType
         /\ CountFields(r) = CountFields(m) /\ SegmentFields(r) = SegmentFields(m) /\ NodeGauges(r) = NodeGauges(m)
         /\ WriterGauges(r) = WriterGauges(m) /\ SyncGauge(r) = SyncGauge(m) /\ LoadField(r) = LoadField(m)
<1>1. increment(m.syncs, 1) \in Counter
  BY Increment DEF MetricsType
<1> QED BY <1>1
        DEF sync_requested, MetricsType, CountFields, SegmentFields, NodeGauges, WriterGauges,
            SyncGauge, LoadField

\* replay_truncated
LEMMA ReplayTruncated ==
  ASSUME NEW m \in MetricsType
  PROVE  LET r == replay_truncated(m) IN
         /\ r \in MetricsType
         /\ CountFields(r) = CountFields(m) /\ SegmentFields(r) = SegmentFields(m) /\ NodeGauges(r) = NodeGauges(m)
         /\ WriterGauges(r) = WriterGauges(m) /\ SyncGauge(r) = SyncGauge(m) /\ LoadField(r) = LoadField(m)
<1>1. increment(m.replay_truncations, 1) \in Counter
  BY Increment DEF MetricsType
<1> QED BY <1>1
        DEF replay_truncated, MetricsType, CountFields, SegmentFields, NodeGauges, WriterGauges,
            SyncGauge, LoadField

\* node_created
LEMMA NodeCreated ==
  ASSUME NEW m \in MetricsType
  PROVE  LET r == node_created(m) IN
         /\ r \in MetricsType
         /\ CountFields(r) = <<m.records_written["snapshot_checkpoint"], increment(m.nodes_created, 1), m.nodes_removed,
                            m.snapshot_checkpoints_saved, m.gc_runs>>
         /\ SegmentFields(r) = SegmentFields(m) /\ NodeGauges(r) = NodeGauges(m) /\ WriterGauges(r) = WriterGauges(m)
         /\ SyncGauge(r) = SyncGauge(m) /\ LoadField(r) = LoadField(m)
<1>1. increment(m.nodes_created, 1) \in Counter
  BY Increment DEF MetricsType
<1> QED BY <1>1
        DEF node_created, MetricsType, CountFields, SegmentFields, NodeGauges, WriterGauges,
            SyncGauge, LoadField

\* node_removed
LEMMA NodeRemoved ==
  ASSUME NEW m \in MetricsType
  PROVE  LET r == node_removed(m) IN
         /\ r \in MetricsType
         /\ CountFields(r) = <<m.records_written["snapshot_checkpoint"], m.nodes_created, increment(m.nodes_removed, 1),
                            m.snapshot_checkpoints_saved, m.gc_runs>>
         /\ SegmentFields(r) = SegmentFields(m) /\ NodeGauges(r) = NodeGauges(m) /\ WriterGauges(r) = WriterGauges(m)
         /\ SyncGauge(r) = SyncGauge(m) /\ LoadField(r) = LoadField(m)
<1>1. increment(m.nodes_removed, 1) \in Counter
  BY Increment DEF MetricsType
<1> QED BY <1>1
        DEF node_removed, MetricsType, CountFields, SegmentFields, NodeGauges, WriterGauges,
            SyncGauge, LoadField

\* snapshot_checkpoint_saved
LEMMA CheckpointSaved ==
  ASSUME NEW m \in MetricsType
  PROVE  LET r == snapshot_checkpoint_saved(m) IN
         /\ r \in MetricsType
         /\ CountFields(r) = <<m.records_written["snapshot_checkpoint"], m.nodes_created, m.nodes_removed,
                            increment(m.snapshot_checkpoints_saved, 1), m.gc_runs>>
         /\ SegmentFields(r) = SegmentFields(m) /\ NodeGauges(r) = NodeGauges(m) /\ WriterGauges(r) = WriterGauges(m)
         /\ SyncGauge(r) = SyncGauge(m) /\ LoadField(r) = LoadField(m)
<1>1. increment(m.snapshot_checkpoints_saved, 1) \in Counter
  BY Increment DEF MetricsType
<1> QED BY <1>1
        DEF snapshot_checkpoint_saved, MetricsType, CountFields, SegmentFields, NodeGauges, WriterGauges,
            SyncGauge, LoadField

\* gc_ran
LEMMA GcRan ==
  ASSUME NEW m \in MetricsType
  PROVE  LET r == gc_ran(m) IN
         /\ r \in MetricsType
         /\ CountFields(r) = <<m.records_written["snapshot_checkpoint"], m.nodes_created, m.nodes_removed,
                            m.snapshot_checkpoints_saved, increment(m.gc_runs, 1)>>
         /\ SegmentFields(r) = SegmentFields(m) /\ NodeGauges(r) = NodeGauges(m) /\ WriterGauges(r) = WriterGauges(m)
         /\ SyncGauge(r) = SyncGauge(m) /\ LoadField(r) = LoadField(m)
<1>1. increment(m.gc_runs, 1) \in Counter
  BY Increment DEF MetricsType
<1> QED BY <1>1
        DEF gc_ran, MetricsType, CountFields, SegmentFields, NodeGauges, WriterGauges,
            SyncGauge, LoadField

\* gc_deleted_segments
LEMMA GcDeletedSegments ==
  ASSUME NEW m \in MetricsType, NEW count \in Nat
  PROVE  LET r == gc_deleted_segments(m, count) IN
         /\ r \in MetricsType
         /\ SegmentFields(r) = <<m.segment_rotations, increment(m.gc_segments_deleted, count)>>
         /\ CountFields(r) = CountFields(m) /\ NodeGauges(r) = NodeGauges(m) /\ WriterGauges(r) = WriterGauges(m)
         /\ SyncGauge(r) = SyncGauge(m) /\ LoadField(r) = LoadField(m)
<1>1. increment(m.gc_segments_deleted, count) \in Counter
  BY Increment DEF MetricsType
<1> QED BY <1>1
        DEF gc_deleted_segments, MetricsType, CountFields, SegmentFields, NodeGauges, WriterGauges,
            SyncGauge, LoadField

\* segment_written
LEMMA SegmentWritten ==
  ASSUME NEW m \in MetricsType, NEW len \in Nat
  PROVE  LET r == segment_written(m, len) IN
         /\ r \in MetricsType
         /\ WriterGauges(r) = <<m.active_append_segment_id, len>>
         /\ CountFields(r) = CountFields(m) /\ SegmentFields(r) = SegmentFields(m) /\ NodeGauges(r) = NodeGauges(m)
         /\ SyncGauge(r) = SyncGauge(m) /\ LoadField(r) = LoadField(m)
  BY DEF segment_written, MetricsType, CountFields, SegmentFields, NodeGauges, WriterGauges,
            SyncGauge, LoadField

\* segment_synced
LEMMA SegmentSynced ==
  ASSUME NEW m \in MetricsType
  PROVE  LET r == segment_synced(m) IN
         /\ r \in MetricsType
         /\ SyncGauge(r) = 0
         /\ CountFields(r) = CountFields(m) /\ SegmentFields(r) = SegmentFields(m) /\ NodeGauges(r) = NodeGauges(m)
         /\ WriterGauges(r) = WriterGauges(m) /\ LoadField(r) = LoadField(m)
<1> DEFINE x == [m EXCEPT !.durable_syncs = increment(m.durable_syncs, 1)]
<1>1. segment_synced(m) = [x EXCEPT !.unsynced_records = 0]
  BY DEF segment_synced
<1>0. m.durable_syncs \in Counter
  BY DEF MetricsType
<1>2. increment(m.durable_syncs, 1) \in Counter /\ 0 \in Counter
  <2>1. increment(m.durable_syncs, 1) \in Counter
    BY <1>0, Increment
  <2>2. 0 \in Counter
    BY CounterAssumption DEF Counter
  <2> QED BY <2>1, <2>2
<1>3. /\ x \in MetricsType
      /\ CountFields(x) = CountFields(m) /\ SegmentFields(x) = SegmentFields(m) /\ NodeGauges(x) = NodeGauges(m)
      /\ WriterGauges(x) = WriterGauges(m) /\ SyncGauge(x) = SyncGauge(m) /\ LoadField(x) = LoadField(m)
  BY <1>2 DEF MetricsType, CountFields, SegmentFields, NodeGauges, WriterGauges,
            SyncGauge, LoadField
<1> HIDE DEF x
<1> QED BY <1>1, <1>2, <1>3
        DEF MetricsType, CountFields, SegmentFields, NodeGauges, WriterGauges,
            SyncGauge, LoadField

\* segment_opened
LEMMA SegmentOpened ==
  ASSUME NEW m \in MetricsType, NEW id \in SegIds, NEW len \in Nat
  PROVE  LET r == segment_opened(m, id, len) IN
         /\ r \in MetricsType
         /\ WriterGauges(r) = <<id, len>>
         /\ CountFields(r) = CountFields(m) /\ SegmentFields(r) = SegmentFields(m) /\ NodeGauges(r) = NodeGauges(m)
         /\ SyncGauge(r) = SyncGauge(m) /\ LoadField(r) = LoadField(m)
<1> DEFINE x == [m EXCEPT !.active_append_segment_id = id]
<1>1. segment_opened(m, id, len) = [x EXCEPT !.active_append_segment_len = len]
  BY DEF segment_opened
<1>2. /\ x \in MetricsType /\ x.active_append_segment_id = id
      /\ CountFields(x) = CountFields(m) /\ SegmentFields(x) = SegmentFields(m) /\ NodeGauges(x) = NodeGauges(m)
      /\ SyncGauge(x) = SyncGauge(m) /\ LoadField(x) = LoadField(m)
  BY DEF MetricsType, CountFields, SegmentFields, NodeGauges, WriterGauges,
            SyncGauge, LoadField
<1> HIDE DEF x
<1> QED BY <1>1, <1>2
        DEF MetricsType, CountFields, SegmentFields, NodeGauges, WriterGauges,
            SyncGauge, LoadField

\* segment_rotated
LEMMA SegmentRotated ==
  ASSUME NEW m \in MetricsType, NEW id \in SegIds, NEW len \in Nat
  PROVE  LET r == segment_rotated(m, id, len) IN
         /\ r \in MetricsType
         /\ WriterGauges(r) = <<id, len>>
         /\ SegmentFields(r) = <<increment(m.segment_rotations, 1), m.gc_segments_deleted>>
         /\ CountFields(r) = CountFields(m) /\ NodeGauges(r) = NodeGauges(m) /\ SyncGauge(r) = SyncGauge(m)
         /\ LoadField(r) = LoadField(m)
<1> DEFINE x == [m EXCEPT !.segment_rotations = increment(m.segment_rotations, 1)]
<1>1. segment_rotated(m, id, len) = segment_opened(x, id, len)
  BY DEF segment_rotated
<1>2. increment(m.segment_rotations, 1) \in Counter
  BY Increment DEF MetricsType
<1>3. /\ x \in MetricsType /\ SegmentFields(x) = <<increment(m.segment_rotations, 1), m.gc_segments_deleted>>
      /\ CountFields(x) = CountFields(m) /\ NodeGauges(x) = NodeGauges(m) /\ SyncGauge(x) = SyncGauge(m)
      /\ LoadField(x) = LoadField(m)
  BY <1>2 DEF MetricsType, CountFields, SegmentFields, NodeGauges, WriterGauges,
            SyncGauge, LoadField
<1> HIDE DEF x
<1> QED BY <1>1, <1>3, SegmentOpened

\* record_written
LEMMA RecordWritten ==
  ASSUME NEW m \in MetricsType, NEW kind \in Kinds
  PROVE  LET r == record_written(m, kind) IN
         /\ r \in MetricsType
         /\ r.records_written["snapshot_checkpoint"] =
              IF kind = "snapshot_checkpoint" THEN increment(m.records_written[kind], 1)
              ELSE m.records_written["snapshot_checkpoint"]
         /\ r.nodes_created = m.nodes_created /\ r.nodes_removed = m.nodes_removed
         /\ r.snapshot_checkpoints_saved = m.snapshot_checkpoints_saved /\ r.gc_runs = m.gc_runs
         /\ SyncGauge(r) # 0
         /\ SegmentFields(r) = SegmentFields(m) /\ NodeGauges(r) = NodeGauges(m) /\ WriterGauges(r) = WriterGauges(m)
         /\ LoadField(r) = LoadField(m)
<1> DEFINE w == [m.records_written EXCEPT ![kind] = increment(m.records_written[kind], 1)]
           u == increment(m.unsynced_records, 1)
           x == [m EXCEPT !.records_written = w]
<1>1. record_written(m, kind) = [x EXCEPT !.unsynced_records = u]
  BY DEF record_written
<1>2. m.records_written \in [Kinds -> Counter] /\ m.unsynced_records \in Counter
  BY DEF MetricsType
<1>3. increment(m.records_written[kind], 1) \in Counter
  BY <1>2, Increment
<1>4. w \in [Kinds -> Counter]
      /\ w["snapshot_checkpoint"] = IF kind = "snapshot_checkpoint" THEN increment(m.records_written[kind], 1)
                                    ELSE m.records_written["snapshot_checkpoint"]
  BY <1>2, <1>3 DEF Kinds
<1>5. u \in Counter /\ u # 0
  BY <1>2, Increment
<1> HIDE DEF w, u
<1>6. /\ x \in MetricsType /\ x.records_written = w
      /\ x.nodes_created = m.nodes_created /\ x.nodes_removed = m.nodes_removed
      /\ x.snapshot_checkpoints_saved = m.snapshot_checkpoints_saved /\ x.gc_runs = m.gc_runs
      /\ SegmentFields(x) = SegmentFields(m) /\ NodeGauges(x) = NodeGauges(m) /\ WriterGauges(x) = WriterGauges(m)
      /\ LoadField(x) = LoadField(m)
  BY <1>4 DEF MetricsType, CountFields, SegmentFields, NodeGauges, WriterGauges,
            SyncGauge, LoadField
<1> HIDE DEF x
<1> QED BY <1>1, <1>4, <1>5, <1>6
        DEF MetricsType, CountFields, SegmentFields, NodeGauges, WriterGauges,
            SyncGauge, LoadField

\* record_replayed
LEMMA RecordReplayed ==
  ASSUME NEW m \in MetricsType, NEW kind \in Kinds, NEW count \in Nat
  PROVE  LET r == record_replayed(m, kind, count) IN
         /\ r \in MetricsType
         /\ LoadField(r) = IF kind = "snapshot_checkpoint" THEN increment(LoadField(m), count) ELSE LoadField(m)
         /\ CountFields(r) = CountFields(m) /\ SegmentFields(r) = SegmentFields(m) /\ NodeGauges(r) = NodeGauges(m)
         /\ WriterGauges(r) = WriterGauges(m) /\ SyncGauge(r) = SyncGauge(m)
<1> DEFINE w == [m.records_replayed EXCEPT ![kind] = increment(m.records_replayed[kind], count)]
           old == m.records_replayed["snapshot_checkpoint"]
<1>1. record_replayed(m, kind, count) = [m EXCEPT !.records_replayed = w]
  BY DEF record_replayed
<1>2. m.records_replayed \in [Kinds -> Counter]
  BY DEF MetricsType
<1>3. increment(m.records_replayed[kind], count) \in Counter
  BY <1>2, Increment
<1>4. /\ w \in [Kinds -> Counter]
      /\ w["snapshot_checkpoint"] = IF kind = "snapshot_checkpoint" THEN increment(old, count) ELSE old
  BY <1>2, <1>3 DEF Kinds
<1> HIDE DEF w
<1> QED BY <1>1, <1>4
        DEF MetricsType, CountFields, SegmentFields, NodeGauges, WriterGauges,
            SyncGauge, LoadField

\* rejected_operation
LEMMA RejectedOperation ==
  ASSUME NEW m \in MetricsType, NEW operation \in Operations, NEW error \in {"unknown", "removed"}
  PROVE  LET r == rejected_operation(m, operation, error) IN
         /\ r \in MetricsType
         /\ CountFields(r) = CountFields(m) /\ SegmentFields(r) = SegmentFields(m) /\ NodeGauges(r) = NodeGauges(m)
         /\ WriterGauges(r) = WriterGauges(m) /\ SyncGauge(r) = SyncGauge(m) /\ LoadField(r) = LoadField(m)
<1> DEFINE count == m.rejected_operations[error][operation]
           v == [m.rejected_operations[error] EXCEPT ![operation] = increment(count, 1)]
           w == [m.rejected_operations EXCEPT ![error] = v]
<1>1. rejected_operation(m, operation, error) = [m EXCEPT !.rejected_operations = w]
  BY DEF rejected_operation
<1>2. m.rejected_operations \in [{"unknown", "removed"} -> [Operations -> Counter]]
  BY DEF MetricsType
<1>3. m.rejected_operations[error] \in [Operations -> Counter]
  BY <1>2
<1>4. increment(count, 1) \in Counter
  BY <1>3, Increment
<1>5. v \in [Operations -> Counter]
  BY <1>3, <1>4
<1> HIDE DEF v
<1>6. w \in [{"unknown", "removed"} -> [Operations -> Counter]]
  BY <1>2, <1>5
<1> HIDE DEF w
<1> QED BY <1>1, <1>6
        DEF MetricsType, CountFields, SegmentFields, NodeGauges, WriterGauges,
            SyncGauge, LoadField

\* Sets of nodes have a size.
LEMMA NodeSubset ==
  ASSUME NEW S \in SUBSET Nodes
  PROVE  Cardinality(S) \in Nat
  BY NodesAssumption, FS_Subset, FS_CardinalityType

\* node_counts_changed
LEMMA NodeCountsChanged ==
  ASSUME NEW m \in MetricsType, NEW reg
  PROVE  LET r == node_counts_changed(m, reg) IN
         /\ r \in MetricsType
         /\ NodeGauges(r) = <<Cardinality(ActiveNodes(reg)), Cardinality({ n \in Nodes : reg[n] = "removed" }),
                            m.checkpoint_index_nodes>>
         /\ CountFields(r) = CountFields(m) /\ SegmentFields(r) = SegmentFields(m) /\ WriterGauges(r) = WriterGauges(m)
         /\ SyncGauge(r) = SyncGauge(m) /\ LoadField(r) = LoadField(m)
<1> DEFINE a == Cardinality(ActiveNodes(reg))
           b == Cardinality({ n \in Nodes : reg[n] = "removed" })
           x == [m EXCEPT !.active_nodes = a]
           y == [x EXCEPT !.removed_nodes = b]
<1>1. node_counts_changed(m, reg) = y
  BY DEF node_counts_changed
<1>2. a \in Nat /\ b \in Nat
  BY NodeSubset DEF ActiveNodes
<1> HIDE DEF a, b
<1>3. /\ x \in MetricsType /\ x.active_nodes = a /\ x.checkpoint_index_nodes = m.checkpoint_index_nodes
      /\ CountFields(x) = CountFields(m) /\ SegmentFields(x) = SegmentFields(m) /\ WriterGauges(x) = WriterGauges(m)
      /\ SyncGauge(x) = SyncGauge(m) /\ LoadField(x) = LoadField(m)
  BY <1>2 DEF MetricsType, CountFields, SegmentFields, NodeGauges, WriterGauges,
            SyncGauge, LoadField
<1> HIDE DEF x
<1>4. /\ y \in MetricsType /\ NodeGauges(y) = <<a, b, m.checkpoint_index_nodes>>
      /\ CountFields(y) = CountFields(m) /\ SegmentFields(y) = SegmentFields(m) /\ WriterGauges(y) = WriterGauges(m)
      /\ SyncGauge(y) = SyncGauge(m) /\ LoadField(y) = LoadField(m)
  BY <1>2, <1>3 DEF MetricsType, CountFields, SegmentFields, NodeGauges, WriterGauges,
            SyncGauge, LoadField
<1> HIDE DEF y
<1> QED BY <1>1, <1>4 DEF a, b

\* checkpoint_index_changed
LEMMA CheckpointIndexChanged ==
  ASSUME NEW m \in MetricsType, NEW index
  PROVE  LET r == checkpoint_index_changed(m, index) IN
         /\ r \in MetricsType
         /\ NodeGauges(r) = <<m.active_nodes, m.removed_nodes, Cardinality({ n \in Nodes : index[n] # None })>>
         /\ CountFields(r) = CountFields(m) /\ SegmentFields(r) = SegmentFields(m) /\ WriterGauges(r) = WriterGauges(m)
         /\ SyncGauge(r) = SyncGauge(m) /\ LoadField(r) = LoadField(m)
<1> DEFINE a == Cardinality({ n \in Nodes : index[n] # None })
           y == [m EXCEPT !.checkpoint_index_nodes = a]
<1>1. checkpoint_index_changed(m, index) = y
  BY DEF checkpoint_index_changed
<1>2. a \in Nat
  BY NodeSubset
<1> HIDE DEF a
<1>3. /\ y \in MetricsType /\ NodeGauges(y) = <<m.active_nodes, m.removed_nodes, a>>
      /\ CountFields(y) = CountFields(m) /\ SegmentFields(y) = SegmentFields(m) /\ WriterGauges(y) = WriterGauges(m)
      /\ SyncGauge(y) = SyncGauge(m) /\ LoadField(y) = LoadField(m)
  BY <1>2 DEF MetricsType, CountFields, SegmentFields, NodeGauges, WriterGauges,
            SyncGauge, LoadField
<1> HIDE DEF y
<1> QED BY <1>1, <1>3 DEF a

-------------------------------------------------------------------------------
(***************************************************************************)
(* What each step does to the metrics.                                     *)
(***************************************************************************)

\* So have the sets of segments.
LEMMA FiniteDir ==
  ASSUME IInv
  PROVE  IsFiniteSet(dir) /\ Cardinality(dir) \in Nat /\ IsFiniteSet(gc_segments)
<1>1. IsFiniteSet(SegIds)
  BY SegmentIdAssumption, FS_Interval DEF SegIds
<1>2. dir \in SUBSET SegIds /\ gc_segments \in SUBSET SegIds
  BY DEF IInv, TypeOK
<1> QED BY <1>1, <1>2, FS_Subset, FS_CardinalityType

\* A new engine starts with new metrics.
LEMMA OpenRecoverMEffect ==
  ASSUME MetricsInv, IInv, IInv', OpenRecoverM
  PROVE  /\ CounterTypes'
         /\ CountFields(metrics') = <<0, 0, 0, 0, 0>>
         /\ SegmentFields(metrics') = <<0, 0>>
         /\ SyncGauge(metrics') = 0 /\ LoadField(metrics') = 0 /\ loads' = 0
         /\ segments_at_open' = Cardinality(dir \cup {active_segment'})
<1>1. /\ metrics' \in {NewMetrics, replay_truncated(NewMetrics)}
      /\ deleted_segments' = 0 /\ loads' = 0 /\ segments_at_open' = Cardinality(dir \cup {active_segment'})
  BY DEF OpenRecoverM
<1>2. Cardinality(dir \cup {active_segment'}) \in Nat
  BY FiniteDir, FS_AddElement, FS_CardinalityType
<1>3. 0 \in Counter
  BY CounterAssumption DEF Counter
<1>4. NewMetrics \in MetricsType
  BY NewMetricsEffect
<1>5. CASE metrics' = NewMetrics
  BY <1>1, <1>2, <1>3, <1>5, NewMetricsEffect DEF CounterTypes
<1>6. CASE metrics' = replay_truncated(NewMetrics)
  BY <1>1, <1>2, <1>3, <1>4, <1>6, NewMetricsEffect, ReplayTruncated DEF CounterTypes
<1> QED BY <1>1, <1>5, <1>6

\* They go with it.
LEMMA GoneMEffect ==
  ASSUME MetricsInv, IInv, IInv', GoneM
  PROVE  /\ CounterTypes'
         /\ CountFields(metrics') = <<0, 0, 0, 0, 0>>
         /\ SegmentFields(metrics') = <<0, 0>>
         /\ SyncGauge(metrics') = 0 /\ LoadField(metrics') = 0 /\ loads' = 0
<1>1. metrics' = NewMetrics /\ deleted_segments' = 0 /\ loads' = 0 /\ segments_at_open' = 0
  BY DEF GoneM
<1>2. 0 \in Counter
  BY CounterAssumption DEF Counter
<1> QED BY <1>1, <1>2, NewMetricsEffect DEF CounterTypes

\* registry_loaded and checkpoint_index_loaded.
LEMMA OpenLoadMEffect ==
  ASSUME MetricsInv, IInv, IInv', OpenLoadM
  PROVE  /\ CounterTypes'
         /\ NodeGauges(metrics') = <<Cardinality(ActiveNodes(registry')),
                                     Cardinality({ n \in Nodes : registry'[n] = "removed" }),
                                     Cardinality({ n \in Nodes : checkpoint_index'[n] # None })>>
         /\ CountFields(metrics') = CountFields(metrics) /\ SegmentFields(metrics') = SegmentFields(metrics)
         /\ WriterGauges(metrics') = WriterGauges(metrics) /\ SyncGauge(metrics') = SyncGauge(metrics)
         /\ LoadField(metrics') = LoadField(metrics)
         /\ UNCHANGED <<deleted_segments, segments_at_open, loads>>
<1>m. metrics \in MetricsType
  BY DEF MetricsInv, CounterTypes
<1> DEFINE x == node_counts_changed(metrics, registry')
<1>1. /\ x \in MetricsType
      /\ NodeGauges(x) = <<Cardinality(ActiveNodes(registry')), Cardinality({ n \in Nodes : registry'[n] = "removed" }),
                           metrics.checkpoint_index_nodes>>
      /\ CountFields(x) = CountFields(metrics) /\ SegmentFields(x) = SegmentFields(metrics)
      /\ WriterGauges(x) = WriterGauges(metrics) /\ SyncGauge(x) = SyncGauge(metrics) /\ LoadField(x) = LoadField(metrics)
  BY <1>m, NodeCountsChanged
<1>2. metrics' = checkpoint_index_changed(x, checkpoint_index') /\ UNCHANGED <<deleted_segments, segments_at_open, loads>>
  BY DEF OpenLoadM, Sets
<1> HIDE DEF x
<1>3. x.active_nodes = Cardinality(ActiveNodes(registry'))
      /\ x.removed_nodes = Cardinality({ n \in Nodes : registry'[n] = "removed" })
  BY <1>1 DEF NodeGauges
<1>4. /\ metrics' \in MetricsType
      /\ NodeGauges(metrics') =
           <<x.active_nodes, x.removed_nodes, Cardinality({ n \in Nodes : checkpoint_index'[n] # None })>>
      /\ CountFields(metrics') = CountFields(x) /\ SegmentFields(metrics') = SegmentFields(x)
      /\ WriterGauges(metrics') = WriterGauges(x) /\ SyncGauge(metrics') = SyncGauge(x)
      /\ LoadField(metrics') = LoadField(x)
  BY <1>1, <1>2, CheckpointIndexChanged
<1> QED BY <1>1, <1>2, <1>3, <1>4 DEF MetricsInv, CounterTypes

\* SegmentWriter::open sets the gauges of the writer.
LEMMA OpenFileMEffect ==
  ASSUME MetricsInv, IInv, IInv', OpenFileM
  PROVE  /\ CounterTypes'
         /\ WriterGauges(metrics') = <<active_segment, segment_len'>>
         /\ CountFields(metrics') = CountFields(metrics) /\ SegmentFields(metrics') = SegmentFields(metrics)
         /\ NodeGauges(metrics') = NodeGauges(metrics) /\ SyncGauge(metrics') = SyncGauge(metrics)
         /\ LoadField(metrics') = LoadField(metrics)
         /\ UNCHANGED <<deleted_segments, segments_at_open, loads>>
<1>m. metrics \in MetricsType
  BY DEF MetricsInv, CounterTypes
<1>t. active_segment \in SegIds /\ segment_len' \in Nat
  BY DEF IInv, TypeOK
<1>1. /\ metrics' = segment_opened(metrics, active_segment, segment_len')
      /\ UNCHANGED <<deleted_segments, segments_at_open, loads>>
  BY DEF OpenFileM, Sets
<1> QED BY <1>m, <1>t, <1>1, SegmentOpened DEF MetricsInv, CounterTypes

\* sync counts the request.
LEMMA SyncMEffect ==
  ASSUME MetricsInv, IInv, IInv', SyncM
  PROVE  /\ CounterTypes'
         /\ CountFields(metrics') = CountFields(metrics) /\ SegmentFields(metrics') = SegmentFields(metrics)
         /\ NodeGauges(metrics') = NodeGauges(metrics) /\ WriterGauges(metrics') = WriterGauges(metrics)
         /\ SyncGauge(metrics') = SyncGauge(metrics) /\ LoadField(metrics') = LoadField(metrics)
         /\ UNCHANGED <<deleted_segments, segments_at_open, loads>>
<1>m. metrics \in MetricsType
  BY DEF MetricsInv, CounterTypes
<1>1. metrics' = sync_requested(metrics) /\ UNCHANGED <<deleted_segments, segments_at_open, loads>>
  BY DEF SyncM, Sets
<1> QED BY <1>m, <1>1, SyncRequested DEF MetricsInv, CounterTypes

\* The synchronization at a rotation resets the gauge of pending appends.
LEMMA RotateSyncMEffect ==
  ASSUME MetricsInv, IInv, IInv', RotateSyncM
  PROVE  /\ CounterTypes'
         /\ SyncGauge(metrics') = 0
         /\ CountFields(metrics') = CountFields(metrics) /\ SegmentFields(metrics') = SegmentFields(metrics)
         /\ NodeGauges(metrics') = NodeGauges(metrics) /\ WriterGauges(metrics') = WriterGauges(metrics)
         /\ LoadField(metrics') = LoadField(metrics)
         /\ UNCHANGED <<deleted_segments, segments_at_open, loads>>
<1>m. metrics \in MetricsType
  BY DEF MetricsInv, CounterTypes
<1>1. metrics' = segment_synced(metrics) /\ UNCHANGED <<deleted_segments, segments_at_open, loads>>
  BY DEF RotateSyncM, Sets
<1> QED BY <1>m, <1>1, SegmentSynced DEF MetricsInv, CounterTypes

\* The end of a rotation.
LEMMA RotateDirMEffect ==
  ASSUME MetricsInv, IInv, IInv', RotateDirM
  PROVE  /\ CounterTypes'
         /\ WriterGauges(metrics') = <<active_segment', segment_len'>>
         /\ SegmentFields(metrics') = <<increment(metrics.segment_rotations, 1), metrics.gc_segments_deleted>>
         /\ CountFields(metrics') = CountFields(metrics) /\ NodeGauges(metrics') = NodeGauges(metrics)
         /\ SyncGauge(metrics') = SyncGauge(metrics) /\ LoadField(metrics') = LoadField(metrics)
         /\ UNCHANGED <<deleted_segments, segments_at_open, loads>>
<1>m. metrics \in MetricsType
  BY DEF MetricsInv, CounterTypes
<1>t. active_segment' \in SegIds /\ segment_len' \in Nat
  BY DEF IInv, TypeOK
<1>1. /\ metrics' = segment_rotated(metrics, active_segment', segment_len')
      /\ UNCHANGED <<deleted_segments, segments_at_open, loads>>
  BY DEF RotateDirM, Sets
<1> QED BY <1>m, <1>t, <1>1, SegmentRotated DEF MetricsInv, CounterTypes

\* SegmentWriter::sync, done or skipped, leaves the gauge of pending appends at 0.
LEMMA WriterSyncMEffect ==
  ASSUME MetricsInv, IInv, IInv', WriterSyncM
  PROVE  /\ CounterTypes'
         /\ SyncGauge(metrics') = 0
         /\ CountFields(metrics') = CountFields(metrics) /\ SegmentFields(metrics') = SegmentFields(metrics)
         /\ NodeGauges(metrics') = NodeGauges(metrics) /\ WriterGauges(metrics') = WriterGauges(metrics)
         /\ LoadField(metrics') = LoadField(metrics)
         /\ UNCHANGED <<deleted_segments, segments_at_open, loads>>
<1>m. metrics \in MetricsType
  BY DEF MetricsInv, CounterTypes
<1>1. /\ metrics' = IF metrics.unsynced_records # 0 THEN segment_synced(metrics) ELSE metrics
      /\ UNCHANGED <<deleted_segments, segments_at_open, loads>>
  BY DEF WriterSyncM, Sets
<1>2. CASE metrics.unsynced_records # 0
  BY <1>m, <1>1, <1>2, SegmentSynced DEF MetricsInv, CounterTypes
<1>3. CASE metrics.unsynced_records = 0
  BY <1>1, <1>3 DEF MetricsInv, CounterTypes, SyncGauge
<1> QED BY <1>2, <1>3

\* An append counts its record and is pending.
LEMMA WriteMEffect ==
  ASSUME MetricsInv, IInv, IInv', WriteM
  PROVE  /\ CounterTypes'
         /\ metrics'.records_written["snapshot_checkpoint"] =
              IF op.kind = "save_record" THEN metrics.records_written["snapshot_checkpoint"]
              ELSE increment(metrics.records_written["snapshot_checkpoint"], 1)
         /\ metrics'.nodes_created = metrics.nodes_created /\ metrics'.nodes_removed = metrics.nodes_removed
         /\ metrics'.snapshot_checkpoints_saved = metrics.snapshot_checkpoints_saved /\ metrics'.gc_runs = metrics.gc_runs
         /\ WriterGauges(metrics') = <<metrics.active_append_segment_id, segment_len'>>
         /\ SyncGauge(metrics') # 0
         /\ SegmentFields(metrics') = SegmentFields(metrics) /\ NodeGauges(metrics') = NodeGauges(metrics)
         /\ LoadField(metrics') = LoadField(metrics)
         /\ UNCHANGED <<deleted_segments, segments_at_open, loads>>
<1>m. metrics \in MetricsType
  BY DEF MetricsInv, CounterTypes
<1> DEFINE kind == IF op.kind = "save_record" THEN "other" ELSE "snapshot_checkpoint"
           x == record_written(metrics, kind)
<1>k. /\ kind \in Kinds
      /\ kind = "snapshot_checkpoint" <=> op.kind # "save_record"
  BY DEF Kinds
<1>1. metrics' = segment_written(x, segment_len') /\ UNCHANGED <<deleted_segments, segments_at_open, loads>>
  BY DEF WriteM, Sets
<1> HIDE DEF kind
<1>2. /\ x \in MetricsType
      /\ x.records_written["snapshot_checkpoint"] =
           IF kind = "snapshot_checkpoint" THEN increment(metrics.records_written[kind], 1)
           ELSE metrics.records_written["snapshot_checkpoint"]
      /\ x.nodes_created = metrics.nodes_created /\ x.nodes_removed = metrics.nodes_removed
      /\ x.snapshot_checkpoints_saved = metrics.snapshot_checkpoints_saved /\ x.gc_runs = metrics.gc_runs
      /\ SyncGauge(x) # 0
      /\ SegmentFields(x) = SegmentFields(metrics) /\ NodeGauges(x) = NodeGauges(metrics)
      /\ WriterGauges(x) = WriterGauges(metrics) /\ LoadField(x) = LoadField(metrics)
  BY <1>m, <1>k, RecordWritten
<1> HIDE DEF x
<1>t. segment_len' \in Nat
  BY DEF IInv, TypeOK
<1>3. /\ metrics' \in MetricsType
      /\ WriterGauges(metrics') = <<x.active_append_segment_id, segment_len'>>
      /\ CountFields(metrics') = CountFields(x) /\ SegmentFields(metrics') = SegmentFields(x)
      /\ NodeGauges(metrics') = NodeGauges(x) /\ SyncGauge(metrics') = SyncGauge(x) /\ LoadField(metrics') = LoadField(x)
  BY <1>1, <1>2, <1>t, SegmentWritten
<1>4. x.active_append_segment_id = metrics.active_append_segment_id
  BY <1>2 DEF WriterGauges
<1>5. /\ metrics'.records_written["snapshot_checkpoint"] = x.records_written["snapshot_checkpoint"]
      /\ metrics'.nodes_created = x.nodes_created /\ metrics'.nodes_removed = x.nodes_removed
      /\ metrics'.snapshot_checkpoints_saved = x.snapshot_checkpoints_saved /\ metrics'.gc_runs = x.gc_runs
  BY <1>3 DEF CountFields
<1>6. CounterTypes'
  BY <1>1, <1>3 DEF MetricsInv, CounterTypes
<1> QED BY <1>1, <1>2, <1>3, <1>4, <1>5, <1>6, <1>k

\* save_snapshot refreshes the gauge of the index.
LEMMA IndexDirMEffect ==
  ASSUME MetricsInv, IInv, IInv', IndexDirM
  PROVE  /\ CounterTypes'
         /\ NodeGauges(metrics') =
              IF op.kind = "save_snapshot"
              THEN <<metrics.active_nodes, metrics.removed_nodes,
                     Cardinality({ n \in Nodes : checkpoint_index'[n] # None })>>
              ELSE NodeGauges(metrics)
         /\ CountFields(metrics') = CountFields(metrics) /\ SegmentFields(metrics') = SegmentFields(metrics)
         /\ WriterGauges(metrics') = WriterGauges(metrics) /\ SyncGauge(metrics') = SyncGauge(metrics)
         /\ LoadField(metrics') = LoadField(metrics)
         /\ UNCHANGED <<deleted_segments, segments_at_open, loads>>
<1>m. metrics \in MetricsType
  BY DEF MetricsInv, CounterTypes
<1>1. /\ metrics' = IF op.kind = "save_snapshot" THEN checkpoint_index_changed(metrics, checkpoint_index') ELSE metrics
      /\ UNCHANGED <<deleted_segments, segments_at_open, loads>>
  BY DEF IndexDirM, Sets
<1>2. CASE op.kind = "save_snapshot"
  <2>1. metrics' = checkpoint_index_changed(metrics, checkpoint_index')
    BY <1>1, <1>2
  <2> QED BY <1>m, <1>1, <1>2, <2>1, CheckpointIndexChanged DEF MetricsInv, CounterTypes
<1>3. CASE op.kind # "save_snapshot"
  BY <1>1, <1>3 DEF MetricsInv, CounterTypes
<1> QED BY <1>2, <1>3

\* A collection is counted when it starts ...
LEMMA GcStartMEffect ==
  ASSUME MetricsInv, IInv, IInv', GcStartM
  PROVE  /\ CounterTypes'
         /\ CountFields(metrics') = <<metrics.records_written["snapshot_checkpoint"], metrics.nodes_created,
                                      metrics.nodes_removed, metrics.snapshot_checkpoints_saved,
                                      increment(metrics.gc_runs, 1)>>
         /\ deleted_segments' = 0
         /\ SegmentFields(metrics') = SegmentFields(metrics) /\ NodeGauges(metrics') = NodeGauges(metrics)
         /\ WriterGauges(metrics') = WriterGauges(metrics) /\ SyncGauge(metrics') = SyncGauge(metrics)
         /\ LoadField(metrics') = LoadField(metrics)
         /\ UNCHANGED <<segments_at_open, loads>>
<1>m. metrics \in MetricsType
  BY DEF MetricsInv, CounterTypes
<1>1. metrics' = gc_ran(metrics) /\ deleted_segments' = 0 /\ UNCHANGED <<segments_at_open, loads>>
  BY DEF GcStartM
<1> QED BY <1>m, <1>1, GcRan DEF MetricsInv, CounterTypes

\* ... and the segments it deleted when the loop is over.
LEMMA GcDeleteMEffect ==
  ASSUME MetricsInv, IInv, IInv', GcDeleteM
  PROVE  /\ CounterTypes'
         /\ SegmentFields(metrics') =
              IF gc_segments' = {}
              THEN <<metrics.segment_rotations, increment(metrics.gc_segments_deleted, deleted_segments')>>
              ELSE SegmentFields(metrics)
         /\ deleted_segments' = deleted_segments + 1
         /\ CountFields(metrics') = CountFields(metrics) /\ NodeGauges(metrics') = NodeGauges(metrics)
         /\ WriterGauges(metrics') = WriterGauges(metrics) /\ SyncGauge(metrics') = SyncGauge(metrics)
         /\ LoadField(metrics') = LoadField(metrics)
         /\ UNCHANGED <<segments_at_open, loads>>
<1>m. metrics \in MetricsType
  BY DEF MetricsInv, CounterTypes
<1>1. /\ metrics' = IF gc_segments' = {} THEN gc_deleted_segments(metrics, deleted_segments') ELSE metrics
      /\ deleted_segments' = deleted_segments + 1 /\ UNCHANGED <<segments_at_open, loads>>
  BY DEF GcDeleteM
<1>2. deleted_segments' \in Nat
  BY <1>1 DEF MetricsInv, CounterTypes
<1>3. CASE gc_segments' = {}
  <2>1. metrics' = gc_deleted_segments(metrics, deleted_segments')
    BY <1>1, <1>3
  <2> QED BY <1>m, <1>1, <1>2, <1>3, <2>1, GcDeletedSegments DEF MetricsInv, CounterTypes
<1>4. CASE gc_segments' # {}
  BY <1>1, <1>2, <1>4 DEF MetricsInv, CounterTypes
<1> QED BY <1>3, <1>4

\* The end of create_node.
LEMMA RegistryDirMEffect ==
  ASSUME MetricsInv, IInv, IInv', RegistryDirM
  PROVE  /\ CounterTypes'
         /\ CountFields(metrics') =
              IF op.kind = "create_node"
              THEN <<metrics.records_written["snapshot_checkpoint"], increment(metrics.nodes_created, 1),
                     metrics.nodes_removed, metrics.snapshot_checkpoints_saved, metrics.gc_runs>>
              ELSE CountFields(metrics)
         /\ op.kind = "create_node" =>
              NodeGauges(metrics') = <<Cardinality(ActiveNodes(registry')),
                                       Cardinality({ n \in Nodes : registry'[n] = "removed" }),
                                       Cardinality({ n \in Nodes : checkpoint_index'[n] # None })>>
         /\ SegmentFields(metrics') = SegmentFields(metrics) /\ WriterGauges(metrics') = WriterGauges(metrics)
         /\ SyncGauge(metrics') = SyncGauge(metrics) /\ LoadField(metrics') = LoadField(metrics)
         /\ UNCHANGED <<deleted_segments, segments_at_open, loads>>
<1>m. metrics \in MetricsType
  BY DEF MetricsInv, CounterTypes
<1>u. UNCHANGED <<deleted_segments, segments_at_open, loads>>
  BY DEF RegistryDirM, Sets
<1>1. CASE op.kind = "create_node"
  <2> DEFINE w == node_created(metrics)
             x == node_counts_changed(w, registry')
  <2>1. metrics' = checkpoint_index_changed(x, checkpoint_index')
    BY <1>1 DEF RegistryDirM, Sets
  <2>2. /\ w \in MetricsType
        /\ CountFields(w) = <<metrics.records_written["snapshot_checkpoint"], increment(metrics.nodes_created, 1),
                              metrics.nodes_removed, metrics.snapshot_checkpoints_saved, metrics.gc_runs>>
        /\ SegmentFields(w) = SegmentFields(metrics) /\ WriterGauges(w) = WriterGauges(metrics)
        /\ SyncGauge(w) = SyncGauge(metrics) /\ LoadField(w) = LoadField(metrics)
    BY <1>m, NodeCreated
  <2> HIDE DEF w
  <2>3. /\ x \in MetricsType
        /\ NodeGauges(x) = <<Cardinality(ActiveNodes(registry')),
                             Cardinality({ n \in Nodes : registry'[n] = "removed" }), w.checkpoint_index_nodes>>
        /\ CountFields(x) = CountFields(w) /\ SegmentFields(x) = SegmentFields(w)
        /\ WriterGauges(x) = WriterGauges(w) /\ SyncGauge(x) = SyncGauge(w) /\ LoadField(x) = LoadField(w)
    BY <2>2, NodeCountsChanged
  <2> HIDE DEF x
  <2>4. /\ x.active_nodes = Cardinality(ActiveNodes(registry'))
        /\ x.removed_nodes = Cardinality({ n \in Nodes : registry'[n] = "removed" })
    BY <2>3 DEF NodeGauges
  <2>5. /\ metrics' \in MetricsType
        /\ NodeGauges(metrics') =
             <<x.active_nodes, x.removed_nodes, Cardinality({ n \in Nodes : checkpoint_index'[n] # None })>>
        /\ CountFields(metrics') = CountFields(x) /\ SegmentFields(metrics') = SegmentFields(x)
        /\ WriterGauges(metrics') = WriterGauges(x) /\ SyncGauge(metrics') = SyncGauge(x)
        /\ LoadField(metrics') = LoadField(x)
    BY <2>1, <2>3, CheckpointIndexChanged
  <2>6. CounterTypes'
    BY <1>u, <2>5 DEF MetricsInv, CounterTypes
  <2> QED BY <1>1, <1>u, <2>2, <2>3, <2>4, <2>5, <2>6
<1>2. CASE op.kind # "create_node"
  <2>1. metrics' = metrics
    BY <1>2 DEF RegistryDirM, Sets
  <2> QED BY <1>2, <1>u, <2>1 DEF MetricsInv, CounterTypes
<1> QED BY <1>1, <1>2

\* The end of save_snapshot and of remove_node.
LEMMA ReturnMEffect ==
  ASSUME MetricsInv, IInv, IInv', ReturnM
  PROVE  /\ CounterTypes'
         /\ CountFields(metrics') =
              <<metrics.records_written["snapshot_checkpoint"], metrics.nodes_created,
                IF op.kind = "remove_node" THEN increment(metrics.nodes_removed, 1) ELSE metrics.nodes_removed,
                IF op.kind = "save_snapshot" THEN increment(metrics.snapshot_checkpoints_saved, 1)
                ELSE metrics.snapshot_checkpoints_saved,
                metrics.gc_runs>>
         /\ NodeGauges(metrics') =
              IF op.kind = "remove_node"
              THEN <<Cardinality(ActiveNodes(registry)), Cardinality({ n \in Nodes : registry[n] = "removed" }),
                     Cardinality({ n \in Nodes : checkpoint_index[n] # None })>>
              ELSE NodeGauges(metrics)
         /\ SegmentFields(metrics') = SegmentFields(metrics) /\ WriterGauges(metrics') = WriterGauges(metrics)
         /\ SyncGauge(metrics') = SyncGauge(metrics) /\ LoadField(metrics') = LoadField(metrics)
         /\ UNCHANGED <<deleted_segments, segments_at_open, loads>>
<1>m. metrics \in MetricsType
  BY DEF MetricsInv, CounterTypes
<1>u. UNCHANGED <<deleted_segments, segments_at_open, loads>>
  BY DEF ReturnM, Sets
<1>1. CASE op.kind = "remove_node"
  <2> DEFINE w == node_removed(metrics)
             x == node_counts_changed(w, registry)
  <2>1. metrics' = checkpoint_index_changed(x, checkpoint_index)
    BY <1>1 DEF ReturnM, Sets
  <2>2. /\ w \in MetricsType
        /\ CountFields(w) = <<metrics.records_written["snapshot_checkpoint"], metrics.nodes_created,
                              increment(metrics.nodes_removed, 1), metrics.snapshot_checkpoints_saved,
                              metrics.gc_runs>>
        /\ SegmentFields(w) = SegmentFields(metrics) /\ WriterGauges(w) = WriterGauges(metrics)
        /\ SyncGauge(w) = SyncGauge(metrics) /\ LoadField(w) = LoadField(metrics)
    BY <1>m, NodeRemoved
  <2> HIDE DEF w
  <2>3. /\ x \in MetricsType
        /\ NodeGauges(x) = <<Cardinality(ActiveNodes(registry)),
                             Cardinality({ n \in Nodes : registry[n] = "removed" }), w.checkpoint_index_nodes>>
        /\ CountFields(x) = CountFields(w) /\ SegmentFields(x) = SegmentFields(w)
        /\ WriterGauges(x) = WriterGauges(w) /\ SyncGauge(x) = SyncGauge(w) /\ LoadField(x) = LoadField(w)
    BY <2>2, NodeCountsChanged
  <2> HIDE DEF x
  <2>4. /\ x.active_nodes = Cardinality(ActiveNodes(registry))
        /\ x.removed_nodes = Cardinality({ n \in Nodes : registry[n] = "removed" })
    BY <2>3 DEF NodeGauges
  <2>5. /\ metrics' \in MetricsType
        /\ NodeGauges(metrics') =
             <<x.active_nodes, x.removed_nodes, Cardinality({ n \in Nodes : checkpoint_index[n] # None })>>
        /\ CountFields(metrics') = CountFields(x) /\ SegmentFields(metrics') = SegmentFields(x)
        /\ WriterGauges(metrics') = WriterGauges(x) /\ SyncGauge(metrics') = SyncGauge(x)
        /\ LoadField(metrics') = LoadField(x)
    BY <2>1, <2>3, CheckpointIndexChanged
  <2>6. CounterTypes'
    BY <1>u, <2>5 DEF MetricsInv, CounterTypes
  <2> QED BY <1>1, <1>u, <2>2, <2>3, <2>4, <2>5, <2>6
<1>2. CASE op.kind = "save_snapshot"
  <2>1. metrics' = snapshot_checkpoint_saved(metrics)
    BY <1>2 DEF ReturnM, Sets
  <2>2. /\ metrics' \in MetricsType
        /\ CountFields(metrics') = <<metrics.records_written["snapshot_checkpoint"], metrics.nodes_created,
                                     metrics.nodes_removed, increment(metrics.snapshot_checkpoints_saved, 1),
                                     metrics.gc_runs>>
        /\ SegmentFields(metrics') = SegmentFields(metrics) /\ NodeGauges(metrics') = NodeGauges(metrics)
        /\ WriterGauges(metrics') = WriterGauges(metrics) /\ SyncGauge(metrics') = SyncGauge(metrics)
        /\ LoadField(metrics') = LoadField(metrics)
    BY <1>m, <2>1, CheckpointSaved
  <2>3. CounterTypes'
    BY <1>u, <2>2 DEF MetricsInv, CounterTypes
  <2> QED BY <1>2, <1>u, <2>2, <2>3
<1>3. CASE op.kind \notin {"remove_node", "save_snapshot"}
  <2>1. metrics' = metrics
    BY <1>3 DEF ReturnM, Sets
  <2>2. CounterTypes'
    BY <1>u, <2>1 DEF MetricsInv, CounterTypes
  <2>3. CountFields(metrics) = <<metrics.records_written["snapshot_checkpoint"], metrics.nodes_created,
                                 metrics.nodes_removed, metrics.snapshot_checkpoints_saved, metrics.gc_runs>>
    BY DEF CountFields
  <2> QED BY <1>3, <1>u, <2>1, <2>2, <2>3
<1> QED BY <1>1, <1>2, <1>3

\* ensure_node_exists rejects a call of a node that is unknown or removed.
LEMMA RejectEffect ==
  ASSUME MetricsInv, IInv, NEW n \in Nodes, NEW operation \in Operations, Reject(n, operation)
  PROVE  /\ CounterTypes'
         /\ CountFields(metrics') = CountFields(metrics) /\ SegmentFields(metrics') = SegmentFields(metrics)
         /\ NodeGauges(metrics') = NodeGauges(metrics) /\ WriterGauges(metrics') = WriterGauges(metrics)
         /\ SyncGauge(metrics') = SyncGauge(metrics) /\ LoadField(metrics') = LoadField(metrics)
         /\ UNCHANGED <<vars, deleted_segments, segments_at_open, loads>>
<1>m. metrics \in MetricsType
  BY DEF MetricsInv, CounterTypes
<1>1. registry[n] \in {"unknown", "removed"}
  BY DEF Reject, IInv, TypeOK, Registry, Status
<1>2. /\ metrics' = rejected_operation(metrics, operation, registry[n])
      /\ UNCHANGED <<deleted_segments, segments_at_open, loads>> /\ UNCHANGED vars
  BY DEF Reject, Sets
<1> QED BY <1>m, <1>1, <1>2, RejectedOperation DEF MetricsInv, CounterTypes

-------------------------------------------------------------------------------
(***************************************************************************)
(* What load and load_all replay: finitely many records, and of each state *)
(* one checkpoint, the newest of the node.                                 *)
(***************************************************************************)

\* There are finitely many records.
LEMMA FiniteRecords ==
  ASSUME TypeOK
  PROVE  IsFiniteSet(RecordsIn(cells, SegIds))
<1> DEFINE records(s) == { [seg |-> s, off |-> o] : o \in HeaderLen .. Len(cells[s]) - 1 }
           f == [s \in SegIds |-> records(s)]
           segs == { records(s) : s \in SegIds }
<1>1. IsFiniteSet(SegIds)
  BY SegmentIdAssumption, FS_Interval DEF SegIds
<1>2. ASSUME NEW s \in SegIds
      PROVE  IsFiniteSet(records(s))
  <2> DEFINE offs == HeaderLen .. Len(cells[s]) - 1
             g == [o \in offs |-> [seg |-> s, off |-> o]]
             R == { [seg |-> s, off |-> o] : o \in offs }
  <2>1. Len(cells[s]) - 1 \in Int /\ HeaderLen \in Int
    BY DEF TypeOK, HeaderLen
  <2>2. IsFiniteSet(offs)
    BY <2>1, FS_Interval
  <2> HIDE DEF offs
  <2>3. g \in Surjection(offs, R)
    BY DEF Surjection
  <2>4. IsFiniteSet(R)
    <3> HIDE DEF g, R
    <3> QED BY <2>2, <2>3, FS_Surjection
  <2> QED BY <2>4 DEF offs
<1> HIDE DEF records
<1>3. f \in Surjection(SegIds, segs)
  BY DEF Surjection
<1>4. IsFiniteSet(segs)
  <2> HIDE DEF f, segs
  <2> QED BY <1>1, <1>3, FS_Surjection
<1>5. \A T \in segs : IsFiniteSet(T)
  BY <1>2
<1>6. IsFiniteSet(UNION segs)
  <2> HIDE DEF segs
  <2> QED BY <1>4, <1>5, FS_UNION
<1> QED BY <1>6 DEF RecordsIn, records

\* The counts that a replay of these positions adds.
LEMMA ReplayedEffect ==
  ASSUME metrics \in MetricsType, TypeOK, NEW applied \in SUBSET RecordsIn(cells, SegIds), NEW count \in Nat,
         Cardinality({ p \in applied : CellAt(cells, p).checkpoint }) = count
  PROVE  LET r == Replayed(applied) IN
         /\ r \in MetricsType
         /\ LoadField(r) = increment(LoadField(metrics), count)
         /\ CountFields(r) = CountFields(metrics) /\ SegmentFields(r) = SegmentFields(metrics)
         /\ NodeGauges(r) = NodeGauges(metrics) /\ WriterGauges(r) = WriterGauges(metrics)
         /\ SyncGauge(r) = SyncGauge(metrics)
<1> DEFINE P(kind) == { p \in applied : metric_kind(CellAt(cells, p)) = kind }
           others == Cardinality(P("other"))
           x == record_replayed(metrics, "other", others)
<1>1. P("snapshot_checkpoint") = { p \in applied : CellAt(cells, p).checkpoint }
  BY DEF metric_kind
<1>2. others \in Nat
  <2>1. P("other") \in SUBSET RecordsIn(cells, SegIds)
    OBVIOUS
  <2> HIDE DEF P
  <2>2. IsFiniteSet(P("other"))
    BY <2>1, FiniteRecords, FS_Subset
  <2> QED BY <2>2, FS_CardinalityType
<1>3. Replayed(applied) = record_replayed(x, "snapshot_checkpoint", count)
  BY <1>1 DEF Replayed
<1> HIDE DEF P, others
<1>k. "other" \in Kinds /\ "snapshot_checkpoint" \in Kinds
  BY DEF Kinds
<1>4. /\ x \in MetricsType
      /\ LoadField(x) = LoadField(metrics)
      /\ CountFields(x) = CountFields(metrics) /\ SegmentFields(x) = SegmentFields(metrics)
      /\ NodeGauges(x) = NodeGauges(metrics) /\ WriterGauges(x) = WriterGauges(metrics)
      /\ SyncGauge(x) = SyncGauge(metrics)
  BY <1>2, <1>k, RecordReplayed
<1> HIDE DEF x
<1>5. LET r == record_replayed(x, "snapshot_checkpoint", count) IN
      /\ r \in MetricsType
      /\ LoadField(r) = increment(LoadField(x), count)
      /\ CountFields(r) = CountFields(x) /\ SegmentFields(r) = SegmentFields(x)
      /\ NodeGauges(r) = NodeGauges(x) /\ WriterGauges(r) = WriterGauges(x)
      /\ SyncGauge(r) = SyncGauge(x)
  BY <1>4, <1>k, RecordReplayed
<1> QED BY <1>3, <1>4, <1>5

\* The newest checkpoint of n.
Newest(n) == Latest(CheckpointsOf(cells, SegIds, n))

\* The state of an active node starts at its newest checkpoint, and has no
\* other.
LEMMA OneCheckpoint ==
  ASSUME IInv, RootedInv, NEW n \in ActiveNodes(nodes_json)
  PROVE  /\ Expected(n) \subseteq RecordsIn(cells, SegIds)
         /\ { p \in Expected(n) : CellAt(cells, p).checkpoint } = {Newest(n)}
         /\ CellAt(cells, Newest(n)).node = n
<1> DEFINE C == CheckpointsOf(cells, SegIds, n)
           m == Latest(C)
           b == [s \in SegIds |-> Len(cells[s])]
<1>t. TypeOK /\ SegIds \in SUBSET SegIds /\ cells \in [SegIds -> Seq(Cell)] /\ dir \in SUBSET SegIds
  BY DEF IInv, TypeOK
<1>1. /\ RecordsOf(cells, SegIds, n) \subseteq Position
      /\ C \subseteq RecordsOf(cells, SegIds, n)
      /\ \A p \in RecordsOf(cells, SegIds, n) : p.off <= Len(cells[p.seg])
  BY <1>t, RecordTypes
<1>2. PICK q \in Position : GoodEntry(n, q)
  BY DEF RootedInv, Rooted
<1>3. q \in CheckpointsOf(cells, dir, n)
  BY <1>t, <1>2, ValidIsCheckpoint DEF GoodEntry
<1>4. q \in C
  BY <1>3, <1>t, RecordTypes
<1>5. b \in [SegIds -> Nat] /\ \A p \in C : p.off <= b[p.seg]
  BY <1>1, <1>t DEF Position
<1>6. m \in C /\ \A p \in C : ~Before(m, p)
  <2>1. C \in SUBSET Position /\ C # {}
    BY <1>1, <1>4
  <2> HIDE DEF C, b
  <2> QED BY <1>5, <2>1, LatestExists
<1> HIDE DEF m
<1>7. ASSUME NEW p \in C, \A r \in C : ~Before(p, r)
      PROVE  p = m
  BY <1>1, <1>6, <1>7, BeforeIsOrder
<1>8. { p \in Expected(n) : CellAt(cells, p).checkpoint } = { p \in C : \A r \in C : ~Before(p, r) }
  BY <1>1 DEF Expected, CheckpointsOf
<1>9. { p \in C : \A r \in C : ~Before(p, r) } = {m}
  BY <1>6, <1>7
<1>10. CellAt(cells, m).node = n
  BY <1>6 DEF CheckpointsOf, RecordsOf
<1>11. Expected(n) \subseteq RecordsIn(cells, SegIds)
  BY DEF Expected, RecordsOf
<1> QED BY <1>8, <1>9, <1>10, <1>11 DEF Newest, m

\* load counts one checkpoint record ...
LEMMA LoadNodeEffect ==
  ASSUME MetricsInv, IInv, RootedInv, LoadCorrect, NEW n \in Nodes, LoadNode(n)
  PROVE  /\ CounterTypes'
         /\ LoadField(metrics') = loads'
         /\ CountFields(metrics') = CountFields(metrics) /\ SegmentFields(metrics') = SegmentFields(metrics)
         /\ NodeGauges(metrics') = NodeGauges(metrics) /\ WriterGauges(metrics') = WriterGauges(metrics)
         /\ SyncGauge(metrics') = SyncGauge(metrics)
         /\ UNCHANGED <<vars, deleted_segments, segments_at_open>>
<1>m. metrics \in MetricsType /\ loads \in Counter /\ LoadField(metrics) = loads /\ TypeOK
  BY DEF MetricsInv, CounterTypes, LoadCountInv, LoadField, IInv
<1>1. pc = "idle" /\ n \in ActiveNodes(registry)
  BY DEF LoadNode, ActiveNodes
<1>2. n \in ActiveNodes(nodes_json)
  BY <1>1, EntryIsCheckpoint
<1>3. replay_node_state(cells, dir, n, checkpoint_index[n]) = Expected(n)
  BY <1>1 DEF LoadCorrect
<1>4. metrics' = Replayed(Expected(n)) /\ loads' = increment(loads, 1)
      /\ UNCHANGED <<vars, deleted_segments, segments_at_open>>
  BY <1>3 DEF LoadNode
<1>5. Expected(n) \subseteq RecordsIn(cells, SegIds)
      /\ Cardinality({ p \in Expected(n) : CellAt(cells, p).checkpoint }) = 1
  BY <1>2, OneCheckpoint, FS_Singleton
<1>6. /\ metrics' \in MetricsType
      /\ LoadField(metrics') = increment(LoadField(metrics), 1)
      /\ CountFields(metrics') = CountFields(metrics) /\ SegmentFields(metrics') = SegmentFields(metrics)
      /\ NodeGauges(metrics') = NodeGauges(metrics) /\ WriterGauges(metrics') = WriterGauges(metrics)
      /\ SyncGauge(metrics') = SyncGauge(metrics)
  BY <1>m, <1>4, <1>5, ReplayedEffect
<1>7. loads' \in Counter
  BY <1>m, <1>4, Increment
<1> QED BY <1>m, <1>4, <1>6, <1>7 DEF MetricsInv, CounterTypes

\* ... and load_all one of each active node: the newest checkpoints of
\* different nodes are different records.
LEMMA LoadAllEffect ==
  ASSUME MetricsInv, IInv, RootedInv, LoadAllCorrect, LoadAll
  PROVE  /\ CounterTypes'
         /\ LoadField(metrics') = loads'
         /\ CountFields(metrics') = CountFields(metrics) /\ SegmentFields(metrics') = SegmentFields(metrics)
         /\ NodeGauges(metrics') = NodeGauges(metrics) /\ WriterGauges(metrics') = WriterGauges(metrics)
         /\ SyncGauge(metrics') = SyncGauge(metrics)
         /\ UNCHANGED <<vars, deleted_segments, segments_at_open>>
<1> DEFINE targets == ActiveNodes(registry)
           applied == UNION { Expected(n) : n \in targets }
           K == { p \in applied : CellAt(cells, p).checkpoint }
           f == [n \in targets |-> Newest(n)]
<1>m. metrics \in MetricsType /\ loads \in Counter /\ LoadField(metrics) = loads /\ TypeOK
  BY DEF MetricsInv, CounterTypes, LoadCountInv, LoadField, IInv
<1>1. pc = "idle" /\ targets # {}
  BY DEF LoadAll
<1>2. replay_storage_dir(cells, dir, targets, checkpoint_index) = [n \in targets |-> Expected(n)]
  BY <1>1 DEF LoadAllCorrect
<1>3. UNION { replay_storage_dir(cells, dir, targets, checkpoint_index)[n] : n \in targets } = applied
  BY <1>2
<1>4. metrics' = Replayed(applied) /\ loads' = increment(loads, Cardinality(targets))
      /\ UNCHANGED <<vars, deleted_segments, segments_at_open>>
  BY <1>3 DEF LoadAll
<1>5. ASSUME NEW n \in targets
      PROVE  /\ Expected(n) \subseteq RecordsIn(cells, SegIds)
             /\ { p \in Expected(n) : CellAt(cells, p).checkpoint } = {Newest(n)}
             /\ CellAt(cells, Newest(n)).node = n
  <2>1. n \in ActiveNodes(nodes_json)
    BY <1>1, EntryIsCheckpoint
  <2> QED BY <2>1, OneCheckpoint
<1>6. applied \in SUBSET RecordsIn(cells, SegIds)
  BY <1>5
<1>7. IsFiniteSet(targets) /\ Cardinality(targets) \in Nat
  BY NodesAssumption, FS_Subset, FS_CardinalityType DEF ActiveNodes
<1>8. Cardinality(K) = Cardinality(targets)
  <2>0. K = { Newest(n) : n \in targets }
    BY <1>5
  <2>1. f \in [targets -> K]
    BY <2>0
  <2>2. \A n, o \in targets : f[n] = f[o] => n = o
    BY <1>5
  <2>3. \A p \in K : \E n \in targets : f[n] = p
    BY <2>0
  <2> HIDE DEF f, K, targets
  <2>4. f \in Bijection(targets, K)
    BY <2>1, <2>2, <2>3 DEF Bijection, Injection, Surjection, IsInjective
  <2> QED BY <1>7, <2>4, FS_Bijection DEF ExistsBijection
<1>9. LET r == Replayed(applied) IN
      /\ r \in MetricsType
      /\ LoadField(r) = increment(LoadField(metrics), Cardinality(targets))
      /\ CountFields(r) = CountFields(metrics) /\ SegmentFields(r) = SegmentFields(metrics)
      /\ NodeGauges(r) = NodeGauges(metrics) /\ WriterGauges(r) = WriterGauges(metrics)
      /\ SyncGauge(r) = SyncGauge(metrics)
  <2> HIDE DEF applied, targets
  <2> QED BY <1>m, <1>6, <1>7, <1>8, ReplayedEffect
<1> HIDE DEF applied, targets
<1>10. loads' \in Counter
  BY <1>m, <1>4, <1>7, Increment
<1> QED BY <1>m, <1>4, <1>9, <1>10 DEF MetricsInv, CounterTypes

-------------------------------------------------------------------------------
(***************************************************************************)
(* The parts of MetricsInv are inductive.                                  *)
(***************************************************************************)

\* What is known of the engine.
EngineInv == IInv /\ CallInv /\ RootedInv /\ LoadCorrect /\ LoadAllCorrect

\* Loads and rejections, which leave the engine as it is.
Requests == LoadAll \/ \E n \in Nodes : LoadNode(n) \/ \E operation \in Operations : Reject(n, operation)

\* A load or a rejection changes no counter but its own.
LEMMA RequestsEffect ==
  ASSUME MetricsInv, EngineInv, Requests
  PROVE  /\ CounterTypes'
         /\ LoadField(metrics') = loads'
         /\ CountFields(metrics') = CountFields(metrics) /\ SegmentFields(metrics') = SegmentFields(metrics)
         /\ NodeGauges(metrics') = NodeGauges(metrics) /\ WriterGauges(metrics') = WriterGauges(metrics)
         /\ SyncGauge(metrics') = SyncGauge(metrics)
         /\ UNCHANGED <<vars, deleted_segments, segments_at_open>>
<1>1. CASE LoadAll
  BY <1>1, LoadAllEffect DEF EngineInv
<1>2. ASSUME NEW n \in Nodes, LoadNode(n)
      PROVE  /\ CounterTypes'
             /\ LoadField(metrics') = loads'
             /\ CountFields(metrics') = CountFields(metrics) /\ SegmentFields(metrics') = SegmentFields(metrics)
             /\ NodeGauges(metrics') = NodeGauges(metrics) /\ WriterGauges(metrics') = WriterGauges(metrics)
             /\ SyncGauge(metrics') = SyncGauge(metrics)
             /\ UNCHANGED <<vars, deleted_segments, segments_at_open>>
  BY <1>2, LoadNodeEffect DEF EngineInv
<1>3. ASSUME NEW n \in Nodes, NEW operation \in Operations, Reject(n, operation)
      PROVE  /\ CounterTypes'
             /\ LoadField(metrics') = loads'
             /\ CountFields(metrics') = CountFields(metrics) /\ SegmentFields(metrics') = SegmentFields(metrics)
             /\ NodeGauges(metrics') = NodeGauges(metrics) /\ WriterGauges(metrics') = WriterGauges(metrics)
             /\ SyncGauge(metrics') = SyncGauge(metrics)
             /\ UNCHANGED <<vars, deleted_segments, segments_at_open>>
  <2>1. LoadField(metrics) = loads
    BY DEF MetricsInv, LoadCountInv, LoadField
  <2> QED BY <1>3, <2>1, RejectEffect DEF EngineInv
<1> QED BY <1>1, <1>2, <1>3 DEF Requests

\* The disjuncts of the next-state relation.
LEMMA MetricsCases ==
  ASSUME [MNext]_<<vars, counters>>
  PROVE  \/ OpenRecoverM \/ OpenLoadM \/ OpenFileM \/ SyncM \/ RotateSyncM \/ RotateDirM \/ WriteM \/ WriterSyncM
         \/ IndexDirM \/ RegistryDirM \/ GcStartM \/ GcDeleteM \/ ReturnM \/ Requests
         \/ Uncounted /\ UNCHANGED counters
         \/ GoneM
         \/ UNCHANGED <<vars, counters>>
  BY DEF MNext, Requests

\* The counters keep their types.
LEMMA CounterTypesStep ==
  ASSUME MetricsInv, EngineInv, IInv', [MNext]_<<vars, counters>>
  PROVE  CounterTypes'
<1>i. IInv
  BY DEF EngineInv
<1>1. CASE UNCHANGED counters
  BY <1>1 DEF counters, MetricsInv, CounterTypes
<1> QED BY <1>i, <1>1, MetricsCases, OpenRecoverMEffect, OpenLoadMEffect, OpenFileMEffect, SyncMEffect, RotateSyncMEffect,
           RotateDirMEffect, WriteMEffect, WriterSyncMEffect, IndexDirMEffect, RegistryDirMEffect, GcStartMEffect,
           GcDeleteMEffect, ReturnMEffect, RequestsEffect, GoneMEffect

\* A call ends before the next one begins, and no engine keeps a count of
\* pending appends when it is gone.
LEMMA IdleStep ==
  ASSUME IdleInv, IInv, [Next]_vars
  PROVE  IdleInv'
<1> USE DEF segments, content, metadata, memory, writer, call
<1>1. CASE Close \/ ProcessCrash \/ PowerLoss
  BY <1>1 DEF Close, ProcessCrash, PowerLoss, NoEngine, NoOp, IdleInv
<1>2. CASE Return \/ RotateFails
  BY <1>2 DEF Return, RotateFails, NoOp, IdleInv
<1>3. CASE Open \/ LoseIndex
  BY <1>3 DEF Open, OpenRecover, OpenLoad, OpenExisting, OpenCreate, OpenMagic, OpenDir, LoseIndex, IdleInv, Opening
<1>4. CASE Begin
  BY <1>4 DEF Begin, CreateNode, SaveRecord, SaveSnapshot, RemoveNode, BeginAppend, Sync, IdleInv, Opening
<1>5. CASE Proceed /\ ~Return /\ ~RotateFails
  <2>1. pc' \notin Opening \cup {"closed", "refused", "idle"}
    BY <1>5 DEF Proceed, AppendSteps, RotateSync, RotateCreate, RotateMagic, RotateDir, Write, AppendSync, SyncCall,
       IndexReplace, IndexDir, RegistryReplace, RegistryDir, GcStart, GcDelete, GcDir, Opening
  <2> QED BY <2>1 DEF IdleInv
<1>6. CASE UNCHANGED vars
  BY <1>6 DEF vars, IdleInv
<1> QED BY <1>1, <1>2, <1>3, <1>4, <1>5, <1>6 DEF Next, Fault

\* The gauges of the nodes and of the index: create_node sets them with the
\* registry and the index, save_snapshot the one of the index with the index,
\* remove_node when it returns.
LEMMA NodeGaugeStep ==
  ASSUME MetricsInv, EngineInv, IInv', [MNext]_<<vars, counters>>, pc' \in Loaded, op'.kind # "remove_node"
  PROVE  NodeGauges(metrics') = <<Cardinality(ActiveNodes(registry')),
                                  Cardinality({ n \in Nodes : registry'[n] = "removed" }),
                                  Cardinality({ n \in Nodes : checkpoint_index'[n] # None })>>
<1> USE DEF segments, content, metadata, memory, writer, call
<1>i. IInv /\ IdleInv
  BY DEF MetricsInv, EngineInv
<1>l. /\ "idle" \in Loaded /\ "index_dir" \in Loaded /\ "return" \in Loaded
      /\ {"closed", "refused", "open_load"} \cap Loaded = {}
  BY DEF Loaded, Recovered, Locations
<1>o. ASSUME pc \in Loaded, op.kind # "remove_node"
      PROVE  NodeGauges(metrics) = <<Cardinality(ActiveNodes(registry)),
                                     Cardinality({ n \in Nodes : registry[n] = "removed" }),
                                     Cardinality({ n \in Nodes : checkpoint_index[n] # None })>>
  BY <1>o DEF MetricsInv, GaugeInv, NodeGauges
\* A step that leaves registry, index and gauges alone.
<1>k. ASSUME pc \in Loaded, op.kind # "remove_node", UNCHANGED <<registry, checkpoint_index>>,
             NodeGauges(metrics') = NodeGauges(metrics)
      PROVE  NodeGauges(metrics') = <<Cardinality(ActiveNodes(registry')),
                                      Cardinality({ n \in Nodes : registry'[n] = "removed" }),
                                      Cardinality({ n \in Nodes : checkpoint_index'[n] # None })>>
  BY <1>o, <1>k
<1>1. CASE OpenRecoverM \/ GoneM
  <2>1. pc' \in {"closed", "refused", "open_load"}
    BY <1>1 DEF OpenRecoverM, OpenRecover, GoneM, Close, Fault, ProcessCrash, PowerLoss, LoseIndex, NoEngine
  <2> QED BY <1>l, <2>1
<1>2. CASE OpenLoadM
  BY <1>i, <1>2, OpenLoadMEffect
<1>3. CASE IndexDirM
  <2>1. pc = "index_dir" /\ op' = op /\ registry' = registry /\ op.kind # "remove_node"
        /\ (op.kind = "create_node" => checkpoint_index' = checkpoint_index)
    BY <1>3 DEF IndexDirM, IndexDir
  <2>2. op.kind \in {"create_node", "save_snapshot"}
    BY <1>i, <2>1 DEF IInv, OpInv
  <2>3. pc \in Loaded
    BY <1>l, <2>1
  <2>4. CASE op.kind = "create_node"
    BY <1>i, <1>k, <1>3, <2>1, <2>3, <2>4, IndexDirMEffect
  <2>5. CASE op.kind = "save_snapshot"
    <3>1. NodeGauges(metrics') = <<metrics.active_nodes, metrics.removed_nodes,
                                   Cardinality({ n \in Nodes : checkpoint_index'[n] # None })>>
      BY <1>i, <1>3, <2>5, IndexDirMEffect
    <3>2. /\ metrics.active_nodes = Cardinality(ActiveNodes(registry))
          /\ metrics.removed_nodes = Cardinality({ n \in Nodes : registry[n] = "removed" })
      BY <2>1, <2>3 DEF MetricsInv, GaugeInv
    <3> QED BY <2>1, <3>1, <3>2
  <2> QED BY <2>2, <2>4, <2>5
<1>4. CASE RegistryDirM
  <2>1. pc = "registry_dir" /\ op' = op
    BY <1>4 DEF RegistryDirM, RegistryDir
  <2>2. op.kind = "create_node"
    BY <1>i, <2>1 DEF IInv, OpInv
  <2> QED BY <1>i, <1>4, <2>2, RegistryDirMEffect
<1>5. CASE ReturnM
  <2>1. pc = "return" /\ UNCHANGED <<registry, checkpoint_index>>
    BY <1>5 DEF ReturnM, Return
  <2>2. CASE op.kind = "remove_node"
    BY <1>i, <1>5, <2>1, <2>2, ReturnMEffect
  <2>3. CASE op.kind # "remove_node"
    BY <1>i, <1>k, <1>l, <1>5, <2>1, <2>3, ReturnMEffect
  <2> QED BY <2>2, <2>3
<1>6. CASE OpenFileM
  <2>1. pc \in {"open_file", "open_dir"} /\ UNCHANGED <<registry, checkpoint_index, op>>
    BY <1>6 DEF OpenFileM, OpenExisting, OpenDir
  <2>2. pc \in Loaded
    BY <2>1 DEF Loaded, Recovered, Locations
  <2> QED BY <1>i, <1>k, <1>6, <2>1, <2>2, OpenFileMEffect
<1>7. CASE SyncM
  <2>1. pc = "idle" /\ UNCHANGED <<registry, checkpoint_index>>
    BY <1>7 DEF SyncM, Sync
  <2>2. op.kind # "remove_node"
    BY <1>i, <2>1 DEF IdleInv
  <2> QED BY <1>i, <1>k, <1>l, <1>7, <2>1, <2>2, SyncMEffect
<1>8. CASE RotateSyncM \/ RotateDirM \/ WriteM \/ WriterSyncM \/ GcStartM \/ GcDeleteM
  <2>1. /\ pc \in {"rotate_sync", "rotate_dir", "write", "append_sync", "sync", "gc", "gc_delete"}
        /\ UNCHANGED <<registry, checkpoint_index, op>>
    BY <1>8 DEF RotateSyncM, RotateSync, RotateDirM, RotateDir, WriteM, Write, WriterSyncM, AppendSync, SyncCall,
       WriterSync, GcStartM, GcStart, GcDeleteM, GcDelete
  <2>2. pc \in Loaded
    BY <2>1 DEF Loaded, Recovered, Locations
  <2>3. NodeGauges(metrics') = NodeGauges(metrics)
    BY <1>i, <1>8, RotateSyncMEffect, RotateDirMEffect, WriteMEffect, WriterSyncMEffect, GcStartMEffect, GcDeleteMEffect
  <2> QED BY <1>k, <2>1, <2>2, <2>3
<1>9. CASE Requests
  <2>1. UNCHANGED <<registry, checkpoint_index, op, pc>> /\ NodeGauges(metrics') = NodeGauges(metrics)
    BY <1>9, RequestsEffect DEF vars
  <2> QED BY <1>k, <2>1
<1>10. CASE Uncounted /\ UNCHANGED counters
  <2>1. UNCHANGED <<registry, checkpoint_index>>
    BY <1>10 DEF Uncounted, OpenCreate, OpenMagic, CreateNode, SaveRecord, SaveSnapshot, RemoveNode, RotateFails,
       RotateCreate, RotateMagic, IndexReplace, RegistryReplace, GcDir
  <2>2. \/ pc = "idle"
        \/ pc = "rotate_create"
        \/ pc \in {"open_file", "open_magic", "rotate_magic", "index_replace", "registry_replace", "gc_dir"} /\ op' = op
    BY <1>10 DEF Uncounted, OpenCreate, OpenMagic, CreateNode, SaveRecord, SaveSnapshot, RemoveNode, RotateFails,
       RotateCreate, RotateMagic, IndexReplace, RegistryReplace, GcDir
  <2>3. op.kind # "remove_node"
    BY <1>i, <2>2 DEF IInv, OpInv, IdleInv
  <2>4. pc \in Loaded
    BY <2>2 DEF Loaded, Recovered, Locations
  <2>5. metrics' = metrics
    BY <1>10 DEF counters
  <2> QED BY <1>k, <2>1, <2>3, <2>4, <2>5
<1>11. CASE UNCHANGED <<vars, counters>>
  <2>1. UNCHANGED <<registry, checkpoint_index, op, pc, metrics>>
    BY <1>11 DEF vars, counters
  <2> QED BY <1>k, <2>1
<1> QED BY <1>1, <1>2, <1>3, <1>4, <1>5, <1>6, <1>7, <1>8, <1>9, <1>10, <1>11, MetricsCases

\* The gauges of the active segment: set when the writer is opened, rotates
\* or writes.
LEMMA WriterGaugeStep ==
  ASSUME MetricsInv, EngineInv, IInv', [MNext]_<<vars, counters>>, pc' \in Ready
  PROVE  WriterGauges(metrics') = <<active_segment', segment_len'>>
<1> USE DEF segments, content, metadata, memory, writer, call
<1>i. IInv
  BY DEF EngineInv
<1>r. /\ {"closed", "refused", "open_load", "open_file", "open_magic", "open_dir"} \cap Ready = {}
      /\ "write" \in Ready
  BY DEF Ready, Loaded, Recovered, Locations
<1>o. pc \in Ready => WriterGauges(metrics) = <<active_segment, segment_len>>
  BY DEF MetricsInv, GaugeInv, WriterGauges
<1>1. CASE OpenRecoverM \/ OpenLoadM \/ GoneM
  <2>1. pc' \in {"closed", "refused", "open_load", "open_file"}
    BY <1>1 DEF OpenRecoverM, OpenRecover, OpenLoadM, OpenLoad, GoneM, Close, Fault, ProcessCrash, PowerLoss, LoseIndex,
       NoEngine
  <2> QED BY <1>r, <2>1
<1>2. CASE OpenFileM
  <2>1. active_segment' = active_segment
    BY <1>2 DEF OpenFileM, OpenExisting, OpenDir
  <2> QED BY <1>i, <1>2, <2>1, OpenFileMEffect
<1>3. CASE RotateDirM
  BY <1>i, <1>3, RotateDirMEffect
<1>4. CASE WriteM
  <2>1. pc = "write" /\ active_segment' = active_segment
    BY <1>4 DEF WriteM, Write
  <2>2. metrics.active_append_segment_id = active_segment
    BY <1>r, <2>1 DEF MetricsInv, GaugeInv
  <2> QED BY <1>i, <1>4, <2>1, <2>2, WriteMEffect
<1>5. CASE SyncM \/ RotateSyncM \/ WriterSyncM \/ IndexDirM \/ RegistryDirM \/ GcStartM \/ GcDeleteM \/ ReturnM
  <2>1. /\ pc \in {"idle", "rotate_sync", "append_sync", "sync", "index_dir", "registry_dir", "gc", "gc_delete", "return"}
        /\ UNCHANGED <<active_segment, segment_len>>
    BY <1>5 DEF SyncM, Sync, RotateSyncM, RotateSync, WriterSyncM, AppendSync, SyncCall, WriterSync, IndexDirM, IndexDir,
       RegistryDirM, RegistryDir, GcStartM, GcStart, GcDeleteM, GcDelete, ReturnM, Return
  <2>2. pc \in Ready
    BY <2>1 DEF Ready, Loaded, Recovered, Locations
  <2>3. WriterGauges(metrics') = WriterGauges(metrics)
    BY <1>i, <1>5, SyncMEffect, RotateSyncMEffect, WriterSyncMEffect, IndexDirMEffect, RegistryDirMEffect,
       GcStartMEffect, GcDeleteMEffect, ReturnMEffect
  <2> QED BY <1>o, <2>1, <2>2, <2>3
<1>6. CASE Requests
  <2>1. UNCHANGED <<active_segment, segment_len, pc>> /\ WriterGauges(metrics') = WriterGauges(metrics)
    BY <1>6, RequestsEffect DEF vars
  <2> QED BY <1>o, <2>1
<1>7. CASE Uncounted /\ UNCHANGED counters
  <2>1. /\ UNCHANGED <<active_segment, segment_len>>
        /\ \/ pc \in {"idle", "rotate_create", "rotate_magic", "index_replace", "registry_replace", "gc_dir"}
           \/ pc' \in {"open_magic", "open_dir"}
    BY <1>7 DEF Uncounted, OpenCreate, OpenMagic, CreateNode, SaveRecord, SaveSnapshot, RemoveNode, RotateFails,
       RotateCreate, RotateMagic, IndexReplace, RegistryReplace, GcDir
  <2>2. pc \in Ready
    BY <1>r, <2>1 DEF Ready, Loaded, Recovered, Locations
  <2>3. metrics' = metrics
    BY <1>7 DEF counters
  <2> QED BY <1>o, <2>1, <2>2, <2>3
<1>8. CASE UNCHANGED <<vars, counters>>
  <2>1. UNCHANGED <<active_segment, segment_len, pc, metrics>>
    BY <1>8 DEF vars, counters
  <2> QED BY <1>o, <2>1
<1> QED BY <1>1, <1>2, <1>3, <1>4, <1>5, <1>6, <1>7, <1>8, MetricsCases

\* The gauge by which SegmentWriter::sync decides agrees with the count of
\* pending appends.
LEMMA SyncGaugeStep ==
  ASSUME MetricsInv, EngineInv, IInv', [MNext]_<<vars, counters>>
  PROVE  SyncGauge(metrics') = 0 <=> unsynced_records' = 0
<1> USE DEF segments, content, metadata, memory, writer, call
<1>i. IInv /\ IdleInv /\ unsynced_records \in Nat
  BY DEF MetricsInv, EngineInv, IInv, TypeOK
<1>o. SyncGauge(metrics) = 0 <=> unsynced_records = 0
  BY DEF MetricsInv, GaugeInv, SyncGauge
<1>1. CASE OpenRecoverM
  <2>1. unsynced_records' = 0
    BY <1>i, <1>1 DEF OpenRecoverM, OpenRecover, IdleInv
  <2> QED BY <1>i, <1>1, <2>1, OpenRecoverMEffect
<1>2. CASE GoneM
  <2>1. unsynced_records' = 0
    BY <1>i, <1>2 DEF GoneM, Close, Fault, ProcessCrash, PowerLoss, LoseIndex, NoEngine, IdleInv
  <2> QED BY <1>i, <1>2, <2>1, GoneMEffect
<1>3. CASE RotateSyncM \/ WriterSyncM
  <2>1. unsynced_records' = 0
    BY <1>3 DEF RotateSyncM, RotateSync, WriterSyncM, AppendSync, SyncCall, WriterSync
  <2> QED BY <1>i, <1>3, <2>1, RotateSyncMEffect, WriterSyncMEffect
<1>4. CASE WriteM
  <2>1. unsynced_records' # 0
    BY <1>i, <1>4 DEF WriteM, Write
  <2> QED BY <1>i, <1>4, <2>1, WriteMEffect
<1>5. CASE OpenLoadM \/ OpenFileM \/ SyncM \/ RotateDirM \/ IndexDirM \/ RegistryDirM \/ GcStartM \/ GcDeleteM \/ ReturnM
  <2>1. unsynced_records' = unsynced_records
    BY <1>5 DEF OpenLoadM, OpenLoad, OpenFileM, OpenExisting, OpenDir, SyncM, Sync, RotateDirM, RotateDir, IndexDirM,
       IndexDir, RegistryDirM, RegistryDir, GcStartM, GcStart, GcDeleteM, GcDelete, ReturnM, Return
  <2>2. SyncGauge(metrics') = SyncGauge(metrics)
    BY <1>i, <1>5, OpenLoadMEffect, OpenFileMEffect, SyncMEffect, RotateDirMEffect, IndexDirMEffect, RegistryDirMEffect,
       GcStartMEffect, GcDeleteMEffect, ReturnMEffect
  <2> QED BY <1>o, <2>1, <2>2
<1>6. CASE Requests
  <2>1. unsynced_records' = unsynced_records /\ SyncGauge(metrics') = SyncGauge(metrics)
    BY <1>6, RequestsEffect DEF vars
  <2> QED BY <1>o, <2>1
<1>7. CASE Uncounted /\ UNCHANGED counters
  <2>1. unsynced_records' = unsynced_records
    BY <1>7 DEF Uncounted, OpenCreate, OpenMagic, CreateNode, SaveRecord, SaveSnapshot, RemoveNode, RotateFails,
       RotateCreate, RotateMagic, IndexReplace, RegistryReplace, GcDir
  <2>2. metrics' = metrics
    BY <1>7 DEF counters
  <2> QED BY <1>o, <2>1, <2>2
<1>8. CASE UNCHANGED <<vars, counters>>
  <2>1. unsynced_records' = unsynced_records /\ metrics' = metrics
    BY <1>8 DEF vars, counters
  <2> QED BY <1>o, <2>1
<1> QED BY <1>1, <1>2, <1>3, <1>4, <1>5, <1>6, <1>7, <1>8, MetricsCases

\* GaugeInv is inductive.
LEMMA GaugeStep ==
  ASSUME MetricsInv, EngineInv, IInv', [MNext]_<<vars, counters>>
  PROVE  GaugeInv'
<1>1. pc' \in Loaded /\ op'.kind # "remove_node" =>
        /\ metrics'.active_nodes = Cardinality(ActiveNodes(registry'))
        /\ metrics'.removed_nodes = Cardinality({ n \in Nodes : registry'[n] = "removed" })
        /\ metrics'.checkpoint_index_nodes = Cardinality({ n \in Nodes : checkpoint_index'[n] # None })
  BY NodeGaugeStep DEF NodeGauges
<1>2. pc' \in Ready =>
        metrics'.active_append_segment_id = active_segment' /\ metrics'.active_append_segment_len = segment_len'
  BY WriterGaugeStep DEF WriterGauges
<1>3. metrics'.unsynced_records = 0 <=> unsynced_records' = 0
  BY SyncGaugeStep DEF SyncGauge
<1> QED BY <1>1, <1>2, <1>3 DEF GaugeInv

\* What a counter that is still exact says of its addends.
LEMMA ExactStep ==
  ASSUME NEW w \in Counter, NEW a \in Counter, NEW b \in Counter, NEW x \in {0, 1},
         Exact(w) => w = a + b + x
  PROVE  /\ x = 0 /\ Exact(increment(w, 1)) => increment(w, 1) = a + b + 1
         /\ x = 1 /\ Exact(w) => w = increment(a, 1) + b + 0 /\ w = a + increment(b, 1) + 0
  BY CounterAssumption DEF Counter, Exact, increment

\* The checkpoint records that are written are those of the calls that are
\* counted, and that of the call in progress.
LEMMA RecordCountStep ==
  ASSUME MetricsInv, EngineInv, IInv', [MNext]_<<vars, counters>>
  PROVE  RecordCountInv'
<1> USE DEF segments, content, metadata, memory, writer, call
<1> DEFINE w == metrics.records_written["snapshot_checkpoint"]
           c == metrics.nodes_created
           s == metrics.snapshot_checkpoints_saved
           x == PendingRecords
<1>i. IInv /\ IdleInv
  BY DEF MetricsInv, EngineInv
<1>t. w \in Counter /\ c \in Counter /\ s \in Counter
  BY DEF MetricsInv, CounterTypes, MetricsType, Kinds
<1>x. x \in {0, 1}
  BY DEF PendingRecords
<1>o. Exact(w) => w = c + s + x
  BY DEF MetricsInv, RecordCountInv
<1>f. CountFields(metrics) = <<w, c, metrics.nodes_removed, s, metrics.gc_runs>>
  BY DEF CountFields
\* A step that leaves the three counters and the pending record alone.
<1>k. ASSUME CountFields(metrics') = CountFields(metrics), PendingRecords' = PendingRecords
      PROVE  RecordCountInv'
  <2>1. metrics'.records_written["snapshot_checkpoint"] = w /\ metrics'.nodes_created = c
        /\ metrics'.snapshot_checkpoints_saved = s
    BY <1>k DEF CountFields
  <2> QED BY <1>o, <1>k, <2>1 DEF RecordCountInv
<1>1. CASE OpenRecoverM \/ GoneM
  <2>1. CountFields(metrics') = <<0, 0, 0, 0, 0>>
    BY <1>i, <1>1, OpenRecoverMEffect, GoneMEffect
  <2>2. pc' \in {"closed", "refused", "open_load"}
    BY <1>1 DEF OpenRecoverM, OpenRecover, GoneM, Close, Fault, ProcessCrash, PowerLoss, LoseIndex, NoEngine
  <2>3. PendingRecords' = 0
    BY <2>2 DEF PendingRecords, Collecting
  <2>4. metrics'.records_written["snapshot_checkpoint"] = 0 /\ metrics'.nodes_created = 0
        /\ metrics'.snapshot_checkpoints_saved = 0
    BY <2>1 DEF CountFields
  <2> QED BY <2>3, <2>4 DEF RecordCountInv
<1>2. CASE WriteM
  <2>1. pc = "write" /\ op' = op /\ pc' = IF op.kind = "save_record" THEN "return" ELSE "append_sync"
    BY <1>2 DEF WriteM, Write
  <2>2. op.kind \in {"create_node", "save_record", "save_snapshot"}
    BY <1>i, <2>1 DEF IInv, OpInv
  <2>3. x = 0 /\ PendingRecords' = IF op.kind = "save_record" THEN 0 ELSE 1
    BY <2>1, <2>2 DEF PendingRecords, Collecting
  <2>4. /\ metrics'.records_written["snapshot_checkpoint"] = IF op.kind = "save_record" THEN w ELSE increment(w, 1)
        /\ metrics'.nodes_created = c /\ metrics'.snapshot_checkpoints_saved = s
    BY <1>i, <1>2, WriteMEffect
  <2> HIDE DEF w, c, s, x
  <2>5. CASE op.kind = "save_record"
    BY <1>o, <2>3, <2>4, <2>5 DEF RecordCountInv
  <2>6. CASE op.kind # "save_record"
    <3>1. Exact(increment(w, 1)) => increment(w, 1) = c + s + 1
      BY <1>t, <1>x, <1>o, <2>3, ExactStep
    <3> QED BY <2>3, <2>4, <2>6, <3>1 DEF RecordCountInv
  <2> QED BY <2>5, <2>6
<1>3. CASE RegistryDirM
  <2>1. pc = "registry_dir" /\ op' = op /\ pc' = IF op.kind = "create_node" THEN "return" ELSE "index_replace"
    BY <1>3 DEF RegistryDirM, RegistryDir
  <2>2. op.kind \in {"create_node", "remove_node"}
    BY <1>i, <2>1 DEF IInv, OpInv
  <2>3. CASE op.kind = "create_node"
    <3>1. x = 1 /\ PendingRecords' = 0
      BY <2>1, <2>3 DEF PendingRecords, Collecting
    <3>2. CountFields(metrics') = <<w, increment(c, 1), metrics.nodes_removed, s, metrics.gc_runs>>
      BY <1>i, <1>3, <2>3, RegistryDirMEffect
    <3>3. metrics'.records_written["snapshot_checkpoint"] = w /\ metrics'.nodes_created = increment(c, 1)
          /\ metrics'.snapshot_checkpoints_saved = s
      BY <3>2 DEF CountFields
    <3> HIDE DEF w, c, s, x
    <3>4. Exact(w) => w = increment(c, 1) + s + 0
      BY <1>t, <1>x, <1>o, <3>1, ExactStep
    <3> QED BY <3>1, <3>3, <3>4 DEF RecordCountInv
  <2>4. CASE op.kind = "remove_node"
    <3>1. PendingRecords' = PendingRecords
      BY <2>1, <2>4 DEF PendingRecords, Collecting
    <3>2. CountFields(metrics') = CountFields(metrics)
      BY <1>i, <1>3, <2>4, RegistryDirMEffect
    <3> QED BY <1>k, <3>1, <3>2
  <2> QED BY <2>2, <2>3, <2>4
<1>4. CASE ReturnM
  <2>1. pc = "return" /\ pc' = "idle"
    BY <1>4 DEF ReturnM, Return
  <2>2. x = (IF op.kind = "save_snapshot" THEN 1 ELSE 0) /\ PendingRecords' = 0
    BY <2>1 DEF PendingRecords, Collecting
  <2>3. metrics'.records_written["snapshot_checkpoint"] = w /\ metrics'.nodes_created = c
        /\ metrics'.snapshot_checkpoints_saved = IF op.kind = "save_snapshot" THEN increment(s, 1) ELSE s
    BY <1>i, <1>4, ReturnMEffect DEF CountFields
  <2> HIDE DEF w, c, s, x
  <2>4. CASE op.kind = "save_snapshot"
    <3>1. Exact(w) => w = c + increment(s, 1) + 0
      BY <1>t, <1>x, <1>o, <2>2, <2>4, ExactStep
    <3> QED BY <2>2, <2>3, <2>4, <3>1 DEF RecordCountInv
  <2>5. CASE op.kind # "save_snapshot"
    BY <1>o, <2>2, <2>3, <2>5 DEF RecordCountInv
  <2> QED BY <2>4, <2>5
<1>5. CASE GcStartM
  <2>1. pc = "gc" /\ pc' \in {"gc_delete", "return"} /\ op' = op
    BY <1>5 DEF GcStartM, GcStart
  <2>2. op.kind \in {"save_snapshot", "remove_node"}
    BY <2>1 DEF EngineInv, CallInv, Collecting, Collects
  <2>3. PendingRecords' = x
    BY <2>1, <2>2 DEF PendingRecords, Collecting
  <2>4. metrics'.records_written["snapshot_checkpoint"] = w /\ metrics'.nodes_created = c
        /\ metrics'.snapshot_checkpoints_saved = s
    BY <1>i, <1>5, GcStartMEffect DEF CountFields
  <2> QED BY <1>o, <2>3, <2>4 DEF RecordCountInv
<1>6. CASE OpenLoadM \/ OpenFileM \/ SyncM \/ RotateSyncM \/ RotateDirM \/ WriterSyncM \/ IndexDirM \/ GcDeleteM
  <2>1. CountFields(metrics') = CountFields(metrics)
    BY <1>i, <1>6, OpenLoadMEffect, OpenFileMEffect, SyncMEffect, RotateSyncMEffect, RotateDirMEffect, WriterSyncMEffect,
       IndexDirMEffect, GcDeleteMEffect
  <2>2. CASE OpenLoadM \/ OpenFileM \/ SyncM \/ RotateSyncM \/ RotateDirM
    <3>1. /\ pc \in {"open_load", "open_file", "open_dir", "idle", "rotate_sync", "rotate_dir"}
          /\ pc' \in {"open_file", "refused", "idle", "sync", "rotate_create", "write"}
      BY <2>2 DEF OpenLoadM, OpenLoad, OpenFileM, OpenExisting, OpenDir, SyncM, Sync, RotateSyncM, RotateSync,
         RotateDirM, RotateDir
    <3>2. PendingRecords' = 0 /\ PendingRecords = 0
      BY <3>1 DEF PendingRecords, Collecting
    <3> QED BY <1>k, <2>1, <3>2
  <2>3. CASE WriterSyncM
    <3>1. /\ op' = op
          /\ (pc = "append_sync" /\ pc' = "index_replace") \/ (pc = "sync" /\ pc' = "return")
      BY <2>3 DEF WriterSyncM, AppendSync, SyncCall, WriterSync
    <3>2. pc = "sync" => op.kind = "sync"
      BY DEF EngineInv, CallInv
    <3>3. PendingRecords' = PendingRecords
      BY <3>1, <3>2 DEF PendingRecords, Collecting
    <3> QED BY <1>k, <2>1, <3>3
  <2>4. CASE IndexDirM \/ GcDeleteM
    <3>1. /\ op' = op
          /\ pc \in {"index_dir", "gc_delete"} /\ pc' \in {"registry_replace", "gc", "gc_delete", "gc_dir"}
      BY <2>4 DEF IndexDirM, IndexDir, GcDeleteM, GcDelete
    <3>2. PendingRecords' = PendingRecords
      BY <3>1 DEF PendingRecords, Collecting
    <3> QED BY <1>k, <2>1, <3>2
  <2> QED BY <1>6, <2>2, <2>3, <2>4
<1>7. CASE Requests
  <2>1. UNCHANGED <<pc, op>> /\ CountFields(metrics') = CountFields(metrics)
    BY <1>7, RequestsEffect DEF vars
  <2>2. PendingRecords' = PendingRecords
    BY <2>1 DEF PendingRecords
  <2> QED BY <1>k, <2>1, <2>2
<1>8. CASE Uncounted /\ UNCHANGED counters
  <2>1. metrics' = metrics
    BY <1>8 DEF counters
  <2>2. CASE OpenCreate \/ OpenMagic \/ RotateFails \/ RotateCreate \/ RotateMagic
    <3>1. /\ pc \in {"open_file", "open_magic", "rotate_create", "rotate_magic"}
          /\ pc' \in {"open_magic", "open_dir", "idle", "rotate_magic", "rotate_dir"}
      BY <2>2 DEF OpenCreate, OpenMagic, RotateFails, RotateCreate, RotateMagic
    <3>2. PendingRecords' = 0 /\ PendingRecords = 0
      BY <3>1 DEF PendingRecords, Collecting
    <3> QED BY <1>k, <2>1, <3>2
  <2>3. ASSUME NEW n \in Nodes, CreateNode(n) \/ SaveRecord(n) \/ SaveSnapshot(n) \/ RemoveNode(n)
        PROVE  RecordCountInv'
    <3>1. /\ pc = "idle"
          /\ pc' \in {"rotate_sync", "write"} \/ (pc' = "registry_replace" /\ op'.kind = "remove_node")
      BY <2>3 DEF CreateNode, SaveRecord, SaveSnapshot, RemoveNode, BeginAppend
    <3>2. PendingRecords' = 0 /\ PendingRecords = 0
      BY <3>1 DEF PendingRecords, Collecting
    <3> QED BY <1>k, <2>1, <3>2
  <2>4. CASE IndexReplace \/ RegistryReplace
    <3>1. /\ op' = op
          /\ pc \in {"index_replace", "registry_replace"} /\ pc' \in {"index_dir", "registry_dir"}
      BY <2>4 DEF IndexReplace, RegistryReplace
    <3>2. PendingRecords' = PendingRecords
      BY <3>1 DEF PendingRecords, Collecting
    <3> QED BY <1>k, <2>1, <3>2
  <2>5. CASE GcDir
    <3>1. op' = op /\ pc = "gc_dir" /\ pc' = "return"
      BY <2>5 DEF GcDir
    <3>2. op.kind \in {"save_snapshot", "remove_node"}
      BY <3>1 DEF EngineInv, CallInv, Collecting, Collects
    <3>3. PendingRecords' = PendingRecords
      BY <3>1, <3>2 DEF PendingRecords, Collecting
    <3> QED BY <1>k, <2>1, <3>3
  <2> QED BY <1>8, <2>2, <2>3, <2>4, <2>5 DEF Uncounted
<1>9. CASE UNCHANGED <<vars, counters>>
  <2>1. UNCHANGED <<pc, op, metrics>>
    BY <1>9 DEF vars, counters
  <2>2. PendingRecords' = PendingRecords
    BY <2>1 DEF PendingRecords
  <2> QED BY <1>k, <2>1, <2>2
<1> QED BY <1>1, <1>2, <1>3, <1>4, <1>5, <1>6, <1>7, <1>8, <1>9, MetricsCases

\* The collections that are counted are those of the calls that are counted,
\* and that of the call in progress.
LEMMA RunCountStep ==
  ASSUME MetricsInv, EngineInv, IInv', [MNext]_<<vars, counters>>
  PROVE  RunCountInv'
<1> USE DEF segments, content, metadata, memory, writer, call
<1> DEFINE g == metrics.gc_runs
           s == metrics.snapshot_checkpoints_saved
           d == metrics.nodes_removed
           x == PendingRuns
<1>i. IInv /\ IdleInv
  BY DEF MetricsInv, EngineInv
<1>t. g \in Counter /\ s \in Counter /\ d \in Counter
  BY DEF MetricsInv, CounterTypes, MetricsType
<1>x. x \in {0, 1}
  BY DEF PendingRuns
<1>o. Exact(g) => g = s + d + x
  BY DEF MetricsInv, RunCountInv
\* A step that leaves the three counters and the pending collection alone.
<1>k. ASSUME UNCHANGED <<metrics.gc_runs, metrics.snapshot_checkpoints_saved, metrics.nodes_removed>>,
             PendingRuns' = PendingRuns
      PROVE  RunCountInv'
  BY <1>o, <1>k DEF RunCountInv
<1>1. CASE OpenRecoverM \/ GoneM
  <2>1. CountFields(metrics') = <<0, 0, 0, 0, 0>>
    BY <1>i, <1>1, OpenRecoverMEffect, GoneMEffect
  <2>2. pc' \in {"closed", "refused", "open_load"}
    BY <1>1 DEF OpenRecoverM, OpenRecover, GoneM, Close, Fault, ProcessCrash, PowerLoss, LoseIndex, NoEngine
  <2>3. PendingRuns' = 0
    BY <2>2 DEF PendingRuns
  <2>4. metrics'.gc_runs = 0 /\ metrics'.snapshot_checkpoints_saved = 0 /\ metrics'.nodes_removed = 0
    BY <2>1 DEF CountFields
  <2> QED BY <2>3, <2>4 DEF RunCountInv
<1>2. CASE GcStartM
  <2>1. pc = "gc" /\ pc' \in {"gc_delete", "return"} /\ op' = op
    BY <1>2 DEF GcStartM, GcStart
  <2>2. Collects
    BY <2>1 DEF EngineInv, CallInv, Collecting
  <2>3. x = 0 /\ PendingRuns' = 1
    BY <2>1, <2>2 DEF PendingRuns, Collects
  <2>4. metrics'.gc_runs = increment(g, 1) /\ metrics'.snapshot_checkpoints_saved = s /\ metrics'.nodes_removed = d
    BY <1>i, <1>2, GcStartMEffect DEF CountFields
  <2> HIDE DEF g, s, d, x
  <2>5. Exact(increment(g, 1)) => increment(g, 1) = s + d + 1
    BY <1>t, <1>x, <1>o, <2>3, ExactStep
  <2> QED BY <2>3, <2>4, <2>5 DEF RunCountInv
<1>3. CASE ReturnM
  <2>1. pc = "return" /\ pc' = "idle"
    BY <1>3 DEF ReturnM, Return
  <2>2. x = (IF op.kind \in {"save_snapshot", "remove_node"} THEN 1 ELSE 0) /\ PendingRuns' = 0
    BY <2>1 DEF PendingRuns, Collects
  <2>3. /\ metrics'.gc_runs = g
        /\ metrics'.snapshot_checkpoints_saved = IF op.kind = "save_snapshot" THEN increment(s, 1) ELSE s
        /\ metrics'.nodes_removed = IF op.kind = "remove_node" THEN increment(d, 1) ELSE d
    BY <1>i, <1>3, ReturnMEffect DEF CountFields
  <2> HIDE DEF g, s, d, x
  <2>4. x = 1 /\ Exact(g) => g = increment(s, 1) + d + 0 /\ g = s + increment(d, 1) + 0
    BY <1>t, <1>x, <1>o, ExactStep
  <2>5. CASE op.kind = "save_snapshot"
    BY <2>2, <2>3, <2>4, <2>5 DEF RunCountInv
  <2>6. CASE op.kind = "remove_node"
    BY <2>2, <2>3, <2>4, <2>6 DEF RunCountInv
  <2>7. CASE op.kind \notin {"save_snapshot", "remove_node"}
    BY <1>o, <2>2, <2>3, <2>7 DEF RunCountInv
  <2> QED BY <2>5, <2>6, <2>7
<1>4. CASE OpenLoadM \/ OpenFileM \/ SyncM \/ RotateSyncM \/ RotateDirM \/ WriteM \/ WriterSyncM \/ IndexDirM
           \/ RegistryDirM \/ GcDeleteM
  <2>1. UNCHANGED <<metrics.gc_runs, metrics.snapshot_checkpoints_saved, metrics.nodes_removed>>
    <3>1. CASE OpenLoadM \/ OpenFileM \/ SyncM \/ RotateSyncM \/ RotateDirM \/ WriterSyncM \/ IndexDirM \/ GcDeleteM
      <4>1. CountFields(metrics') = CountFields(metrics)
        BY <1>i, <3>1, OpenLoadMEffect, OpenFileMEffect, SyncMEffect, RotateSyncMEffect, RotateDirMEffect,
           WriterSyncMEffect, IndexDirMEffect, GcDeleteMEffect
      <4> QED BY <4>1 DEF CountFields
    <3>2. CASE WriteM
      BY <1>i, <3>2, WriteMEffect
    <3>3. CASE RegistryDirM
      BY <1>i, <3>3, RegistryDirMEffect DEF CountFields
    <3> QED BY <1>4, <3>1, <3>2, <3>3
  <2>2. CASE OpenLoadM \/ OpenFileM \/ SyncM \/ RotateSyncM \/ RotateDirM \/ IndexDirM
    <3>1. /\ pc \in {"open_load", "open_file", "open_dir", "idle", "rotate_sync", "rotate_dir", "index_dir"}
          /\ pc' \in {"open_file", "refused", "idle", "sync", "rotate_create", "write", "registry_replace", "gc"}
      BY <2>2 DEF OpenLoadM, OpenLoad, OpenFileM, OpenExisting, OpenDir, SyncM, Sync, RotateSyncM, RotateSync,
         RotateDirM, RotateDir, IndexDirM, IndexDir
    <3>2. PendingRuns' = 0 /\ PendingRuns = 0
      BY <3>1 DEF PendingRuns
    <3> QED BY <1>k, <2>1, <3>2
  <2>3. CASE WriteM \/ WriterSyncM \/ RegistryDirM
    <3>1. /\ op' = op
          /\ \/ pc = "write" /\ (pc' = "append_sync" \/ op.kind = "save_record")
             \/ pc = "append_sync" /\ pc' = "index_replace"
             \/ pc = "sync"
             \/ pc = "registry_dir" /\ (pc' = "index_replace" \/ op.kind = "create_node")
          /\ pc' \notin {"gc_delete", "gc_dir"}
      BY <2>3 DEF WriteM, Write, WriterSyncM, AppendSync, SyncCall, WriterSync, RegistryDirM, RegistryDir
    <3>2. pc = "sync" => op.kind = "sync"
      BY DEF EngineInv, CallInv
    <3>3. PendingRuns' = 0 /\ PendingRuns = 0
      BY <3>1, <3>2 DEF PendingRuns, Collects
    <3> QED BY <1>k, <2>1, <3>3
  <2>4. CASE GcDeleteM
    <3>1. pc = "gc_delete" /\ pc' \in {"gc_delete", "gc_dir"}
      BY <2>4 DEF GcDeleteM, GcDelete
    <3>2. PendingRuns' = 1 /\ PendingRuns = 1
      BY <3>1 DEF PendingRuns
    <3> QED BY <1>k, <2>1, <3>2
  <2> QED BY <1>4, <2>2, <2>3, <2>4
<1>5. CASE Requests
  <2>1. UNCHANGED <<pc, op>> /\ CountFields(metrics') = CountFields(metrics)
    BY <1>5, RequestsEffect DEF vars
  <2>2. PendingRuns' = PendingRuns
    BY <2>1 DEF PendingRuns, Collects
  <2>3. UNCHANGED <<metrics.gc_runs, metrics.snapshot_checkpoints_saved, metrics.nodes_removed>>
    BY <2>1 DEF CountFields
  <2> QED BY <1>k, <2>2, <2>3
<1>6. CASE Uncounted /\ UNCHANGED counters
  <2>1. UNCHANGED <<metrics.gc_runs, metrics.snapshot_checkpoints_saved, metrics.nodes_removed>>
    BY <1>6 DEF counters
  <2>2. CASE ~GcDir
    <3>1. /\ pc \notin {"gc_delete", "gc_dir", "return"}
          /\ pc' \notin {"gc_delete", "gc_dir", "return"}
      BY <1>6, <2>2 DEF Uncounted, OpenCreate, OpenMagic, CreateNode, SaveRecord, SaveSnapshot, RemoveNode, BeginAppend,
         RotateFails, RotateCreate, RotateMagic, IndexReplace, RegistryReplace
    <3>2. PendingRuns' = 0 /\ PendingRuns = 0
      BY <3>1 DEF PendingRuns
    <3> QED BY <1>k, <2>1, <3>2
  <2>3. CASE GcDir
    <3>1. op' = op /\ pc = "gc_dir" /\ pc' = "return"
      BY <2>3 DEF GcDir
    <3>2. Collects
      BY <3>1 DEF EngineInv, CallInv, Collecting
    <3>3. PendingRuns' = 1 /\ PendingRuns = 1
      BY <3>1, <3>2 DEF PendingRuns, Collects
    <3> QED BY <1>k, <2>1, <3>3
  <2> QED BY <2>2, <2>3
<1>7. CASE UNCHANGED <<vars, counters>>
  <2>1. UNCHANGED <<pc, op, metrics>>
    BY <1>7 DEF vars, counters
  <2>2. PendingRuns' = PendingRuns
    BY <2>1 DEF PendingRuns, Collects
  <2> QED BY <1>k, <2>1, <2>2
<1> QED BY <1>1, <1>2, <1>3, <1>4, <1>5, <1>6, <1>7, MetricsCases

\* The segments in the directory are those that the engine found or created
\* when it was opened, those it rotated to, less those it deleted.
LEMMA SegmentCountStep ==
  ASSUME MetricsInv, EngineInv, IInv', [MNext]_<<vars, counters>>
  PROVE  SegmentCountInv'
<1> USE DEF segments, content, metadata, memory, writer, call
<1> DEFINE r == metrics.segment_rotations
           e == metrics.gc_segments_deleted
           A == Ready \cup {"open_magic", "open_dir"}
<1>i. IInv
  BY DEF EngineInv
<1>t. r \in Counter /\ e \in Counter /\ segments_at_open \in Nat /\ deleted_segments \in Nat
  BY DEF MetricsInv, CounterTypes, MetricsType
<1>c. IsFiniteSet(dir) /\ Cardinality(dir) \in Nat
  BY <1>i, FiniteDir
<1>p. /\ Opening \cap Ready = {} /\ {"closed", "refused"} \cap (Ready \cup Opening) = {}
      /\ {"open_load", "open_file"} \cap A = {}
  BY DEF Opening, Ready, Loaded, Recovered, Locations
<1>1. CASE OpenRecoverM
  <2>1. pc' \in {"refused", "open_load"} /\ dir' = dir
    BY <1>1 DEF OpenRecoverM, OpenRecover
  <2>2. /\ SegmentFields(metrics') = <<0, 0>>
        /\ segments_at_open' = Cardinality(dir \cup {active_segment'})
    BY <1>i, <1>1, OpenRecoverMEffect
  <2>3. metrics'.segment_rotations = 0 /\ metrics'.gc_segments_deleted = 0
    BY <2>2 DEF SegmentFields
  <2>4. pc' \notin Ready \cup {"open_magic", "open_dir"}
    BY <1>p, <2>1
  <2> QED BY <2>1, <2>2, <2>3, <2>4 DEF SegmentCountInv
<1>2. CASE GoneM
  <2>1. pc' = "closed"
    BY <1>2 DEF GoneM, Close, Fault, ProcessCrash, PowerLoss, LoseIndex, NoEngine
  <2>2. pc' \notin Opening /\ pc' \notin Ready \cup {"open_magic", "open_dir"} /\ pc' \notin {"open_load", "open_file"}
    BY <1>p, <2>1 DEF Opening
  <2> QED BY <2>2 DEF SegmentCountInv
<1>3. CASE OpenLoadM
  <2>1. pc = "open_load" /\ pc' \in {"open_file", "refused"} /\ UNCHANGED <<dir, active_segment>>
    BY <1>3 DEF OpenLoadM, OpenLoad
  <2>2. SegmentFields(metrics') = SegmentFields(metrics) /\ segments_at_open' = segments_at_open
    BY <1>i, <1>3, OpenLoadMEffect
  <2>3. metrics'.segment_rotations = 0 /\ metrics'.gc_segments_deleted = 0
        /\ segments_at_open' = Cardinality(dir' \cup {active_segment'})
    BY <2>1, <2>2 DEF SegmentFields, MetricsInv, SegmentCountInv, Opening
  <2>4. pc' \notin Ready \cup {"open_magic", "open_dir"}
    BY <1>p, <2>1
  <2> QED BY <2>3, <2>4 DEF SegmentCountInv
<1>4. CASE OpenFileM
  <2>1. /\ SegmentFields(metrics') = SegmentFields(metrics) /\ segments_at_open' = segments_at_open
        /\ metrics'.segment_rotations = r /\ metrics'.gc_segments_deleted = e
    BY <1>i, <1>4, OpenFileMEffect DEF SegmentFields
  <2>2. pc' = "idle" /\ dir' = dir /\ pc \in {"open_file", "open_dir"}
    BY <1>4 DEF OpenFileM, OpenExisting, OpenDir
  <2>3. r = 0 /\ e = 0 /\ Cardinality(dir) = segments_at_open
    <3>1. r = 0 /\ e = 0
      BY <2>2 DEF MetricsInv, SegmentCountInv, Opening
    <3>2. CASE pc = "open_file"
      <4>1. active_segment \in dir
        BY <1>4, <3>2 DEF OpenFileM, OpenExisting, OpenDir
      <4>2. dir \cup {active_segment} = dir
        BY <4>1
      <4>3. segments_at_open = Cardinality(dir \cup {active_segment})
        BY <3>2 DEF MetricsInv, SegmentCountInv
      <4> QED BY <3>1, <4>2, <4>3
    <3>3. CASE pc = "open_dir"
      <4>1. PendingSegments = 0
        BY <3>3 DEF PendingSegments, Rotating
      <4>2. Exact(r) /\ Exact(e)
        BY <3>1, CounterAssumption DEF Exact
      <4>3. Cardinality(dir) = segments_at_open + r - e + PendingSegments
        BY <3>3, <4>2 DEF MetricsInv, SegmentCountInv
      <4> HIDE DEF r, e
      <4> QED BY <1>t, <3>1, <4>1, <4>3
    <3> QED BY <2>2, <3>1, <3>2, <3>3
  <2>4. PendingSegments' = 0 /\ pc' \notin Opening /\ pc' \notin {"open_load", "open_file"}
    BY <2>2 DEF PendingSegments, Rotating, Opening
  <2>5. Cardinality(dir') =
          segments_at_open' + metrics'.segment_rotations - metrics'.gc_segments_deleted + PendingSegments'
    <3>1. Cardinality(dir') = segments_at_open' /\ metrics'.segment_rotations = 0 /\ metrics'.gc_segments_deleted = 0
      BY <2>1, <2>2, <2>3
    <3>2. segments_at_open' \in Nat
      BY <1>t, <2>1
    <3>3. \A k \in Nat : k = k + 0 - 0 + 0
      OBVIOUS
    <3> QED BY <2>4, <3>1, <3>2, <3>3
  <2> QED BY <2>4, <2>5 DEF SegmentCountInv
\* From here on the writer has its file.
<1>o. pc \in A /\ Exact(r) /\ Exact(e) => Cardinality(dir) = segments_at_open + r - e + PendingSegments
  BY DEF MetricsInv, SegmentCountInv
\* A step that leaves counters and directory alone.
<1>k. ASSUME pc \in A, pc' \in A, pc' \in Opening => pc \in Opening,
             UNCHANGED <<dir, segments_at_open, metrics.segment_rotations, metrics.gc_segments_deleted>>,
             PendingSegments' = PendingSegments
      PROVE  SegmentCountInv'
  <2>1. pc' \notin {"open_load", "open_file"}
    BY <1>k, <1>p
  <2>2. pc' \in Opening => r = 0 /\ e = 0
    BY <1>k DEF MetricsInv, SegmentCountInv
  <2> QED BY <1>o, <1>k, <2>1, <2>2 DEF SegmentCountInv
<1>5. CASE RotateDirM
  <2>1. pc = "rotate_dir" /\ pc' = "write" /\ dir' = dir
    BY <1>5 DEF RotateDirM, RotateDir
  <2>2. /\ metrics'.segment_rotations = increment(r, 1) /\ metrics'.gc_segments_deleted = e
        /\ segments_at_open' = segments_at_open
    BY <1>i, <1>5, RotateDirMEffect DEF SegmentFields
  <2>3. PendingSegments = 1 /\ PendingSegments' = 0
    BY <2>1 DEF PendingSegments, Rotating
  <2>4. pc \in A /\ pc' \notin Opening /\ pc' \notin {"open_load", "open_file"}
    BY <2>1 DEF Ready, Loaded, Recovered, Locations, Opening
  <2>5. Exact(increment(r, 1)) => increment(r, 1) = r + 1 /\ Exact(r)
    BY <1>t, Increment DEF Exact
  <2>i. r \in Int /\ e \in Int
    BY <1>t, CounterAssumption DEF Counter
  <2> HIDE DEF r, e
  <2>6. Exact(increment(r, 1)) /\ Exact(e) => Cardinality(dir) = segments_at_open + increment(r, 1) - e + 0
    BY <1>t, <1>c, <1>o, <2>3, <2>4, <2>5, <2>i
  <2> QED BY <2>1, <2>2, <2>3, <2>4, <2>6 DEF SegmentCountInv
<1>6. CASE GcStartM
  <2>1. pc = "gc" /\ pc' \in {"gc_delete", "return"} /\ dir' = dir
    BY <1>6 DEF GcStartM, GcStart
  <2>2. /\ metrics'.segment_rotations = r /\ metrics'.gc_segments_deleted = e /\ segments_at_open' = segments_at_open
        /\ deleted_segments' = 0
    BY <1>i, <1>6, GcStartMEffect DEF SegmentFields
  <2>3. PendingSegments = 0 /\ PendingSegments' = 0
    BY <2>1, <2>2 DEF PendingSegments, Rotating
  <2>4. pc \in A /\ pc' \in A /\ pc' \notin Opening
    BY <2>1 DEF Ready, Loaded, Recovered, Locations, Opening
  <2> QED BY <1>k, <2>1, <2>2, <2>3, <2>4
<1>7. CASE GcDeleteM
  <2>1. pc = "gc_delete" /\ pc' = IF gc_segments' = {} THEN "gc_dir" ELSE "gc_delete"
    BY <1>7 DEF GcDeleteM, GcDelete
  <2>2. PICK s \in gc_segments : dir' = dir \ {s}
    BY <1>7 DEF GcDeleteM, GcDelete
  <2>3. s \in dir
    BY <1>i, <2>2 DEF IInv, GcInv
  <2>4. Cardinality(dir') = Cardinality(dir) - 1
    BY <1>c, <2>2, <2>3, FS_RemoveElement
  <2>5. /\ segments_at_open' = segments_at_open /\ deleted_segments' = deleted_segments + 1
        /\ metrics'.segment_rotations = r
        /\ metrics'.gc_segments_deleted = IF gc_segments' = {} THEN increment(e, deleted_segments') ELSE e
    BY <1>i, <1>7, GcDeleteMEffect DEF SegmentFields
  <2>6. /\ PendingSegments = 0 - deleted_segments
        /\ PendingSegments' = IF gc_segments' = {} THEN 0 ELSE 0 - deleted_segments'
    BY <2>1 DEF PendingSegments, Rotating
  <2>7. pc \in A /\ pc' \notin Opening /\ pc' \notin {"open_load", "open_file"}
    BY <2>1 DEF Ready, Loaded, Recovered, Locations, Opening
  <2>8. /\ deleted_segments' \in Nat
        /\ Exact(increment(e, deleted_segments')) => increment(e, deleted_segments') = e + deleted_segments' /\ Exact(e)
    <3>1. deleted_segments' \in Nat
      BY <1>t, <2>5
    <3> QED BY <1>t, <3>1, Increment DEF Exact
  <2>i. r \in Int /\ e \in Int
    BY <1>t, CounterAssumption DEF Counter
  <2> HIDE DEF r, e
  <2>9. CASE gc_segments' = {}
    <3>1. Exact(r) /\ Exact(increment(e, deleted_segments')) =>
            Cardinality(dir') = segments_at_open + r - increment(e, deleted_segments') + 0
      BY <1>t, <1>c, <1>o, <2>4, <2>5, <2>6, <2>7, <2>8, <2>i
    <3> QED BY <2>5, <2>6, <2>7, <2>9, <3>1 DEF SegmentCountInv
  <2>10. CASE gc_segments' # {}
    <3>1. Exact(r) /\ Exact(e) => Cardinality(dir') = segments_at_open + r - e + (0 - deleted_segments')
      BY <1>t, <1>c, <1>o, <2>4, <2>5, <2>6, <2>7, <2>i
    <3> QED BY <2>5, <2>6, <2>7, <2>10, <3>1 DEF SegmentCountInv
  <2> QED BY <2>9, <2>10
<1>8. CASE SyncM \/ RotateSyncM \/ WriteM \/ WriterSyncM \/ IndexDirM \/ RegistryDirM \/ ReturnM
  <2>1. /\ pc \in {"idle", "rotate_sync", "write", "append_sync", "sync", "index_dir", "registry_dir", "return"}
        /\ pc' \in {"sync", "rotate_create", "return", "append_sync", "index_replace", "registry_replace", "gc", "idle"}
        /\ dir' = dir
    BY <1>8 DEF SyncM, Sync, RotateSyncM, RotateSync, WriteM, Write, WriterSyncM, AppendSync, SyncCall, WriterSync,
       IndexDirM, IndexDir, RegistryDirM, RegistryDir, ReturnM, Return
  <2>2. SegmentFields(metrics') = SegmentFields(metrics) /\ segments_at_open' = segments_at_open
    BY <1>i, <1>8, SyncMEffect, RotateSyncMEffect, WriteMEffect, WriterSyncMEffect, IndexDirMEffect, RegistryDirMEffect,
       ReturnMEffect
  <2>3. PendingSegments = 0 /\ PendingSegments' = 0
    BY <2>1 DEF PendingSegments, Rotating
  <2>4. pc \in A /\ pc' \in A /\ pc' \notin Opening
    BY <2>1 DEF Ready, Loaded, Recovered, Locations, Opening
  <2>5. UNCHANGED <<metrics.segment_rotations, metrics.gc_segments_deleted>>
    BY <2>2 DEF SegmentFields
  <2> QED BY <1>k, <2>1, <2>2, <2>3, <2>4, <2>5
<1>9. CASE Uncounted /\ UNCHANGED counters
  <2>0. UNCHANGED <<metrics, segments_at_open, deleted_segments>>
    BY <1>9 DEF counters
  <2>1. CASE OpenCreate
    <3>1. pc = "open_file" /\ pc' = "open_magic" /\ dir' = dir \cup {active_segment}
      BY <2>1 DEF OpenCreate
    <3>2. r = 0 /\ e = 0 /\ segments_at_open = Cardinality(dir \cup {active_segment})
      BY <3>1 DEF MetricsInv, SegmentCountInv, Opening
    <3>3. PendingSegments' = 0 /\ pc' \notin {"open_load", "open_file"}
      BY <3>1 DEF PendingSegments, Rotating
    <3>4. Cardinality(dir') =
            segments_at_open' + metrics'.segment_rotations - metrics'.gc_segments_deleted + PendingSegments'
      <4>1. Cardinality(dir') = segments_at_open' /\ metrics'.segment_rotations = 0 /\ metrics'.gc_segments_deleted = 0
        BY <2>0, <3>1, <3>2
      <4>2. segments_at_open' \in Nat
        BY <1>t, <2>0
      <4>3. \A k \in Nat : k = k + 0 - 0 + 0
        OBVIOUS
      <4> QED BY <3>3, <4>1, <4>2, <4>3
    <3> QED BY <2>0, <3>2, <3>3, <3>4 DEF SegmentCountInv
  <2>2. CASE RotateCreate
    <3>1. /\ pc = "rotate_create" /\ pc' = "rotate_magic" /\ dir' = dir \cup {active_segment + 1}
          /\ active_segment + 1 \notin dir
      BY <2>2 DEF RotateCreate
    <3>2. Cardinality(dir') = Cardinality(dir) + 1
      BY <1>c, <3>1, FS_AddElement
    <3>3. PendingSegments = 0 /\ PendingSegments' = 1
      BY <3>1 DEF PendingSegments, Rotating
    <3>4. pc \in A /\ pc' \notin Opening /\ pc' \notin {"open_load", "open_file"}
      BY <3>1 DEF Ready, Loaded, Recovered, Locations, Opening
    <3>i. r \in Int /\ e \in Int
      BY <1>t, CounterAssumption DEF Counter
    <3>r. metrics'.segment_rotations = r /\ metrics'.gc_segments_deleted = e
      BY <2>0
    <3> HIDE DEF r, e
    <3>5. Exact(r) /\ Exact(e) => Cardinality(dir') = segments_at_open + r - e + 1
      BY <1>t, <1>c, <1>o, <3>2, <3>3, <3>4, <3>i
    <3> QED BY <2>0, <3>r, <3>3, <3>4, <3>5 DEF SegmentCountInv
  <2>3. CASE OpenMagic \/ RotateMagic
    <3>1. /\ dir' = dir
          /\ (pc = "open_magic" /\ pc' = "open_dir") \/ (pc = "rotate_magic" /\ pc' = "rotate_dir")
      BY <2>3 DEF OpenMagic, RotateMagic
    <3>2. PendingSegments' = PendingSegments
      BY <3>1 DEF PendingSegments, Rotating
    <3>3. pc \in A /\ pc' \in A /\ (pc' \in Opening => pc \in Opening)
      BY <3>1 DEF Ready, Loaded, Recovered, Locations, Opening
    <3> QED BY <1>k, <2>0, <3>1, <3>2, <3>3
  <2>4. CASE ~OpenCreate /\ ~OpenMagic /\ ~RotateCreate /\ ~RotateMagic
    <3>1. /\ dir' = dir
          /\ pc \in {"idle", "rotate_create", "index_replace", "registry_replace", "gc_dir"}
          /\ pc' \in {"rotate_sync", "write", "registry_replace", "idle", "index_dir", "registry_dir", "return"}
      BY <1>9, <2>4 DEF Uncounted, CreateNode, SaveRecord, SaveSnapshot, RemoveNode, BeginAppend, RotateFails,
         IndexReplace, RegistryReplace, GcDir
    <3>2. PendingSegments = 0 /\ PendingSegments' = 0
      BY <3>1 DEF PendingSegments, Rotating
    <3>3. pc \in A /\ pc' \in A /\ pc' \notin Opening
      BY <3>1 DEF Ready, Loaded, Recovered, Locations, Opening
    <3> QED BY <1>k, <2>0, <3>1, <3>2, <3>3
  <2> QED BY <1>9, <2>1, <2>2, <2>3, <2>4 DEF Uncounted
<1>10. CASE Requests \/ UNCHANGED <<vars, counters>>
  <2>1. /\ UNCHANGED <<pc, dir, active_segment, deleted_segments, segments_at_open>>
        /\ SegmentFields(metrics') = SegmentFields(metrics)
    BY <1>10, RequestsEffect DEF vars, counters
  <2>2. UNCHANGED <<metrics.segment_rotations, metrics.gc_segments_deleted>>
    BY <2>1 DEF SegmentFields
  <2>3. PendingSegments' = PendingSegments
    BY <2>1 DEF PendingSegments
  <2> QED BY <2>1, <2>2, <2>3 DEF MetricsInv, SegmentCountInv
<1> QED BY <1>1, <1>2, <1>3, <1>4, <1>5, <1>6, <1>7, <1>8, <1>9, <1>10, MetricsCases

\* Each state that is loaded counts one checkpoint record.
LEMMA LoadCountStep ==
  ASSUME MetricsInv, EngineInv, IInv', [MNext]_<<vars, counters>>
  PROVE  LoadCountInv'
<1>i. IInv
  BY DEF EngineInv
<1>o. LoadField(metrics) = loads
  BY DEF MetricsInv, LoadCountInv, LoadField
<1>1. CASE UNCHANGED counters
  BY <1>1 DEF counters, MetricsInv, LoadCountInv
<1>2. CASE OpenRecoverM \/ GoneM
  BY <1>i, <1>2, OpenRecoverMEffect, GoneMEffect DEF LoadCountInv, LoadField
<1>3. CASE OpenLoadM \/ OpenFileM \/ SyncM \/ RotateSyncM \/ RotateDirM \/ WriteM \/ WriterSyncM \/ IndexDirM
           \/ RegistryDirM \/ GcStartM \/ GcDeleteM \/ ReturnM
  <2>1. LoadField(metrics') = LoadField(metrics) /\ loads' = loads
    BY <1>i, <1>3, OpenLoadMEffect, OpenFileMEffect, SyncMEffect, RotateSyncMEffect, RotateDirMEffect, WriteMEffect,
       WriterSyncMEffect, IndexDirMEffect, RegistryDirMEffect, GcStartMEffect, GcDeleteMEffect, ReturnMEffect
  <2> QED BY <1>o, <2>1 DEF LoadCountInv, LoadField
<1>4. CASE Requests
  BY <1>4, RequestsEffect DEF LoadCountInv, LoadField
<1> QED BY <1>1, <1>2, <1>3, <1>4, MetricsCases

-------------------------------------------------------------------------------
(***************************************************************************)
(* The theorems.                                                           *)
(***************************************************************************)

\* A directory without an engine.
LEMMA MetricsInit ==
  ASSUME MInit
  PROVE  MetricsInv
<1>1. /\ pc = "closed" /\ op = NoOp /\ unsynced_records = 0 /\ metrics = NewMetrics
      /\ deleted_segments = 0 /\ segments_at_open = 0 /\ loads = 0
  BY DEF MInit, Init
<1>2. CounterTypes
  <2>1. 0 \in Counter
    BY CounterAssumption DEF Counter
  <2> QED BY <1>1, <2>1, NewMetricsEffect DEF CounterTypes
<1>3. IdleInv
  BY <1>1 DEF IdleInv, NoOp
<1>4. pc \notin Loaded /\ pc \notin Ready /\ pc \notin Opening /\ pc \notin Collecting
  BY <1>1 DEF Loaded, Ready, Recovered, Opening, Collecting
<1>5. GaugeInv
  BY <1>1, <1>4, NewMetricsEffect DEF GaugeInv, SyncGauge
<1>6. /\ metrics.records_written["snapshot_checkpoint"] = 0 /\ metrics.nodes_created = 0
      /\ metrics.nodes_removed = 0 /\ metrics.snapshot_checkpoints_saved = 0 /\ metrics.gc_runs = 0
  BY <1>1, NewMetricsEffect DEF CountFields
<1>7. RecordCountInv
  <2>1. PendingRecords = 0
    BY <1>1 DEF PendingRecords, Collecting
  <2> QED BY <1>6, <2>1 DEF RecordCountInv
<1>8. RunCountInv
  <2>1. PendingRuns = 0
    BY <1>1 DEF PendingRuns
  <2> QED BY <1>6, <2>1 DEF RunCountInv
<1>9. SegmentCountInv
  BY <1>1, <1>4 DEF SegmentCountInv, Opening
<1>10. LoadCountInv
  BY <1>1, NewMetricsEffect DEF LoadCountInv, LoadField
<1> QED BY <1>2, <1>3, <1>5, <1>7, <1>8, <1>9, <1>10 DEF MetricsInv

\* MetricsInv is an invariant, on top of the invariants of the engine.
LEMMA MetricsInvariance ==
  MSpec => [](MetricsInv /\ IInv)
<1>1. MInit => MetricsInv
  BY MetricsInit
<1>2. MetricsInv /\ EngineInv /\ IInv' /\ [MNext]_<<vars, counters>> => MetricsInv'
  <2> SUFFICES ASSUME MetricsInv, EngineInv, IInv', [MNext]_<<vars, counters>>
               PROVE  MetricsInv'
    OBVIOUS
  <2>1. IdleInv'
    BY MetricsStep, IdleStep DEF MetricsInv, EngineInv
  <2> QED BY <2>1, CounterTypesStep, GaugeStep, RecordCountStep, RunCountStep, SegmentCountStep, LoadCountStep
          DEF MetricsInv
<1>3. IInv /\ CInv /\ RootedInv /\ LoadCorrect /\ LoadAllCorrect => EngineInv
  BY DEF EngineInv, CInv
<1>4. Spec => [](IInv /\ EngineInv)
  BY <1>3, Invariance, CallInvariance, ActiveNodesAreRooted, LoadIsCorrect, LoadAllIsCorrect, PTL
<1> QED BY <1>1, <1>2, <1>4, EngineUnderneath, PTL DEF MSpec

\* Between calls every gauge has the value that it stands for, and
\* SegmentWriter::sync skips its work exactly if no append is pending: for
\* every set of nodes, every bound and whatever the faults.
THEOREM GaugesStayCurrent == MSpec => []GaugesAreCurrent
<1>1. MetricsInv /\ IInv => GaugesAreCurrent
  <2> SUFFICES ASSUME MetricsInv, IInv, pc = "idle"
               PROVE  /\ metrics.active_nodes = Cardinality(ActiveNodes(nodes_json))
                      /\ metrics.removed_nodes = Cardinality({ n \in Nodes : nodes_json[n] = "removed" })
                      /\ metrics.checkpoint_index_nodes = Cardinality({ n \in Nodes : checkpoint_index[n] # None })
                      /\ metrics.active_append_segment_id = active_segment
                      /\ metrics.active_append_segment_len = Len(cells[active_segment])
                      /\ metrics.unsynced_records = 0 <=> unsynced_records = 0
    BY DEF GaugesAreCurrent
  <2>1. pc \in Loaded /\ pc \in Ready /\ op.kind # "remove_node"
    BY DEF MetricsInv, IdleInv, Loaded, Ready, Recovered, Locations
  <2>2. nodes_json = registry
    BY <2>1 DEF IInv, AgreeInv
  <2>3. segment_len = Len(cells[active_segment])
    BY <2>1 DEF IInv, LenInv
  <2> QED BY <2>1, <2>2, <2>3 DEF MetricsInv, GaugeInv
<1> QED BY <1>1, MetricsInvariance, PTL

\* Between calls the counters of checkpoints, calls, collections, segments
\* and loads tell one story, as long as none of them has reached the end of
\* u64: for every set of nodes, every bound and whatever the faults.
THEOREM CountersStayConsistent == MSpec => []CountersAddUp
<1>1. MetricsInv /\ IInv => CountersAddUp
  <2> SUFFICES ASSUME MetricsInv, IInv, pc = "idle"
               PROVE  CountersAddUp
    BY DEF CountersAddUp
  <2> DEFINE m == metrics
  <2>1. PendingRecords = 0 /\ PendingRuns = 0 /\ PendingSegments = 0
    BY DEF PendingRecords, PendingRuns, PendingSegments, Rotating, Collecting
  <2>2. pc \in Ready
    BY DEF Loaded, Ready, Recovered, Locations
  <2>t. /\ m.nodes_created \in Int /\ m.snapshot_checkpoints_saved \in Int /\ m.nodes_removed \in Int
        /\ m.segment_rotations \in Int /\ m.gc_segments_deleted \in Int /\ segments_at_open \in Int
    <3>1. /\ m.nodes_created \in Counter /\ m.snapshot_checkpoints_saved \in Counter /\ m.nodes_removed \in Counter
          /\ m.segment_rotations \in Counter /\ m.gc_segments_deleted \in Counter /\ segments_at_open \in Nat
      BY DEF MetricsInv, CounterTypes, MetricsType
    <3> HIDE DEF m
    <3> QED BY <3>1, CounterAssumption DEF Counter
  <2>3. Exact(m.records_written["snapshot_checkpoint"]) =>
          m.records_written["snapshot_checkpoint"] = m.nodes_created + m.snapshot_checkpoints_saved
    BY <2>t, <2>1 DEF MetricsInv, RecordCountInv
  <2>4. Exact(m.gc_runs) => m.gc_runs = m.snapshot_checkpoints_saved + m.nodes_removed
    BY <2>t, <2>1 DEF MetricsInv, RunCountInv
  <2>5. Exact(m.segment_rotations) /\ Exact(m.gc_segments_deleted) =>
          Cardinality(dir) = segments_at_open + m.segment_rotations - m.gc_segments_deleted
    BY <2>t, <2>1, <2>2 DEF MetricsInv, SegmentCountInv
  <2>6. m.records_replayed["snapshot_checkpoint"] = loads
    BY DEF MetricsInv, LoadCountInv
  <2> QED BY <2>3, <2>4, <2>5, <2>6 DEF CountersAddUp
<1> QED BY <1>1, MetricsInvariance, PTL
===============================================================================
