----------------------------- MODULE StorageEngine -----------------------------
(***************************************************************************)
(* One StorageEngine over one storage directory: opening and recovery, the *)
(* segment writer with rotation, the node registry (nodes.json), the       *)
(* checkpoint index (checkpoints.json) and garbage collection              *)
(* (storage.rs, segment.rs, registry.rs), on a file system whose contents  *)
(* reach stable storage only when the code synchronizes them.              *)
(*                                                                         *)
(* The engine is sequential (&mut self); every system call that changes    *)
(* the directory is a step of its own, so that the process can stop        *)
(* (Faults has "process") or the machine lose power (Faults has "power")   *)
(* between any two of them.  A failed system call ends the life of the     *)
(* engine instance and is covered by "process".  "index_lost" lets         *)
(* somebody delete checkpoints.json while no engine is open, which the     *)
(* engine supports.                                                        *)
(***************************************************************************)
EXTENDS Replay

CONSTANTS
  MaxSegmentLen,   \* max_segment_len, in cells
  Faults           \* which faults may happen

ASSUME SegmentLenAssumption == MaxSegmentLen \in Nat /\ MaxSegmentLen > HeaderLen

ASSUME FaultsAssumption == Faults \subseteq {"process", "power", "index_lost"}

VARIABLES
  cells,                     \* contents by segment ID, kept after an unlink
  synced,                    \* how many of the cells are on stable storage
  tail,                      \* what follows the last complete cell
  dir,                       \* IDs of the segment files in the directory
  dir_durable,               \* the same on stable storage
  nodes_json,                \* the NodeRegistry a reader of nodes.json gets
  nodes_json_durable,
  checkpoints_json,          \* the CheckpointIndex a reader gets
  checkpoints_json_durable,
  registry,                  \* StorageEngine.registry
  checkpoint_index,          \* StorageEngine.checkpoint_index
  active_segment,            \* SegmentWriter.active_segment
  segment_len,               \* SegmentWriter.segment_len
  unsynced_records,          \* metrics.unsynced_records
  appended,                  \* history: this instance has appended a record
  op,                        \* the call in progress
  record_position,           \* what append returned to the call
  gc_segments,               \* segments collect_garbage has still to delete
  pc                         \* the next system call of the engine

content  == <<cells, synced, tail>>
segments == <<content, dir, dir_durable>>
metadata == <<nodes_json, nodes_json_durable, checkpoints_json, checkpoints_json_durable>>
memory   == <<registry, checkpoint_index>>
writer   == <<active_segment, segment_len, unsynced_records, appended>>
call     == <<op, record_position, gc_segments>>
vars     == <<segments, metadata, memory, writer, call, pc>>

Status == {"unknown", "active", "removed"}

Registry == [Nodes -> Status]

CheckpointIndex == [Nodes -> Position \cup {None}]

NoRegistry == [n \in Nodes |-> "unknown"]

NoIndex == [n \in Nodes |-> None]

NoOp == [kind |-> "none", node |-> None]

OpKinds == {"none", "create_node", "save_record", "save_snapshot", "remove_node", "sync"}

Locations ==
  {"closed", "refused", "open_load", "open_file", "open_magic", "open_dir",
   "idle", "return",
   "rotate_sync", "rotate_create", "rotate_magic", "rotate_dir",
   "write", "append_sync", "sync",
   "index_replace", "index_dir", "registry_replace", "registry_dir",
   "gc", "gc_delete", "gc_dir"}

\* The state types.
TypeOK ==
  /\ cells \in [SegIds -> Seq(Cell)]
  /\ synced \in [SegIds -> Nat]
  /\ tail \in [SegIds -> FileTail]
  /\ dir \in SUBSET SegIds
  /\ dir_durable \in SUBSET SegIds
  /\ nodes_json \in Registry
  /\ nodes_json_durable \in Registry
  /\ checkpoints_json \in CheckpointIndex
  /\ checkpoints_json_durable \in CheckpointIndex
  /\ registry \in Registry
  /\ checkpoint_index \in CheckpointIndex
  /\ active_segment \in SegIds
  /\ segment_len \in Nat
  /\ unsynced_records \in Nat
  /\ appended \in BOOLEAN
  /\ op \in [kind : OpKinds, node : Nodes \cup {None}]
  /\ record_position \in Position \cup {None}
  /\ gc_segments \in SUBSET SegIds
  /\ pc \in Locations

ActiveNodes(reg) == { n \in Nodes : reg[n] = "active" }

\* The memory of a process that holds no engine.
NoEngine ==
  /\ registry' = NoRegistry
  /\ checkpoint_index' = NoIndex
  /\ active_segment' = 0
  /\ segment_len' = 0
  /\ unsynced_records' = 0
  /\ appended' = FALSE
  /\ op' = NoOp
  /\ record_position' = None
  /\ gc_segments' = {}
  /\ pc' = "closed"

\* A new storage directory.
Init ==
  /\ cells = [s \in SegIds |-> <<>>]
  /\ synced = [s \in SegIds |-> 0]
  /\ tail = [s \in SegIds |-> "clean"]
  /\ dir = {}
  /\ dir_durable = {}
  /\ nodes_json = NoRegistry
  /\ nodes_json_durable = NoRegistry
  /\ checkpoints_json = NoIndex
  /\ checkpoints_json_durable = NoIndex
  /\ registry = NoRegistry
  /\ checkpoint_index = NoIndex
  /\ active_segment = 0
  /\ segment_len = 0
  /\ unsynced_records = 0
  /\ appended = FALSE
  /\ op = NoOp
  /\ record_position = None
  /\ gc_segments = {}
  /\ pc = "closed"

-------------------------------------------------------------------------------
(***************************************************************************)
(* System calls.                                                           *)
(***************************************************************************)

\* File::sync_data on a segment file.
sync_data(s) ==
  /\ synced' = [synced EXCEPT ![s] = Len(cells[s])]
  /\ tail' = [tail EXCEPT ![s] = IF @ = "cut" THEN "clean" ELSE @]
  /\ cells' = cells

\* File::sync_all on the directory: every name in it becomes durable.
sync_dir ==
  /\ dir_durable' = dir
  /\ nodes_json_durable' = nodes_json
  /\ checkpoints_json_durable' = checkpoints_json

\* File::write_all of one cell to a file opened for appending.
write_all(s, cell) ==
  /\ cells' = [cells EXCEPT ![s] = Append(@, cell)]
  /\ UNCHANGED <<synced, tail>>

-------------------------------------------------------------------------------
(***************************************************************************)
(* StorageEngine::with_max_segment_len.                                    *)
(***************************************************************************)

\* select_active_append_segment
select_active_append_segment ==
  IF dir = {} THEN 0 ELSE CHOOSE s \in dir : \A t \in dir : t <= s

\* recover_storage_dir: every inactive segment must be complete; a partial
\* frame (or header) at the end of the active one is cut off.
OpenRecover ==
  LET active == select_active_append_segment
      refused == \E s \in dir \ {active} : ~Complete(cells, tail, s)
  IN  /\ pc = "closed"
      /\ active_segment' = active
      /\ tail' = IF ~refused /\ active \in dir /\ tail[active] = "torn"
                 THEN [tail EXCEPT ![active] = "cut"]
                 ELSE tail
      /\ pc' = IF refused THEN "refused" ELSE "open_load"
      /\ UNCHANGED <<cells, synced, dir, dir_durable, metadata, memory, call,
                     segment_len, unsynced_records, appended>>

\* Mutant: entries of removed nodes are not dropped.
OpenLoad_NoRetain ==
  LET valid == \A n \in Nodes : checkpoints_json[n] # None =>
                 validate_checkpoint_position(cells, dir, n, checkpoints_json[n])
  IN  /\ pc = "open_load"
      /\ registry' = nodes_json
      /\ checkpoint_index' = checkpoints_json
      /\ pc' = IF valid THEN "open_file" ELSE "refused"
      /\ UNCHANGED <<segments, metadata, writer, call>>

\* NodeRegistry::load and CheckpointIndex::load: index entries of nodes that
\* are not active are dropped, the others must point at their checkpoint.
OpenLoad ==
  LET index == [n \in Nodes |-> IF nodes_json[n] = "active" THEN checkpoints_json[n] ELSE None]
      valid == \A n \in Nodes :
                 index[n] # None => validate_checkpoint_position(cells, dir, n, index[n])
  IN  /\ pc = "open_load"
      /\ registry' = nodes_json
      /\ checkpoint_index' = index
      /\ pc' = IF valid THEN "open_file" ELSE "refused"
      /\ UNCHANGED <<segments, metadata, writer, call>>

\* SegmentWriter::open on an existing file; an empty one gets its magic.
OpenExisting ==
  /\ pc = "open_file"
  /\ active_segment \in dir
  /\ IF cells[active_segment] = <<>>
     THEN write_all(active_segment, Header)
     ELSE UNCHANGED content
  /\ segment_len' = Len(cells'[active_segment])
  /\ pc' = "idle"
  /\ UNCHANGED <<dir, dir_durable, metadata, memory, call,
                 active_segment, unsynced_records, appended>>

\* SegmentWriter::open when there is no segment yet: create, magic, sync.
OpenCreate ==
  /\ pc = "open_file"
  /\ active_segment \notin dir
  /\ dir' = dir \cup {active_segment}
  /\ pc' = "open_magic"
  /\ UNCHANGED <<content, dir_durable, metadata, memory, writer, call>>

OpenMagic ==
  /\ pc = "open_magic"
  /\ write_all(active_segment, Header)
  /\ pc' = "open_dir"
  /\ UNCHANGED <<dir, dir_durable, metadata, memory, writer, call>>

OpenDir ==
  /\ pc = "open_dir"
  /\ sync_dir
  /\ segment_len' = Len(cells[active_segment])
  /\ pc' = "idle"
  /\ UNCHANGED <<content, dir, nodes_json, checkpoints_json, memory, call,
                 active_segment, unsynced_records, appended>>

-------------------------------------------------------------------------------
(***************************************************************************)
(* Calls.  A call that ensure_node_exists or NodeRegistry::create_node     *)
(* rejects changes nothing and is not a step.                              *)
(***************************************************************************)

\* should_rotate: never for a segment with no record; otherwise it depends
\* on the byte lengths, which cells abstract: a segment of MaxSegmentLen
\* cells has no room for any frame, a shorter one may or may not have.
should_rotate ==
  IF segment_len <= HeaderLen THEN {FALSE}
  ELSE IF segment_len >= MaxSegmentLen THEN {TRUE}
  ELSE BOOLEAN

\* The start of SegmentWriter::append.
BeginAppend(kind, n) ==
  /\ op' = [kind |-> kind, node |-> n]
  /\ \E rotate \in should_rotate : pc' = IF rotate THEN "rotate_sync" ELSE "write"

\* save_current_term, save_voted_for and append_entries
SaveRecord(n) ==
  /\ pc = "idle"
  /\ registry[n] = "active"
  /\ BeginAppend("save_record", n)
  /\ UNCHANGED <<segments, metadata, memory, writer, record_position, gc_segments>>

SaveSnapshot(n) ==
  /\ pc = "idle"
  /\ registry[n] = "active"
  /\ BeginAppend("save_snapshot", n)
  /\ UNCHANGED <<segments, metadata, memory, writer, record_position, gc_segments>>

\* Mutant: a removed node ID counts as vacant.
CreateNode_ReuseRemoved(n) ==
  /\ pc = "idle"
  /\ registry[n] # "active"
  /\ BeginAppend("create_node", n)
  /\ UNCHANGED <<segments, metadata, memory, writer, record_position, gc_segments>>

CreateNode(n) ==
  /\ pc = "idle"
  /\ registry[n] = "unknown"
  /\ BeginAppend("create_node", n)
  /\ UNCHANGED <<segments, metadata, memory, writer, record_position, gc_segments>>

RemoveNode(n) ==
  /\ pc = "idle"
  /\ registry[n] = "active"
  /\ op' = [kind |-> "remove_node", node |-> n]
  /\ pc' = "registry_replace"
  /\ UNCHANGED <<segments, metadata, memory, writer, record_position, gc_segments>>

Sync ==
  /\ pc = "idle"
  /\ op' = [kind |-> "sync", node |-> None]
  /\ pc' = "sync"
  /\ UNCHANGED <<segments, metadata, memory, writer, record_position, gc_segments>>

\* The call returns Ok to its caller.
Return ==
  /\ pc = "return"
  /\ op' = NoOp
  /\ record_position' = None
  /\ pc' = "idle"
  /\ UNCHANGED <<segments, metadata, memory, writer, gc_segments>>

-------------------------------------------------------------------------------
(***************************************************************************)
(* SegmentWriter: rotate, write, sync.                                     *)
(***************************************************************************)

\* sync_current_segment, unconditional at a rotation.
RotateSync ==
  /\ pc = "rotate_sync"
  /\ sync_data(active_segment)
  /\ unsynced_records' = 0
  /\ pc' = "rotate_create"
  /\ UNCHANGED <<dir, dir_durable, metadata, memory, call,
                 active_segment, segment_len, appended>>

\* next_append overflows, or create_new finds the file: the call fails and
\* leaves the engine as it was.
RotateFails ==
  /\ pc = "rotate_create"
  /\ active_segment = MaxSegmentId \/ active_segment + 1 \in dir
  /\ op' = NoOp
  /\ pc' = "idle"
  /\ UNCHANGED <<segments, metadata, memory, writer, record_position, gc_segments>>

\* Mutant: the next segment ID is not checked for overflow.
RotateCreate_Unchecked ==
  /\ pc = "rotate_create"
  /\ active_segment + 1 \notin dir
  /\ dir' = dir \cup {active_segment + 1}
  /\ pc' = "rotate_magic"
  /\ UNCHANGED <<content, dir_durable, metadata, memory, writer, call>>

\* create_active_segment_file: create_new, then the magic.
RotateCreate ==
  /\ pc = "rotate_create"
  /\ active_segment # MaxSegmentId
  /\ active_segment + 1 \notin dir
  /\ dir' = dir \cup {active_segment + 1}
  /\ pc' = "rotate_magic"
  /\ UNCHANGED <<content, dir_durable, metadata, memory, writer, call>>

RotateMagic ==
  /\ pc = "rotate_magic"
  /\ write_all(active_segment + 1, Header)
  /\ pc' = "rotate_dir"
  /\ UNCHANGED <<dir, dir_durable, metadata, memory, writer, call>>

\* Mutant: the directory is not synchronized.
RotateDir_NoSync ==
  /\ pc = "rotate_dir"
  /\ active_segment' = active_segment + 1
  /\ segment_len' = HeaderLen
  /\ pc' = "write"
  /\ UNCHANGED <<segments, metadata, memory, call, unsynced_records, appended>>

\* Mutant: the length of the old segment is kept.
RotateDir_StaleLen ==
  /\ pc = "rotate_dir"
  /\ sync_dir
  /\ active_segment' = active_segment + 1
  /\ pc' = "write"
  /\ UNCHANGED <<content, dir, nodes_json, checkpoints_json, memory, call,
                 segment_len, unsynced_records, appended>>

\* sync_parent_dir, after which the writer switches to the new segment.
RotateDir ==
  /\ pc = "rotate_dir"
  /\ sync_dir
  /\ active_segment' = active_segment + 1
  /\ segment_len' = HeaderLen
  /\ pc' = "write"
  /\ UNCHANGED <<content, dir, nodes_json, checkpoints_json, memory, call,
                 unsynced_records, appended>>

\* Mutant: only checkpoints are counted as unsynced.
Write_Uncounted ==
  /\ pc = "write"
  /\ record_position' = [seg |-> active_segment, off |-> segment_len]
  /\ write_all(active_segment, [node |-> op.node, checkpoint |-> op.kind # "save_record"])
  /\ segment_len' = segment_len + 1
  /\ unsynced_records' = unsynced_records + (IF op.kind = "save_record" THEN 0 ELSE 1)
  /\ appended' = TRUE
  /\ pc' = IF op.kind = "save_record" THEN "return" ELSE "append_sync"
  /\ UNCHANGED <<dir, dir_durable, metadata, memory, active_segment, op, gc_segments>>

\* The rest of append; the position comes from segment_len, the bytes go to
\* the end of the file.
Write ==
  /\ pc = "write"
  /\ record_position' = [seg |-> active_segment, off |-> segment_len]
  /\ write_all(active_segment, [node |-> op.node, checkpoint |-> op.kind # "save_record"])
  /\ segment_len' = segment_len + 1
  /\ unsynced_records' = unsynced_records + 1
  /\ appended' = TRUE
  /\ pc' = IF op.kind = "save_record" THEN "return" ELSE "append_sync"
  /\ UNCHANGED <<dir, dir_durable, metadata, memory, active_segment, op, gc_segments>>

\* SegmentWriter::sync, skipped when no append is pending.
WriterSync ==
  /\ IF unsynced_records # 0 THEN sync_data(active_segment) ELSE UNCHANGED content
  /\ unsynced_records' = 0
  /\ UNCHANGED <<dir, dir_durable, metadata, memory, call,
                 active_segment, segment_len, appended>>

\* Mutant: the checkpoint is indexed without being synchronized.
AppendSync_Skipped ==
  /\ pc = "append_sync"
  /\ pc' = "index_replace"
  /\ UNCHANGED <<segments, metadata, memory, call, writer>>

\* ... of create_node and save_snapshot
AppendSync == pc = "append_sync" /\ WriterSync /\ pc' = "index_replace"

\* ... of sync
SyncCall == pc = "sync" /\ WriterSync /\ pc' = "return"

-------------------------------------------------------------------------------
(***************************************************************************)
(* CheckpointIndex::save and NodeRegistry::save.  The temporary file is    *)
(* synchronized before the rename, so a reader finds the old or the new    *)
(* content; which of the two is durable is open until sync_dir.            *)
(***************************************************************************)

\* The index with the call's set_checkpoint_position or remove_node.
NewIndex ==
  [checkpoint_index EXCEPT ![op.node] = IF op.kind = "remove_node" THEN None ELSE record_position]

\* The registry with the call's create_node or remove_node.
NewRegistry ==
  [registry EXCEPT ![op.node] = IF op.kind = "remove_node" THEN "removed" ELSE "active"]

IndexReplace ==
  /\ pc = "index_replace"
  /\ checkpoints_json' = NewIndex
  /\ pc' = "index_dir"
  /\ UNCHANGED <<segments, nodes_json, nodes_json_durable, checkpoints_json_durable,
                 memory, writer, call>>

\* create_node goes on with the registry; the others adopt the new index.
IndexDir ==
  /\ pc = "index_dir"
  /\ sync_dir
  /\ IF op.kind = "create_node"
     THEN checkpoint_index' = checkpoint_index /\ pc' = "registry_replace"
     ELSE checkpoint_index' = NewIndex /\ pc' = "gc"
  /\ UNCHANGED <<content, dir, nodes_json, checkpoints_json, registry, writer, call>>

RegistryReplace ==
  /\ pc = "registry_replace"
  /\ nodes_json' = NewRegistry
  /\ pc' = "registry_dir"
  /\ UNCHANGED <<segments, nodes_json_durable, checkpoints_json, checkpoints_json_durable,
                 memory, writer, call>>

\* Mutant: the rename of nodes.json is not synchronized.
RegistryDir_NoSync ==
  /\ pc = "registry_dir"
  /\ registry' = NewRegistry
  /\ IF op.kind = "create_node"
     THEN checkpoint_index' = NewIndex /\ pc' = "return"
     ELSE checkpoint_index' = checkpoint_index /\ pc' = "index_replace"
  /\ UNCHANGED <<segments, metadata, writer, call>>

\* create_node adopts registry and index and returns; remove_node adopts the
\* registry and goes on with the index.
RegistryDir ==
  /\ pc = "registry_dir"
  /\ sync_dir
  /\ registry' = NewRegistry
  /\ IF op.kind = "create_node"
     THEN checkpoint_index' = NewIndex /\ pc' = "return"
     ELSE checkpoint_index' = checkpoint_index /\ pc' = "index_replace"
  /\ UNCHANGED <<content, dir, nodes_json, checkpoints_json, writer, call>>

-------------------------------------------------------------------------------
(***************************************************************************)
(* collect_garbage.                                                        *)
(***************************************************************************)

\* Mutants: the barrier is the newest checkpoint instead of the oldest; a
\* missing entry does not hold a segment back; off by one.
allows_delete_Newest(s) ==
  \E n \in ActiveNodes(registry) :
    checkpoint_index[n] # None /\ s < checkpoint_index[n].seg

allows_delete_SkipMissing(s) ==
  \A n \in ActiveNodes(registry) :
    checkpoint_index[n] # None => s < checkpoint_index[n].seg

allows_delete_OffByOne(s) ==
  \A n \in ActiveNodes(registry) :
    checkpoint_index[n] # None /\ s <= checkpoint_index[n].seg

\* gc_barrier and allows_delete: no segment may go while an active node has
\* no index entry; with no active node every segment may.
allows_delete(s) ==
  \A n \in ActiveNodes(registry) :
    checkpoint_index[n] # None /\ s < checkpoint_index[n].seg

GcStart ==
  /\ pc = "gc"
  /\ gc_segments' = { s \in dir \ {active_segment} : allows_delete(s) }
  /\ pc' = IF gc_segments' = {} THEN "return" ELSE "gc_delete"
  /\ UNCHANGED <<segments, metadata, memory, writer, op, record_position>>

\* Mutant: the deletions are not synchronized.
GcDelete_NoSync ==
  /\ pc = "gc_delete"
  /\ \E s \in gc_segments :
       /\ \A t \in gc_segments : s <= t
       /\ dir' = dir \ {s}
       /\ gc_segments' = gc_segments \ {s}
  /\ pc' = IF gc_segments' = {} THEN "return" ELSE "gc_delete"
  /\ UNCHANGED <<content, dir_durable, metadata, memory, writer, op, record_position>>

\* remove_file, in ascending order of the segment IDs.
GcDelete ==
  /\ pc = "gc_delete"
  /\ \E s \in gc_segments :
       /\ \A t \in gc_segments : s <= t
       /\ dir' = dir \ {s}
       /\ gc_segments' = gc_segments \ {s}
  /\ pc' = IF gc_segments' = {} THEN "gc_dir" ELSE "gc_delete"
  /\ UNCHANGED <<content, dir_durable, metadata, memory, writer, op, record_position>>

GcDir ==
  /\ pc = "gc_dir"
  /\ sync_dir
  /\ pc' = "return"
  /\ UNCHANGED <<content, dir, nodes_json, checkpoints_json, memory, writer, call>>

-------------------------------------------------------------------------------
(***************************************************************************)
(* The end of an engine instance, and faults.                              *)
(***************************************************************************)

\* The engine is dropped; nothing is synchronized.
Close ==
  /\ pc = "idle"
  /\ NoEngine
  /\ UNCHANGED <<segments, metadata>>

\* The segments whose write is in progress, of which a part may be visible.
MidWrite ==
  { s \in dir :
      \/ pc \in {"write", "open_magic"} /\ s = active_segment
      \/ pc = "open_file" /\ s = active_segment /\ cells[s] = <<>>
      \/ pc = "rotate_magic" /\ s = active_segment + 1 }

ProcessCrash ==
  /\ "process" \in Faults
  /\ pc # "closed"
  /\ \E torn \in SUBSET MidWrite :
       tail' = [s \in SegIds |-> IF s \in torn THEN "torn" ELSE tail[s]]
  /\ NoEngine
  /\ UNCHANGED <<cells, synced, dir, dir_durable, metadata>>

(***************************************************************************)
(* Stable storage holds, of each file, the synchronized cells, some of the *)
(* later ones and perhaps part of the next; of the directory, any state    *)
(* between the synchronized one and the current one; and of each JSON file *)
(* the synchronized or the current content.                                *)
(***************************************************************************)
\* How many cells of each file may be left; none of a file that lost its
\* name.  Only a file with cells that are not synchronized leaves a choice.
KeptLengths(survivors) ==
  LET loose == { s \in SegIds : synced[s] < Len(cells[s]) }
  IN  { [s \in SegIds |-> IF s \in dir \ survivors THEN 0
                          ELSE IF s \in loose THEN kept[s] ELSE Len(cells[s])] :
          kept \in { k \in [loose -> 0 .. MaxSegmentLen] :
                       \A s \in loose : synced[s] <= k[s] /\ k[s] <= Len(cells[s]) } }

PowerLoss ==
  /\ "power" \in Faults
  /\ \E survivors \in SUBSET (dir \cup dir_durable) :
       /\ dir \cap dir_durable \subseteq survivors
       /\ dir' = survivors
       /\ dir_durable' = survivors
       /\ synced' \in KeptLengths(survivors)
       /\ cells' = [s \in SegIds |-> SubSeq(cells[s], 1, synced'[s])]
       /\ \E torn \in SUBSET { s \in survivors : \/ synced'[s] < Len(cells[s])
                                                 \/ tail[s] # "clean"
                                                 \/ s \in MidWrite } :
            tail' = [s \in SegIds |-> IF s \in torn THEN "torn" ELSE "clean"]
  /\ nodes_json' \in {nodes_json, nodes_json_durable}
  /\ nodes_json_durable' = nodes_json'
  /\ checkpoints_json' \in {checkpoints_json, checkpoints_json_durable}
  /\ checkpoints_json_durable' = checkpoints_json'
  /\ NoEngine

\* Somebody deletes checkpoints.json while no engine is open.
LoseIndex ==
  /\ "index_lost" \in Faults
  /\ pc = "closed"
  /\ checkpoints_json' = NoIndex
  /\ UNCHANGED <<segments, nodes_json, nodes_json_durable, checkpoints_json_durable,
                 memory, writer, call, pc>>

-------------------------------------------------------------------------------
Open == OpenRecover \/ OpenLoad \/ OpenExisting \/ OpenCreate \/ OpenMagic \/ OpenDir

Begin ==
  \/ \E n \in Nodes : CreateNode(n) \/ SaveRecord(n) \/ SaveSnapshot(n) \/ RemoveNode(n)
  \/ Sync

AppendSteps == RotateSync \/ RotateFails \/ RotateCreate \/ RotateMagic \/ RotateDir \/ Write \/ AppendSync

Proceed ==
  \/ AppendSteps
  \/ SyncCall
  \/ IndexReplace \/ IndexDir \/ RegistryReplace \/ RegistryDir
  \/ GcStart \/ GcDelete \/ GcDir
  \/ Return

Fault == ProcessCrash \/ PowerLoss \/ LoseIndex

Next == Open \/ Begin \/ Proceed \/ Close \/ Fault

Spec == Init /\ [][Next]_vars

-------------------------------------------------------------------------------
(***************************************************************************)
(* Properties.                                                             *)
(***************************************************************************)

\* Opening never fails with InvalidData (recover_storage_dir,
\* CheckpointIndex::load), wherever the faults before it struck.
NeverRefused == pc # "refused"

\* The records of n that make up its state: every record ever written and
\* not lost to a fault, from the newest checkpoint of n on.
Expected(n) ==
  { p \in RecordsOf(cells, SegIds, n) :
      \A q \in CheckpointsOf(cells, SegIds, n) : ~Before(p, q) }

\* load(n) of an open engine succeeds and replays exactly the state of n,
\* whatever garbage collection removed and however old the hint is.
LoadCorrect ==
  pc = "idle" =>
    \A n \in ActiveNodes(registry) :
      /\ ~scan_fails(cells, tail, dir, active_segment, checkpoint_index[n])
      /\ replay_node_state(cells, dir, n, checkpoint_index[n]) = Expected(n)

\* load_all, which starts at the oldest hint and falls back to a scan of
\* everything when a hint is missing, agrees with load for every node.
LoadAllCorrect ==
  pc = "idle" /\ ActiveNodes(registry) # {} =>
    LET targets == ActiveNodes(registry) IN
    replay_storage_dir(cells, dir, targets, checkpoint_index) = [n \in targets |-> Expected(n)]

\* When SegmentWriter::sync would skip fdatasync because no append is
\* pending, everything this instance appended is on stable storage, in a
\* file whose directory entry is.
SyncIsDurable ==
  pc = "idle" /\ appended /\ unsynced_records = 0 =>
    /\ synced[active_segment] = Len(cells[active_segment])
    /\ active_segment \in dir_durable

\* Between calls the in-memory registry, index and writer position agree
\* with the directory, so that offsets handed out are real file offsets.
MemoryAgreesWithDisk ==
  pc = "idle" =>
    /\ registry = nodes_json
    /\ \A n \in ActiveNodes(registry) : checkpoint_index[n] = checkpoints_json[n]
    /\ segment_len = Len(cells[active_segment])
    /\ active_segment \in dir
    /\ \A s \in dir : s <= active_segment

\* A position that power loss cannot take away.
Durable(p) == p.seg \in dir \cap dir_durable /\ p.off < synced[p.seg]

\* What create_node, save_snapshot and remove_node have made durable when
\* they return Ok.
ReturnedCallsAreDurable ==
  pc = "return" =>
    /\ op.kind = "create_node" => nodes_json_durable[op.node] = "active"
    /\ op.kind = "remove_node" => nodes_json_durable[op.node] = "removed"
    /\ op.kind \in {"create_node", "save_snapshot"} =>
         LET p == checkpoints_json_durable[op.node] IN
         /\ p # None
         /\ validate_checkpoint_position(cells, dir, op.node, p)
         /\ Durable(p)
         /\ p = Latest(CheckpointsOf(cells, SegIds, op.node))

\* What the documentation says of the index: an entry of an active node
\* points at a checkpoint record that power loss cannot take away.
IndexPointsAtDurableRecord ==
  \A n \in ActiveNodes(nodes_json) :
    checkpoints_json[n] # None => Durable(checkpoints_json[n])

\* Garbage collection is safe at every step, crashes included: each segment
\* that is gone is older than a durable checkpoint of every node that is,
\* or after a power loss may again be, active.
UnlinkedIsSuperseded ==
  \A s \in SegIds \ dir :
    cells[s] # <<>> =>
      \A n \in ActiveNodes(nodes_json) \cup ActiveNodes(nodes_json_durable) :
        \E q \in CheckpointsOf(cells, dir, n) : Durable(q) /\ s < q.seg

\* After save_snapshot and remove_node no inactive segment older than every
\* active node's checkpoint is left, not even on stable storage and not even
\* one that an interrupted earlier collection left behind.
GcIsComplete ==
  pc = "return" /\ op.kind \in {"save_snapshot", "remove_node"} =>
    \A s \in (dir \cup dir_durable) \ {active_segment} :
      \E n \in ActiveNodes(nodes_json_durable) :
        \/ checkpoints_json_durable[n] = None
        \/ checkpoints_json_durable[n].seg <= s

\* What the documentation says of sync(): after it, the records that were
\* appended to the active segment, by whichever instance, are durable.
SyncMakesAppendsDurable ==
  pc = "return" /\ op.kind = "sync" =>
    \A p \in RecordsIn(cells, {active_segment}) : p.off < synced[p.seg]

\* Durable records of n that no durable checkpoint of n supersedes.
DurableRecords(n) ==
  { p \in RecordsOf(cells, SegIds, n) :
      /\ Durable(p)
      /\ \A q \in CheckpointsOf(cells, SegIds, n) : Durable(q) => ~Before(p, q) }

\* No step (garbage collection, recovery or fault) takes a durable record
\* from a node that stays active, unless a durable checkpoint replaces it.
NoDurableRecordLost ==
  [][\A n \in ActiveNodes(nodes_json) \cap ActiveNodes(nodes_json') :
       \A p \in DurableRecords(n) :
         \/ p \in DurableRecords(n)'
         \/ \E q \in DurableRecords(n)' : Before(p, q) /\ CellAt(cells', q).checkpoint]_vars

Rank(status) == CASE status = "unknown" -> 0 [] status = "active" -> 1 [] status = "removed" -> 2

\* A node ID is never given back: once removal (or creation) is durable no
\* later call, crash or reopening undoes it.
IdsStayReserved ==
  [][\A n \in Nodes : Rank(nodes_json_durable[n]) <= Rank(nodes_json_durable'[n])]_vars
===============================================================================
