--------------------------- MODULE StorageInvariant ---------------------------
(***************************************************************************)
(* The inductive invariant behind the safety theorems of StorageEngine.    *)
(* It holds whatever the faults are.  Its parts say, location by location, *)
(* what the engine relies on between two system calls.                     *)
(***************************************************************************)
EXTENDS StorageEngine

\* Locations at which recovery has accepted the segments ...
Recovered == Locations \ {"closed", "refused"}

\* ... registry and index are loaded ...
Loaded == Recovered \ {"open_load"}

\* ... and the writer is ready.
Ready == Loaded \ {"open_file", "open_magic", "open_dir"}

Rotating == {"rotate_magic", "rotate_dir"}

Collecting == {"gc", "gc_delete", "gc_dir"}

\* The last segment in the directory.
LastSegment == IF pc \in Rotating THEN active_segment + 1 ELSE active_segment

\* A segment that garbage collection removed, or is about to.
Gone(s) == (s \notin dir /\ cells[s] # <<>>) \/ s \in gc_segments

\* p is a synchronized checkpoint record of n in the directory.
GoodEntry(n, p) ==
  validate_checkpoint_position(cells, dir, n, p) /\ p.off < synced[p.seg]

\* The active segment is in the directory and nothing comes after it.
DirInv ==
  /\ pc \in Recovered => \A s \in dir : s <= LastSegment
  /\ pc \in {"open_load", "open_file"} => active_segment \in dir \/ dir = {}
  /\ pc \in Ready \cup {"open_magic", "open_dir"} => active_segment \in dir
  /\ pc \in Rotating => active_segment + 1 \in dir

\* Inactive segments are complete, the active one has no partial tail, and
\* no partial tail is hidden in a file that is not in the directory.
CompleteInv ==
  /\ pc \in Recovered =>
       /\ \A s \in dir : s < active_segment => Complete(cells, tail, s)
       /\ active_segment \in dir => tail[active_segment] # "torn"
  /\ pc \in Rotating => tail[active_segment + 1] # "torn"
  /\ \A s \in SegIds \ dir : tail[s] # "torn"

\* segment_len is the length of the active segment, which has a header.
LenInv ==
  /\ \A s \in SegIds : synced[s] <= Len(cells[s])
  /\ pc \in Ready => segment_len = Len(cells[active_segment]) /\ segment_len >= HeaderLen
  /\ pc = "open_magic" => cells[active_segment] = <<>>
  /\ pc = "open_dir" => Len(cells[active_segment]) = HeaderLen
  /\ pc = "rotate_magic" => cells[active_segment + 1] = <<>>
  /\ pc = "rotate_dir" => Len(cells[active_segment + 1]) = HeaderLen
  /\ pc = "append_sync" => unsynced_records # 0

\* Which call is at which location.
OpInv ==
  /\ pc \in {"write", "rotate_sync", "rotate_create", "rotate_magic", "rotate_dir"} =>
       op.kind \in {"create_node", "save_record", "save_snapshot"}
  /\ pc = "append_sync" => op.kind \in {"create_node", "save_snapshot"}
  /\ pc \in {"index_replace", "index_dir"} =>
       op.kind \in {"create_node", "save_snapshot", "remove_node"}
  /\ pc \in {"registry_replace", "registry_dir"} => op.kind \in {"create_node", "remove_node"}
  /\ pc \in {"append_sync", "index_replace", "index_dir", "registry_replace", "registry_dir"} =>
       op.node \in Nodes
  /\ pc \in {"write", "rotate_sync", "rotate_create", "rotate_magic", "rotate_dir"} =>
       op.node \in Nodes

\* The checkpoint that create_node or save_snapshot has appended: in the
\* active segment, synchronized before it is indexed, and in create_node
\* both indexed and in a durable file before the node becomes active.
RecordInv ==
  op.kind \in {"create_node", "save_snapshot"} =>
    /\ pc \in {"append_sync", "index_replace", "index_dir", "registry_replace", "registry_dir"} =>
         /\ record_position # None
         /\ record_position.seg = active_segment
         /\ validate_checkpoint_position(cells, dir, op.node, record_position)
    /\ pc \in {"index_replace", "index_dir", "registry_replace", "registry_dir"} =>
         record_position.off < synced[active_segment]
    /\ pc \in {"registry_replace", "registry_dir"} =>
         /\ active_segment \in dir_durable
         /\ checkpoints_json[op.node] = record_position

\* Memory and files agree up to the replacement in progress.
AgreeInv ==
  /\ pc \in Loaded => nodes_json = IF pc = "registry_dir" THEN NewRegistry ELSE registry
  /\ pc = "index_dir" => checkpoints_json = NewIndex
  /\ pc \in Collecting => checkpoints_json = checkpoint_index
  /\ pc \in Collecting => nodes_json_durable = nodes_json
  /\ pc = "gc" => dir_durable = dir

\* The index in memory is the one on disk, up to the entry being replaced.
EntryInv ==
  pc \in Loaded =>
    \A n \in Nodes :
      /\ registry[n] = "active"
      /\ n # op.node \/ pc \notin {"index_dir", "registry_replace", "registry_dir"}
      => checkpoint_index[n] = checkpoints_json[n]

\* Index entries of active nodes.  Without an open engine an entry may
\* dangle, but if it points at a record then at a synchronized one.
IndexInv ==
  /\ pc \in Loaded =>
       \A n \in Nodes :
         /\ registry[n] = "active" /\ checkpoint_index[n] # None => GoodEntry(n, checkpoint_index[n])
         /\ nodes_json[n] = "active" /\ checkpoints_json[n] # None => GoodEntry(n, checkpoints_json[n])
  /\ pc \notin Loaded =>
       \A n \in Nodes :
         LET p == checkpoints_json[n] IN
         nodes_json[n] = "active" /\ p # None /\ p.seg \in dir /\ p.off < Len(cells[p.seg]) =>
           p.off < synced[p.seg]

\* The segments still to be deleted, of a collection in progress.
GcInv ==
  /\ pc # "gc_delete" => gc_segments = {}
  /\ gc_segments \subseteq dir
  /\ \A s \in gc_segments : s # active_segment /\ allows_delete(s)

\* A durable checkpoint of n, newer than s, that stays in the directory.
Anchored(n, s) ==
  \E q \in CheckpointsOf(cells, dir, n) :
    Durable(q) /\ s < q.seg /\ q.seg \notin gc_segments

\* What garbage collection removes is older than a durable segment that
\* stays, and than a durable checkpoint of every node that is, or after a
\* power loss may be, active.
GoneInv ==
  \A s \in SegIds : Gone(s) =>
    /\ \E t \in dir \cap dir_durable : s < t /\ t \notin gc_segments
    /\ \A n \in ActiveNodes(nodes_json) \cup ActiveNodes(nodes_json_durable) : Anchored(n, s)

IInv ==
  /\ TypeOK
  /\ DirInv
  /\ CompleteInv
  /\ LenInv
  /\ OpInv
  /\ RecordInv
  /\ AgreeInv
  /\ EntryInv
  /\ IndexInv
  /\ GcInv
  /\ GoneInv

\* A durable checkpoint of n that stays in the directory.
Rooted(n) == \E q \in Position : GoodEntry(n, q) /\ q.seg \in dir_durable \ gc_segments

\* Every node that is, or after a power loss may be, active has one.
RootedInv == \A n \in ActiveNodes(nodes_json) \cup ActiveNodes(nodes_json_durable) : Rooted(n)

-------------------------------------------------------------------------------
(***************************************************************************)
(* Calls: what has been done by which system call, whatever the faults.    *)
(***************************************************************************)

\* Calls that end with a collection of garbage.
Collects == op.kind \in {"save_snapshot", "remove_node"}

\* Which call collects, and which call is at the locations OpInv leaves out.
CallInv ==
  /\ pc = "sync" => op.kind = "sync"
  /\ pc \in Collecting => Collects
  /\ pc = "return" /\ op.kind \in {"create_node", "save_snapshot", "remove_node"} => op.node \in Nodes
  /\ pc \in Collecting => op.node \in Nodes

\* The checkpoint of create_node and save_snapshot is the last record of the
\* active segment; once the index is synchronized, nothing of it can be lost.
CheckpointInv ==
  op.kind \in {"create_node", "save_snapshot"} =>
    /\ pc \in {"append_sync", "index_replace", "index_dir", "registry_replace", "registry_dir",
               "return"} \cup Collecting =>
         /\ record_position = [seg |-> active_segment, off |-> segment_len - 1]
         /\ validate_checkpoint_position(cells, dir, op.node, record_position)
    /\ pc \in {"index_replace", "index_dir", "registry_replace", "registry_dir",
               "return"} \cup Collecting =>
         record_position.off < synced[active_segment]
    /\ pc \in {"registry_replace", "registry_dir", "return"} \cup Collecting =>
         /\ active_segment \in dir_durable
         /\ checkpoints_json[op.node] = record_position
         /\ checkpoints_json_durable[op.node] = record_position

\* The registry that create_node and remove_node leave, and a node ID that
\* create_node takes was never used.
RegistryInv ==
  /\ op.kind = "create_node" /\ pc = "return" => nodes_json_durable[op.node] = "active"
  /\ op.kind = "remove_node" /\ pc \in {"index_replace", "index_dir", "return"} \cup Collecting =>
       nodes_json[op.node] = "removed" /\ nodes_json_durable[op.node] = "removed"
  /\ op.kind = "create_node" /\ pc \in Ready \ {"idle", "return"} => registry[op.node] = "unknown"
  /\ \A n \in Nodes : Rank(nodes_json_durable[n]) <= Rank(nodes_json[n])

\* A collection works on what is on stable storage, and leaves nothing that
\* it may delete.
CollectInv ==
  /\ pc \in Collecting \/ (pc = "return" /\ Collects) =>
       /\ checkpoint_index = checkpoints_json
       /\ checkpoints_json_durable = checkpoints_json
       /\ nodes_json_durable = nodes_json
  /\ pc \in {"gc_delete", "gc_dir"} \/ (pc = "return" /\ Collects) =>
       \A s \in dir \ {active_segment} : s \in gc_segments \/ ~allows_delete(s)
  /\ pc = "return" /\ Collects => dir_durable = dir

CInv == CallInv /\ CheckpointInv /\ RegistryInv /\ CollectInv

\* An instance that has appended counts every record it has not synchronized;
\* the record that "write" is about to append will be counted.
PendingInv ==
  /\ pc \notin Ready => ~appended
  /\ pc \in Ready \ {"write"} /\ appended /\ unsynced_records = 0 =>
       synced[active_segment] = Len(cells[active_segment])

\* A segment has room for the record that is about to be written, and the
\* call that writes or removes is one of an active node.
RoomInv ==
  /\ \A s \in SegIds : Len(cells[s]) <= MaxSegmentLen
  /\ pc = "write" => segment_len < MaxSegmentLen
  /\ /\ op.kind \in {"save_record", "save_snapshot"}
     /\ pc \in {"rotate_sync", "rotate_create", "rotate_magic", "rotate_dir", "write"}
     => registry[op.node] = "active"
  /\ op.kind = "remove_node" /\ pc = "registry_replace" => registry[op.node] = "active"

-------------------------------------------------------------------------------
(***************************************************************************)
(* One kind of fault.                                                      *)
(***************************************************************************)

\* Without power loss: the directory can be opened at any moment.
OpenableInv ==
  /\ pc # "refused"
  /\ \A s, t \in dir : s < t => Complete(cells, tail, s)
  /\ \A n \in ActiveNodes(nodes_json) :
       checkpoints_json[n] # None =>
         validate_checkpoint_position(cells, dir, n, checkpoints_json[n])

\* A segment of which nothing can be lost.
Sealed(s) == cells[s] # <<>> /\ tail[s] = "clean" /\ synced[s] = Len(cells[s])

\* Without a process crash no engine inherits a directory entry, a segment
\* or an index that it does not know to be on stable storage.  The names ...
NamesStable ==
  /\ pc \in {"open_magic", "open_dir"} => dir = dir_durable \cup {active_segment}
  /\ pc \in Rotating => dir = dir_durable \cup {active_segment + 1}
  /\ pc \in {"gc_delete", "gc_dir"} => dir \subseteq dir_durable
  /\ pc \notin {"open_magic", "open_dir", "gc_delete", "gc_dir"} \cup Rotating => dir_durable = dir

\* ... the segments that are not the last ...
SegmentsStable ==
  /\ \A s, t \in dir \cup dir_durable : s < t => Sealed(s)
  /\ pc = "rotate_create" => Sealed(active_segment)
  /\ \A s \in SegIds \ dir : synced[s] = Len(cells[s])

\* ... and the two JSON files.
FilesStable ==
  /\ pc # "registry_dir" => nodes_json_durable = nodes_json
  /\ pc \in Collecting \/ (op.kind = "create_node" /\ pc \in {"registry_replace", "registry_dir"}) =>
       checkpoints_json_durable = checkpoints_json
  /\ \A n \in ActiveNodes(nodes_json) \cup ActiveNodes(nodes_json_durable) :
       \A p \in {checkpoints_json[n], checkpoints_json_durable[n]} : p # None => GoodEntry(n, p)

StableInv == pc # "refused" /\ NamesStable /\ SegmentsStable /\ FilesStable
===============================================================================
