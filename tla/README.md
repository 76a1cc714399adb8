# sukari in TLA+

TLA+ models of [sukari](../src/README.md), a storage engine that keeps the
persistent state of many Raft nodes in one directory. The models are translated
from `src/src/*.rs`; TLC checks them on small instances, and TLAPS proves for
every instance the safety properties of the engine, of replay and of a node's
state, of the read-only functions beside a writer, of the metadata files, of the
write lock and of the metrics, and both refinements.

## The system

| Component | State | Operations |
|---|---|---|
| Storage engine (`storage.rs`) | registry, checkpoint index, writer | open, `create_node`, `save_current_term`, `save_voted_for`, `append_entries`, `save_snapshot`, `remove_node`, `sync`, `load`, `load_all`, drop |
| Segment writer (`segment.rs`) | active segment, its length | open, append, rotate, sync |
| Node registry (`registry.rs`) | `nodes.json`: active and removed IDs, metadata | load, save, create, remove |
| Checkpoint index (`storage.rs`) | `checkpoints.json`: newest known checkpoint per node | load with validation, save, set, remove, GC barrier |
| Garbage collection (`storage.rs`) | the segment files | delete inactive segments below the barrier |
| Recovery (`storage.rs`) | the segment files | scan every segment, cut a partial record off the active one |
| Replay (`storage.rs`) | none | choose the records of a node, fold them over a `NodeState` |
| Node state (`storage.rs`) | term, vote, log, payloads, snapshot | apply a record |
| Read-only functions (`storage.rs`) | none kept | `load`, `load_all`, `nodes` next to a running writer |
| Write lock (`storage.rs`) | `write.lock` | acquire at open |
| Record codec (`codec.rs`) | none | encode, decode, frame, scan |
| CRC-32C (`crc32c.rs`) | the checksum so far | feed bytes, take the value |
| Metrics (`metrics.rs`) | counters and gauges of an engine | one method per event |
| Bytes (`bytes.rs`) | a shared buffer | none that changes it |

An engine is sequential: every call takes `&mut self`. What is hard is not
concurrency within it but the order in which its files reach stable storage. A
call such as `create_node` changes three files (a segment, `checkpoints.json`,
`nodes.json`), and rotation and collection add and remove others; the process or
the machine may stop between any two system calls, and a file, its contents and
its name become durable separately. The second hard part is the read-only
functions, which read file after file while a writer runs. What would make each
component wrong is listed, with the line where it bites, under `hazards` in
`PROJECT.json`.

What makes the components correct:

- engine and recovery: opening never refuses a directory that the engine itself
  left behind; what a call made durable when it returned stays;
- garbage collection: only superseded segments go, in every intermediate state,
  and none is forgotten for ever;
- replay: `load` and `load_all` rebuild exactly the state of a node, from what
  collection has left and whatever the age of the index entry;
- registry: an ID is never given out twice;
- writer: positions handed out are positions of records; `sync` means durable;
- node state: `load` returns what the caller stored, whatever it overwrote,
  truncated or compacted;
- read-only functions: what they return is a state the node had;
- metadata files: a reader sees one whole version, and no fault brings an old one
  back;
- write lock: one engine in the directory, and none locked out for ever;
- codec and checksum: what can be written can be read, and a torn frame is
  neither taken for a record nor for corruption;
- metrics: gauges are current between calls, the one that `sync` decides by
  included, and counters agree with each other.

## Modules

| Module | Content |
|---|---|
| `Replay` | segment files as sequences of cells; which records `load` and `load_all` apply |
| `StorageEngine` | the engine over a file system with faults: `Init`, one action per system call that changes the directory, `Next`, `Spec`, the properties |
| `StorageInvariant` | the inductive invariant `IInv` and its parts; the invariants built on it |
| `StorageEngineProofs` | `IInv` is invariant; type correctness, GC safety, agreement of memory and disk; `load` and `load_all` are correct |
| `DurabilityProofs` | what the engine keeps, through which faults; collection is complete; IDs stay reserved |
| `NodeStore` | abstract: one log, of which a fault takes an undurable end; the state of each node |
| `StorageRefinement` | the mapping under which `StorageEngine` implements `NodeStore` |
| `RefinementProofs` | it does, for every instance |
| `Reader` | the read-only functions, step by step, composed with `StorageEngine` |
| `ReaderProofs` | what they return is right, and when they fail |
| `Metrics` | the counters, composed with `StorageEngine` |
| `MetricsProofs` | the gauges are current and the counters add up |
| `Records` | terms, positions, log entries, `LogAppend`, `SnapshotCheckpoint` and their validation |
| `NodeState` | the fold of a node's records, beside the caller that writes them |
| `NodeStateProofs` | `load` returns what the caller stored |
| `AtomicFile` | abstract: a file that is replaced as a whole |
| `MetadataFile` | `save` and `load` of the JSON files; implements `AtomicFile` |
| `MetadataFileProofs` | it does, and no old version returns |
| `Codec` | every encode and decode function |
| `SegmentFile` | the active segment as encoded frames: append, crash, recovery, load |
| `WriteLock` | several engines that open one directory, and its inductive invariant |
| `WriteLockProofs` | the theorems about `WriteLock` |
| `Crc32c` | the sliced, streaming checksum and the division it must agree with |
| `MC...` | the instances for TLC, with the symmetry of the node IDs |

`StorageEngine` is the centre. `Reader` and `Metrics` extend it with a second
actor and with further state; `StorageRefinement` says what it promises. The
others open what it takes as one step or one value: the replacement of a JSON
file (`MetadataFile`, shown to be the atomic replacement of `IndexReplace` and
`RegistryReplace`), a record (`NodeState`, `Codec`), a complete or partial frame
(`SegmentFile`, `Crc32c`) and the exclusion of a second writer (`WriteLock`).

### Files

A segment is a sequence of cells: a header cell, then one cell per complete
record frame. A cell keeps what the engine decides by: the node and whether the
record is a checkpoint. A position is a segment ID and the number of cells before
the record, which orders records exactly as byte offsets do. `tail` says whether
a partial frame follows. Replay folds records in position order starting at a
checkpoint, which replaces the whole state, so what it computes is determined by
the set of positions it applies; the operators of `Replay` compute that set.

`cells` is kept after a file is unlinked. It is then the history that
`Expected(n)` refers to: what the state of `n` should be had nothing been
deleted.

For each file the model keeps the visible and the durable version: `cells` and
`synced` (how many of the cells are on stable storage), `dir` and `dir_durable`
(which segment names exist), and the two JSON files with their durable content.
A JSON file is written to a temporary name, synchronized and renamed, so a
reader sees the old or the new content; which of the two is durable is open
until the directory is synchronized.

### Actions and code

| Actions | Code |
|---|---|
| `OpenRecover`, `OpenLoad` | `recover_storage_dir`; `NodeRegistry::load`, `CheckpointIndex::load` |
| `OpenExisting`; `OpenCreate`, `OpenMagic`, `OpenDir` | `SegmentWriter::open` with and without an existing file |
| `CreateNode`, `SaveRecord`, `SaveSnapshot`, `RemoveNode`, `Sync` | the checks of the call up to its first system call |
| `RotateSync`, `RotateFails`, `RotateCreate`, `RotateMagic`, `RotateDir`, `Write` | `SegmentWriter::append` and `rotate` |
| `AppendSync`, `SyncCall` | `SegmentWriter::sync` |
| `IndexReplace`, `IndexDir`, `RegistryReplace`, `RegistryDir` | `CheckpointIndex::save`, `NodeRegistry::save`, and what the call adopts after them |
| `GcStart`, `GcDelete`, `GcDir` | `collect_garbage` |
| `Return`, `Close` | the call returns; the engine is dropped |
| `ProcessCrash`, `PowerLoss`, `LoseIndex` | the environment |

`pc` names the next system call and `op` the call in progress. `load` and
`load_all` change nothing in an open engine (there is never a partial tail to cut
off: `CompleteInv`), so they are operators that the properties evaluate.

In the other modules:

| Module | Actions | Code |
|---|---|---|
| `Reader` | `ReadRegistry`, `ReadIndex`, `Validate` | `ReadOnlyStorage::open` |
| | `List` | `discover_segment_paths`, once for the scan and once for the replay |
| | `OpenSegment`, `ScanSegment`, `ReplaySegment` | `scan_checkpoint_positions`, `replay_node_segment`, `replay_segment` |
| | `WriterStep` | any step of `StorageEngine` |
| `NodeState` | `SaveCurrentTerm`, `SaveVotedFor`, `AppendEntries`, `SaveSnapshot` | the calls; `apply_*`, `into_state` at load |
| `MetadataFile` | `OpenTmp`, `WriteBlock`, `SyncTmp`, `Rename`, `SyncDir` | `NodeRegistry::save`, `CheckpointIndex::save` |
| `SegmentFile` | `AppendRecord`, `Recover`; operator `Load` | `SegmentWriter::append`, `scan_segment`, the loop of `replay_segment` |
| `WriteLock` | `OpenLockFile`, `TryLock`, `Recover`, `OpenWriter` | `acquire_write_lock`, `with_max_segment_len` |
| | `BeginAppend`, `EndAppend`, `FailAppend` | `write_all` in `SegmentWriter::append` |
| `Metrics` | the actions of `StorageEngine` with suffix `M`, `Reject`, `LoadNode`, `LoadAll` | the same steps with their calls of `StorageMetricsCounters` |

`Reader` remembers, as history, the newest record of each node when the read
began (`floor`) and what the writer did since (`seen`): it deleted a segment
(`"collected"`), recovery cut off a partial frame (`"cut"`), or the directory changed
in the middle of a listing (`"mixed"`). A segment is read in one step, at the moment its end is met: segments only grow, so the records read
before are the same. A reader keeps the open file of a segment that is deleted.
`nodes()` is `ReadOnlyStorage::open` alone: `ReadRegistry`, and then `ReadIndex` and
`Validate`, in which it may fail although it returns the registry only.

`WriteLock` takes the documented contract of the callers for granted (storage.rs:47):
an engine whose write failed is dropped and not used again, which no guard in the
code enforces. What is checked is that the engine that opens the directory next
does not append behind the partial frame.

`NodeState` sets a caller beside the code which keeps its log as a map from index
to entry, term and payload; `LoadMatchesCaller` compares the two.

In `Codec` an integer field is one unit, whatever its width, and a byte of a
string is one; lengths count units. A field that is partly there counts as
missing, as `read_exact` has it. In `Crc32c` a word is the set of the positions
of its 1 bits, so the arithmetic is the real one, with 32 bits; its operators are
compared with each other and have no state, and `SegmentFile` states the result.

The definitions with a suffix after an underscore (`RotateDir_NoSync`,
`allows_delete_OffByOne`, ...) are deliberately wrong variants. `PROJECT.json`
pairs each with the property that must fail when it replaces the original.

### The environment

- A process crash keeps everything that was written; of a write in progress a
  prefix may be visible.
- A power loss keeps, of each file, the synchronized cells, some of the later
  ones in order, and perhaps a part of the next; of the directory every name
  that is in both versions, and any of the names in one; of each JSON file
  either version. Synchronizing a file's data does not make its name durable.
- Somebody may delete `checkpoints.json` while no engine is open, which the
  engine supports (`architecture-overview.md`, "If `checkpoints.json` is
  missing, ...").
- A failed system call is fatal to the engine instance (`storage.rs:47`), so it
  is a process crash. Only the failure of a rotation before it changes anything
  (ID overflow, existing file) leaves a usable engine: `RotateFails`.
- One engine is open at a time, which `WriteLock` shows of `write.lock`. Corrupted
  bytes (a wrong checksum) do not occur; in `StorageEngine` tearing leaves
  prefixes only, in `SegmentFile` zeros may follow.
- A lock of a file belongs to an open file description; closing it, or the end
  of the process, releases it.
- A listing of the directory sees one state of it where `AtomicListing` is TRUE,
  as common file systems have it for directories that fit into one buffer of
  `getdents`. POSIX does not promise that: where it is FALSE, the listing comes to
  the names one by one, in any order, and the writer may act in between. The
  theorems hold for both, but say nothing of a read if the directory changed in
  the middle of one of its listings. With one node and two segments TLC finds why:
  the listing can pass the place of a segment before it is created, and come to
  the older one after a collection deleted it. It is then empty, and `load` returns
  `Ok` with a default state, although a checkpoint of the node was in the directory
  at every moment.
- The storage directory itself exists and its name is durable
  (`create_dir_all_synced`).

## Runs

| Run | Instance | What it shows |
|---|---|---|
| `power_loss` | 2 nodes, 2 segments of up to 2 records; power loss, lost index | `NeverRefused`, `SyncIsDurable`, `IndexPointsAtDurableRecord`, `ImplementsNodeStore` |
| `process_crash` | 2 nodes, 3 segments of 1 record, counters up to 2; process crashes, lost index; with `Metrics` | `NeverRefused`, `GaugesAreCurrent`, `CountersAddUp` |
| `all_faults` | 2 nodes, 2 segments of up to 2 records; all faults | `LoadCorrect`, `LoadAllCorrect`, `UnlinkedIsSuperseded`, `ReturnedCallsAreDurable`, `MemoryAgreesWithDisk`, `IdsStayReserved` |
| `garbage_collection` | 2 nodes, 3 segments of 1 record; power loss | `GcIsComplete`, `NoDurableRecordLost` |
| `sync_after_reopen` | 1 node, 1 segment, no fault | fails: finding 1 |
| `unsynced_segment_name` | 1 node, 2 segments; process crashes, power loss | fails: finding 2 |
| `concurrent_load` | 1 node, 3 segments of 1 record; process crashes; a reader | `ReadIsConsistent`, `ReadFailsOnlyIfDisturbed` |
| `node_state` | terms and indices 0 to 2, 2 payloads, appends of up to 2 entries, snapshots at every position | `LoadMatchesCaller`, `PayloadsMatchCommands` |
| `metadata_file` | three versions of 3, 1 and 2 blocks; crashes, power loss | `ImplementsAtomicFile`, `NoOldVersionReturns` |
| `segment_file` | 2 records out of 4 kinds, counts up to 2, bodies up to 24 units; checksums of every single bit of 16 bytes, with pieces of 0, 1, 15, 16 and 17 bytes behind | `ReadsWhatWasWritten`, `TornFrameIsNoCorruption`, `ChecksumIsReference` |
| `zero_tail` | the records of `segment_file`, with up to 2 zeros behind a torn frame | fails: finding 3 |
| `write_lock` | 3 engines, 3 frames; fair | `OneWriter`, `NoStaleLock`, `PartialFrameIsLast`, `RecoveryCutsDeadFrame`, `DirectoryReopens` |

`MaxSegmentId` and `MaxSegmentLen` bound the state space. The first is the
code's own limit (`u64::MAX`), reached early, so the overflow of segment IDs is
checked too. Two nodes suffice for one node to hold back the deletion of
another's segments and for an oldest and a newest index entry to differ; two
segments for a rotation and an active and an inactive file; three for a
collection of more than one file, interrupted in the middle. Two records in a
segment let a record precede a checkpoint in its segment. Whether a frame fits
into a segment that has room for some frame but not for any is a choice
(`should_rotate`), so every size of record is covered. The theorems hold without
these bounds.

The other bounds: a reader needs a segment before, at and behind the one it
reads, so three; with two nodes and three segments, or with three segments and
listings in pieces, it is out of TLC's reach, and what `load_all` computes from
entries of different age is `LoadAllCorrect`, of a directory at rest; the theorems
cover both. Counters up to 2 count both segments that can be collected, and reach
their limit. An append of two entries over a log of two overlaps,
truncates and refills it; two payloads tell an old entry's from a new one's. The versions of
`MetadataFile` are long, short and between, so that a stale temporary file may be
longer or shorter than the next text. The records of `SegmentFile` include ones
with exactly as many items and units as the limits allow, and with one more,
which the encoder rejects. Three engines let one hold the lock, one have the file
open and one come later; `MaxFiles` is 2 so that a second file called
`write.lock` could exist. The checksum is linear in the bits, so single bits, at
each place of a slice and before other pieces, reach every entry of the
tables that matters; the vectors of the unit test are an assumption that TLC
evaluates.

Deadlock is checked in every run: a closed engine can always be opened. A
refused opening is a dead end without faults, so `NeverRefused` is also what
keeps the runs with a single kind of fault from deadlocking.

The refinement holds with power losses. It holds with process crashes too, but
not with both kinds of fault: two process crashes, each within a rotation, leave
two segments with records whose names are not durable (finding 2, twice), and a
power loss can then keep the later and lose the earlier, where replay has no way
to notice the gap.

`ReadFailsOnlyIfDisturbed` says when a read-only call does fail. It reads
`checkpoints.json` and then opens the segments; a collection in between makes it
fail with `InvalidData` or `NotFound`, although nothing is wrong with the
directory, and it does not try again; recovery may cut off the partial frame that
it is reading; and a listing may mix two states of the directory.

`LoadMatchesCaller` says which accepted calls cannot be loaded: an append without
an anchor, and a snapshot at index 0 with a term other than 0, which
`SnapshotCheckpoint::validate` accepts and `into_state` rejects. A Raft node makes
neither.

Fairness: only `WriteLock` has a `FairSpec`. It assumes that an opening runs on
once it has begun (`TryLock`, `Recover`, `OpenWriter`, for each engine), because
`with_max_segment_len` has no wait in it; `try_lock` answers `WouldBlock` instead.
Nothing makes a caller open a directory, write, or drop an engine, and crashes may
come at any step, so both are premises of `DirectoryReopens`: callers open
`write.lock` again and again, and from some moment on no opening breaks off except
by `WouldBlock`. Then the directory has an open engine again and again; engines
that are open may crash for ever.

## Findings

1. `sync_after_reopen`. `SegmentWriter::sync` decides by
   `metrics.unsynced_records`, which is 0 in a new instance. Records that an
   earlier instance appended without synchronizing are recovered and loaded, but
   `sync()` of the new instance returns `Ok` without making them durable; only a
   new append, or a rotation, makes it synchronize. The trace: a node is created,
   one record appended, the engine dropped and opened again, and `sync()` returns.
2. `unsynced_segment_name`. `SegmentWriter::open` synchronizes the directory only
   if it created the file. If the process stops between `create_new` and
   `sync_parent_dir` of a rotation, the next instance uses a segment whose name
   is not durable until something else synchronizes the directory. `save_snapshot`
   then replaces `checkpoints.json` with a position in it, and a power loss
   before the `sync_dir` that follows can keep the index and lose the segment:
   the engine refuses to open. It takes both kinds of fault; with either alone
   `NeverRefused` holds (`power_loss`, `process_crash`), and with both the
   properties of `all_faults` do.
3. `zero_tail`. Eight zero bytes are a frame of length 0 whose checksum, that of
   nothing, is right. Zeros behind the last record, as some file systems leave
   them when a power loss comes after a file has grown and before its data is
   written, survive recovery; `load` of any node then fails on an empty body.

## Theorems

### The engine

For every set of nodes, every `MaxSegmentId`, every `MaxSegmentLen` and every set
of faults (the assumptions are `SegmentIdAssumption`, `SegmentLenAssumption`,
`FaultsAssumption` and `NoneAssumption`, which say that the constants have their
types and that `None` is neither a node nor a position):

| Theorem | States |
|---|---|
| `Invariance` | `Spec => []IInv` |
| `TypeCorrect` | `Spec => []TypeOK` |
| `GcSafety` | `Spec => []UnlinkedIsSuperseded` |
| `MemoryAgreement` | `Spec => []MemoryAgreesWithDisk` |
| `LoadIsCorrect` | `Spec => []LoadCorrect` |
| `LoadAllIsCorrect` | `Spec => []LoadAllCorrect` |
| `ReturnedIsDurable` | `Spec => []ReturnedCallsAreDurable` |
| `CollectionIsComplete` | `Spec => []GcIsComplete` |
| `IdsAreNeverReused` | `Spec => IdsStayReserved` |
| `DurableRecordsAreKept` | `Spec => NoDurableRecordLost` |
| `ActiveNodesAreRooted` | `Spec => []RootedInv` |

For all of these but not every set of faults:

| Theorem | Faults | States |
|---|---|---|
| `OpeningSucceeds` | not both process crashes and power losses | `Spec => []NeverRefused` |
| `IndexIsDurable` | no process crashes | `Spec => []IndexPointsAtDurableRecord` |
| `SkippedSyncIsDurable` | no process crashes | `Spec => []SyncIsDurable` |
| `EngineImplementsStore` | not both process crashes and power losses | `Spec => ImplementsNodeStore` |

The hypotheses are not there for the sake of the proof: without them the
statement is false, since finding 2 leaves a segment that is in use and whose name
is not durable.

None of these properties is inductive. `UnlinkedIsSuperseded` of the engine, for one, says
nothing about the segments a collection is about to delete, nor why the barrier
in memory can be trusted. `IInv` adds, part by part:

- `DirInv`, `LenInv`, `CompleteInv`: the active segment is the last one, its
  length is the writer's, inactive ones are complete;
- `OpInv`, `RecordInv`: which call is where; the checkpoint of `create_node` and
  `save_snapshot` is synchronized before it is indexed, and in a file with a
  durable name before `create_node` makes the node active;
- `AgreeInv`, `EntryInv`: memory equals disk up to the replacement in progress,
  and during a collection registry and index are durable;
- `IndexInv`: entries of active nodes are synchronized checkpoints; while no
  engine is open an entry may dangle, but if it names a record then a
  synchronized one;
- `GcInv`, `GoneInv`: what is gone or condemned is older than a durable segment
  that stays, and than a durable checkpoint, in a segment that stays, of every
  node that is or may be active.

Each part has a step lemma (`TypeStep`, `DirStep`, ..., `GoneStep`). The central
one is `GoneStep`: a node becomes active only in `RegistryReplace`, and its
checkpoint is then in the active segment, newer than anything gone; and when
`GcStart` condemns the segment that held a node's anchor, the index entry that
`allows_delete` compared with takes its place. `IInv`, and every invariant below,
was checked with TLC before it was proved.

Replay then needs the existence of newest and oldest positions (`LatestExists`,
`EarliestExists`, by the well-foundedness of `<` on the naturals), and
`LostIsSuperseded`: a record whose segment is gone comes before a checkpoint that
is left.

What a call has done when it returns is in none of these, so `CInv` follows it to
its end, whatever the faults: `CheckpointInv` the record that `create_node` or
`save_snapshot` wrote, from the write to the directory sync; `RegistryInv` the
status of the node, and that a durable registry is never ahead of the visible one;
`CollectInv` what is left to delete. `ReturnedCallsAreDurable`, `GcIsComplete` and
`IdsStayReserved` follow. `NoDurableRecordLost` is about steps; the one that could
violate it besides a power loss is an unlink, and there `GoneInv` names the
checkpoint that replaces the record.

`RootedInv` is what `GoneInv` does not say when nothing is gone: every node that is,
or after a power loss may be, active has a durable checkpoint in a segment that no
collection is about to delete. It has the same two interesting steps as `GoneStep`.
With it, `load` never returns a state without a checkpoint, which the counters of
replayed records need.

With one kind of fault there is more to say. Without power losses what is visible
is all there is, and `OpenableInv` says that it can be opened at every system
call: every segment but the last is complete, every index entry valid. Without
process crashes an engine inherits nothing but what a power loss left, which is on
stable storage, or what a closed engine left. `StableInv` says what may then be
pending: one directory entry at a time (`NamesStable`), the records of the last
segment (`SegmentsStable`), one version of a JSON file (`FilesStable`).
`PendingInv` says that an instance that has appended counts what it has not
synchronized, which is why it may skip `fdatasync`; finding 1 is about an instance
that has not appended.

`EngineImplementsStore` goes step by step. The log of `NodeStore` is the sequence
of all records in order of their positions, those of unlinked segments included;
its durable part are the positions a power loss cannot take. `WriteAppends`: a
write appends one record, since its position is after all others (`RoomInv`: it
fits into its segment) and its node is active or being created.
`RegistryReplaceCreatesOrRemoves`: a node appears with exactly its checkpoint, or
goes. `PowerLossLoses`: what a power loss takes is an end of the log, which is where
`StableInv` is needed: if a segment may be lost, or lose records, there is none
after it. Every other step only makes records durable (`OtherStepsHarden`). That the
state of a node is what the log says is `LoadIsCorrect`, carried over to an engine
at work and to a closed one (`LoadsIsState`).

### The read-only functions

For the constants of the engine and either value of `AtomicListing`:

| Theorem | Faults | States |
|---|---|---|
| `ReadsAreConsistent` | any | `ReaderSpec => []ReadIsConsistent` |
| `ReadsFailOnlyIfDisturbed` | not both process crashes and power losses | `ReaderSpec => []ReadFailsOnlyIfDisturbed` |

The second hypothesis is needed: after both kinds of fault a directory may be one
that no engine opens (finding 2), and a read of it fails though nothing disturbs
it; TLC finds that read.

`WriterIsSpec` (`ReaderSpec => Spec`) carries the theorems about the engine over. Of
its steps a reader needs only `Grows`: no segment loses a cell, only the last one of
the directory gains any, and the end of the directory never goes back.
`RecordsGrow` draws the consequence that whatever is written comes after all that is
there.

The first theorem rests on `ReaderInv`. `ListInv` says what is listed and still to
be read, and that the writer is not behind the last segment listed; `HintInv` that
hints and positions are checkpoints of their nodes. `ReplayInv` is the heart: for
each target that is still active there is a checkpoint from which on all its records,
up to the last segment listed, are either in segments still to be read (`Pending`) or
already in the state, which begins with that checkpoint (`Applied`). When the replay
lists the directory, the node's newest checkpoint is such a one, whatever the scan
found and whatever has been deleted since (`NewestIsKept`, from `RootedInv` and
`LostIsSuperseded`). `FoldStep` is that reading the next segment keeps this, possibly
with a later checkpoint; `OnCourseStays` that a step of the writer does. With nothing
left to read, `Applied` is `GapFree`.

The second rests on `UInv`: if nothing has disturbed the read, then `HintsValid` (the
index entries it uses, or is about to, are valid), `TargetsKept` (each target, even
one that has been removed meanwhile, has a checkpoint from which on everything is
there), `SegmentsThere` (so are the listed segments, and only the last one has
changed since its length was taken), `ScanFinds` and `ReplayFinds` (the scan finds
such a checkpoint, and the replay applies or will apply the node from there on, so no
append is rejected for lack of what comes before it: `NothingRejected`). Two more
invariants of the writer are used: `RetainInv`, the index in memory has no entries of
removed nodes, so that a new `checkpoints.json` brings a reader no invalid one; and
`Sound`, from `OpenableInv` or `StableInv`, only the last segment may be incomplete.

### The metadata files

For all versions and all lengths of their texts (`SizeAssumption`: a text is not
empty; `AbsentAssumption`, `TextAssumption`: the absence of a file is neither a
version nor a text):

| Theorem | States |
|---|---|
| `OldVersionsStayAway` | `Spec => []NoOldVersionReturns` |
| `SavesAreAtomic` | `Spec => ImplementsAtomicFile` |

`MInv` says how far the temporary file has come (`SaveInv`): it is the first
blocks of the text, although an interrupted save may have left a longer file of
that name, and is complete and synchronized when it is renamed; and that what has
the real name is always a whole, synchronized text (`FileInv`).

### The state of a node

For every bound on terms, indices and the length of an append, and all sets of
peers, configurations and payloads (`BoundsAssumption`: the bounds are naturals;
`FailedAssumption`: an error is neither a state nor a log):

| Theorem | States |
|---|---|
| `LoadedStateIsTyped` | `Spec => []TypeOK` |
| `LoadReturnsWhatWasStored` | `Spec => []LoadMatchesCaller` |
| `PayloadsStayMatched` | `Spec => []PayloadsMatchCommands` |

`LoadMatchesCaller` needs to know that the log begins where the snapshot ends and
has a payload for each of its commands (`WellFormed`), or an anchor could be one of
the log and not one the caller knows. The work is in lemmas about the operators:
`SuffixTerms` (replacing a suffix keeps the terms up to the anchor, and continues
from the term there), `SuffixCommands` and `SuffixPayloads` (it keeps the commands
up to the anchor, and their payloads), `SlotsAppend` (what the caller does to its map
is what that amounts to), `IntoState` (a checkpoint over a new `NodeState` gives
exactly what it holds, unless it is at index 0 with a term).

### The write lock

For every set of engines and every bound (`LockAssumption`: the bounds are
naturals, `None` is neither an engine nor a file):

| Theorem | States |
|---|---|
| `Inductive` | `Spec => []IInv` |
| `LockExcludes` | `Spec => []OneWriter` |
| `LockIsLive` | `Spec => []NoStaleLock` |
| `FramesAreWhole` | `Spec => []PartialFrameIsLast` |
| `RecoveryIsSafe` | `Spec => RecoveryCutsDeadFrame` |

`OneWriter` does not follow from itself: an engine that has
`write.lock` open may lock it later. `LockInv` says that every open handle is one
to the file that has the name now, because the name is never removed, so that
there is one lock to have; `SegmentInv` says where between recovery and drop every
frame is whole.

### The metrics

For the constants and faults of the engine, every largest value of a counter and
every set of operations (`CounterAssumption`: the largest value is a positive
natural; `NodesAssumption`: there are finitely many node IDs, which are `u64`, so
that gauges can count them):

| Theorem | States |
|---|---|
| `GaugesStayCurrent` | `MSpec => []GaugesAreCurrent` |
| `CountersStayConsistent` | `MSpec => []CountersAddUp` |

`EngineUnderneath` (`MSpec => Spec`) carries everything proved of the engine over.
Both properties speak of an engine between calls, and neither is inductive: in a
call counters are ahead of one another. `MetricsInv` says by how much, location by
location. `GaugeInv`: each gauge is the field it is set from, those of nodes and
index except in `remove_node` before it returns. `RecordCountInv`, `RunCountInv`:
one checkpoint record is written whose call is not counted (`PendingRecords`), one
collection is counted whose call is not (`PendingRuns`). `SegmentCountInv`: a
segment is created whose rotation is not counted, or some are deleted that the loop
has not reported (`PendingSegments`). `LoadCountInv`: as many checkpoints are
replayed as states are loaded, since a state holds exactly the newest checkpoint of
its node (`OneCheckpoint`, from `RootedInv` and `LoadIsCorrect`), and those of
different nodes are different records (`LoadAllEffect`). Each equation holds until
the counter it is about saturates, which is what `Exact` says; `ExactStep` is that
a sum whose total is exact has exact addends. What each method of
`StorageMetricsCounters` changes, and each step of the engine, is stated once
(`RecordWritten`, ..., `WriteMEffect`, ...).

### Only model-checked

- `DirectoryReopens`: liveness under fairness is out of the prover's reach.
- `ReadsWhatWasWritten`, `TornFrameIsNoCorruption` and `ChecksumIsReference`: what
  the recursive definitions of `Codec`, `SegmentFile` and `Crc32c` compute for every
  input needs induction over data, which is out of its reach too.

## Not modelled

- `Bytes`: an immutable shared buffer.
- The JSON syntax of `nodes.json` and `checkpoints.json` and the metadata value of
  a node, which no operation looks at. `MetadataFile` has which text is whole and
  which is not.
- The layout of the metrics as JSON, their byte counters (they grow with the
  record counters), and `checksum_failures`.
- Corrupted bytes other than torn and zero-filled tails.
- The widths of the integer fields of a record and the little-endian order.
- What a read returns for a node that is removed while it runs: it may be a part
  of the state, since the node's segments may go. `ReadIsConsistent` speaks of the
  nodes that are still active.
- `create_dir_all_synced` and the parents of the storage directory.
- The fuzz targets, tests and examples.

## Plan

Done: every module above, and a theorem for every safety property that the provers
can reach. What is left is what "Only model-checked" and "Not modelled" name.
