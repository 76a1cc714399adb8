-------------------------------- MODULE Reader --------------------------------
(***************************************************************************)
(* The read-only functions load and load_all (storage.rs) beside a running *)
(* StorageEngine.  They take no lock: nodes.json, checkpoints.json, two    *)
(* listings of the directory and every segment file are read one after the *)
(* other while the writer appends, rotates, replaces the JSON files and    *)
(* deletes segments.                                                       *)
(*                                                                         *)
(* A reader keeps the open file of a segment that is deleted meanwhile.    *)
(* Segments only grow, so reading one to its end is a single step, at the  *)
(* moment the end is met.                                                  *)
(***************************************************************************)
EXTENDS StorageEngine

CONSTANT AtomicListing   \* whether read_dir sees one state of the directory

ASSUME ListingAssumption == AtomicListing \in BOOLEAN

VARIABLE reader

Listing == {"scan_list", "replay_list"}

ReaderPcs ==
  {"none", "index", "validate", "scan_list", "scan", "replay_list", "replay", "ok", "error"}

\* ReadOnlyStorage and the locals of replay_node_state, replay_storage_dir
\* and what they call.
NoReader ==
  [pc        |-> "none",
   all       |-> FALSE,    \* load_all, not load
   targets   |-> {},       \* the nodes to load
   indexed   |-> {},       \* active nodes; then those with an entry to validate
   hints     |-> NoIndex,  \* the checkpoint index
   unseen    |-> {},       \* names the listing has not come to
   todo      |-> {},       \* listed segments still to be read
   last      |-> 0,        \* replay_active_segment
   file_len  |-> None,     \* of the open segment, the first of todo
   positions |-> NoIndex,  \* checkpoint_positions
   state     |-> [n \in Nodes |-> {}],    \* the records that made up the NodeState
   floor     |-> [n \in Nodes |-> None],  \* history: the newest records when the read began
   seen      |-> {}]       \* history: what the writer did meanwhile

rvars == <<vars, reader>>

ReaderInit == Init /\ reader = NoReader

Fails == reader' = [reader EXCEPT !.pc = "error", !.file_len = None]

-------------------------------------------------------------------------------
(***************************************************************************)
(* ReadOnlyStorage::open: all of nodes(), the beginning of load and        *)
(* load_all.                                                               *)
(***************************************************************************)

\* NodeRegistry::load, in a call of load for an active node or of load_all.
ReadRegistry ==
  LET active == ActiveNodes(nodes_json) IN
  /\ reader.pc = "none"
  /\ \E targets \in { {n} : n \in active } \cup {active}, all \in BOOLEAN :
       /\ targets # {}
       /\ all => targets = active
       /\ ~all => \E n \in targets : targets = {n}
       /\ reader' = [NoReader EXCEPT !.pc = "index", !.all = all, !.targets = targets, !.indexed = active,
                                     !.floor = [n \in Nodes |-> Latest(RecordsOf(cells, SegIds, n))]]
  /\ UNCHANGED vars

\* The oldest of the targets' positions; None if one has none.
Oldest(r, positions) ==
  IF \E n \in r.targets : positions[n] = None THEN None
  ELSE Earliest({ positions[n] : n \in r.targets })

\* Where the scan starts: the hint of the node, or the oldest hint if every
\* node of load_all has one.
StartPosition(r) == Oldest(r, r.hints)

\* Once every index entry is validated, the scan begins; in load_all it
\* extends the hints.
Opened(r) ==
  IF r.indexed # {} THEN r
  ELSE [r EXCEPT !.pc = "scan_list", !.unseen = SegIds,
                 !.positions = IF r.all /\ StartPosition(r) # None THEN r.hints ELSE NoIndex]

\* CheckpointIndex::load reads the file and retains the active nodes.
ReadIndex ==
  LET hints == [n \in Nodes |-> IF n \in reader.indexed THEN checkpoints_json[n] ELSE None] IN
  /\ reader.pc = "index"
  /\ reader' = Opened([reader EXCEPT !.pc = "validate", !.hints = hints,
                                     !.indexed = { n \in Nodes : hints[n] # None }])
  /\ UNCHANGED vars

\* ... and validates one entry after the other.
Validate ==
  /\ reader.pc = "validate"
  /\ \E n \in reader.indexed :
       IF validate_checkpoint_position(cells, dir, n, reader.hints[n])
       THEN reader' = Opened([reader EXCEPT !.indexed = @ \ {n}])
       ELSE Fails
  /\ UNCHANGED vars

-------------------------------------------------------------------------------
(***************************************************************************)
(* find_checkpoint_positions_from, then the replay: each lists the         *)
(* directory for itself.                                                   *)
(***************************************************************************)

\* The end of either loop over the segments: the replay begins, or the call
\* returns Ok.
Advance(r) ==
  IF r.todo # {} THEN r
  ELSE IF r.pc = "scan" THEN [r EXCEPT !.pc = "replay_list", !.unseen = SegIds]
  ELSE [r EXCEPT !.pc = "ok"]

\* The first segment to read: in the scan that of the start position, in the
\* replay of load that of the checkpoint found.
FirstSegment ==
  LET position == IF reader.pc = "replay_list" /\ ~reader.all
                  THEN Oldest(reader, reader.positions)
                  ELSE StartPosition(reader)
  IN  IF position = None THEN 0 ELSE position.seg

\* Mutant: the segment selected at the start stays the active one.
replay_active_segment_Stale(listing) ==
  IF reader.pc = "replay_list" \/ listing = {} THEN reader.last
  ELSE CHOOSE s \in listing : \A t \in listing : t <= s

\* replay_active_segment without recovery: the last one listed.
replay_active_segment(listing) ==
  IF listing = {} THEN reader.last ELSE CHOOSE s \in listing : \A t \in listing : t <= s

\* discover_segment_paths: the names present, each looked at when the
\* listing comes to it; select_active_append_segment is no step of its own,
\* for replay_active_segment does not use its result.
List ==
  /\ reader.pc \in Listing
  /\ \E names \in IF AtomicListing THEN {reader.unseen} ELSE { {s} : s \in reader.unseen } :
       LET unseen  == reader.unseen \ names
           listing == reader.todo \cup (names \cap dir)
       IN  reader' = IF unseen # {}
                     THEN [reader EXCEPT !.unseen = unseen, !.todo = listing]
                     ELSE Advance([reader EXCEPT
                                    !.pc = IF @ = "scan_list" THEN "scan" ELSE "replay",
                                    !.unseen = {},
                                    !.last = replay_active_segment(listing),
                                    !.todo = { s \in listing : FirstSegment <= s }])
  /\ UNCHANGED vars

\* The segment to read next.
Current == CHOOSE s \in reader.todo : \A t \in reader.todo : s <= t

\* Mutant: a segment that is gone is skipped.
OpenSegment_SkipMissing ==
  /\ reader.pc \in {"scan", "replay"}
  /\ reader.todo # {}
  /\ reader.file_len = None
  /\ IF Current \notin dir \/ (cells[Current] = <<>> /\ Current = reader.last)
     THEN reader' = Advance([reader EXCEPT !.todo = @ \ {Current}])
     ELSE IF cells[Current] = <<>> THEN Fails
     ELSE reader' = [reader EXCEPT !.file_len = Len(cells[Current]) + (IF tail[Current] = "torn" THEN 1 ELSE 0)]
  /\ UNCHANGED vars

\* Open the file, read_segment_header, take the length.  A partial header is
\* accepted, and the segment skipped, only in the last segment.
OpenSegment ==
  /\ reader.pc \in {"scan", "replay"}
  /\ reader.todo # {}
  /\ reader.file_len = None
  /\ IF Current \notin dir THEN Fails
     ELSE IF cells[Current] = <<>>
     THEN IF Current = reader.last THEN reader' = Advance([reader EXCEPT !.todo = @ \ {Current}]) ELSE Fails
     ELSE reader' = [reader EXCEPT !.file_len = Len(cells[Current]) + (IF tail[Current] = "torn" THEN 1 ELSE 0)]
  /\ UNCHANGED vars

(***************************************************************************)
(* How the loop over the records of the open segment can end.  Where the   *)
(* last complete record ends differs from file_len if there is a partial   *)
(* one or the writer has appended since; only the last segment may.  A     *)
(* reader within a partial frame that recovery cuts off and an append      *)
(* overwrites finds a wrong checksum.                                      *)
(***************************************************************************)
LoopEnds ==
  LET whole == Len(cells[Current]) = reader.file_len \/ Current = reader.last
  IN  (IF whole THEN {"end"} ELSE {"error"})
        \cup (IF "cut" \in reader.seen /\ Current = reader.last THEN {"error"} ELSE {})

\* scan_checkpoint_positions
ScanSegment ==
  LET start == StartPosition(reader)
      found == [n \in Nodes |-> { p \in CheckpointsOf(cells, {Current}, n) :
                                    n \in reader.targets /\ (start # None => ~Before(p, start)) }]
  IN  /\ reader.pc = "scan"
      /\ reader.file_len # None
      /\ \E end \in LoopEnds :
           IF end = "error" \/ (start # None /\ start.seg = Current /\ reader.file_len < start.off) THEN Fails
           ELSE reader' = Advance([reader EXCEPT
                  !.todo = @ \ {Current}, !.file_len = None,
                  !.positions = [n \in Nodes |-> IF found[n] = {} THEN @[n] ELSE Latest(found[n])]])
      /\ UNCHANGED vars

\* The records of n in the open segment that are not skipped.
Replayed(n) ==
  { p \in RecordsOf(cells, {Current}, n) :
      n \in reader.targets /\ (reader.positions[n] # None => ~Before(p, reader.positions[n])) }

\* The NodeState after more records: a checkpoint replaces what was before.
Fold(state, more) ==
  LET checkpoints == { p \in more : CellAt(cells, p).checkpoint }
  IN  IF checkpoints = {} THEN state \cup more
      ELSE { p \in more : ~Before(p, Latest(checkpoints)) }

\* apply_record_to_state may reject an append when a record before it is
\* missing from the state.
MayReject(n) ==
  LET more == Replayed(n) IN
  /\ more # {}
  /\ ~CellAt(cells, Earliest(more)).checkpoint
  /\ \/ reader.state[n] = {}
     \/ \E p \in RecordsOf(cells, SegIds, n) :
          Before(Latest(reader.state[n]), p) /\ Before(p, Earliest(more))

\* replay_node_segment and replay_segment
ReplaySegment ==
  /\ reader.pc = "replay"
  /\ reader.file_len # None
  /\ \E end \in LoopEnds \cup (IF \E n \in Nodes : MayReject(n) THEN {"error"} ELSE {}) :
       IF end = "error" THEN Fails
       ELSE reader' = Advance([reader EXCEPT
              !.todo = @ \ {Current}, !.file_len = None,
              !.state = [n \in Nodes |-> Fold(@[n], Replayed(n))]])
  /\ UNCHANGED vars

\* The call has returned.
Drop ==
  /\ reader.pc \in {"ok", "error"}
  /\ reader' = NoReader
  /\ UNCHANGED vars

Read ==
  \/ ReadRegistry \/ ReadIndex \/ Validate
  \/ List \/ OpenSegment \/ ScanSegment \/ ReplaySegment
  \/ Drop

-------------------------------------------------------------------------------
\* A step of the writer, as the read in progress will remember it; a power
\* loss ends the read.  "mixed": a listing has seen two states of the directory.
Meanwhile ==
  { what \in {"collected", "cut", "mixed"} :
      \/ what = "collected" /\ dir \ dir' # {}
      \/ what = "mixed" /\ dir' # dir /\ reader.pc \in Listing /\ reader.unseen # SegIds
      \/ what = "cut" /\ \E s \in SegIds : tail[s] = "torn" /\ tail'[s] = "cut" }

WriterStep ==
  /\ Next
  /\ reader' = IF PowerLoss \/ reader.pc = "none" THEN NoReader
               ELSE [reader EXCEPT !.seen = @ \cup Meanwhile]

ReaderNext == WriterStep \/ Read

ReaderSpec == ReaderInit /\ [][ReaderNext]_rvars

-------------------------------------------------------------------------------
(***************************************************************************)
(* Properties.                                                             *)
(***************************************************************************)

\* The records of n that the read applied are a run without gaps that starts
\* at a checkpoint and reaches at least to where n was when the read began.
GapFree(n) ==
  LET records == reader.state[n] IN
  /\ records # {}
  /\ LET first == Earliest(records)
         last  == Latest(records)
     IN  /\ CellAt(cells, first).checkpoint
         /\ ~Before(last, reader.floor[n])
         /\ records = { p \in RecordsOf(cells, SegIds, n) : ~Before(p, first) /\ ~Before(last, p) }

\* "A concurrent read observes complete records available while it runs": a
\* read that returns Ok gives each node that is still active a state the
\* node had during the read, however the read interleaves with appends,
\* rotations and collections (replay_node_state, replay_storage_dir), unless
\* the directory changed in the middle of a listing.
ReadIsConsistent ==
  reader.pc = "ok" /\ "mixed" \notin reader.seen =>
    \A n \in reader.targets \cap ActiveNodes(nodes_json) : GapFree(n)

\* Appends, rotations and index updates do not make a read fail: if it fails,
\* a collection has deleted a segment since it began, recovery has cut a
\* partial frame that it may have been reading, or the directory has changed
\* in the middle of a listing.
ReadFailsOnlyIfDisturbed ==
  reader.pc = "error" => reader.seen # {}
===============================================================================
