-------------------------------- MODULE Replay --------------------------------
(***************************************************************************)
(* Segment files and the replay of a storage directory (storage.rs,        *)
(* segment.rs).  A segment file is a sequence of cells: the magic header,  *)
(* then one cell per complete record frame.  The byte offset of a record   *)
(* is abstracted to the number of cells before it, so the first record of  *)
(* a segment has offset HeaderLen, exactly as its byte offset is           *)
(* SEGMENT_FILE_HEADER_LEN.  A record keeps what replay decides by: the    *)
(* node it belongs to and whether it is a snapshot checkpoint.             *)
(*                                                                         *)
(* Replay folds records over a NodeState in position order, starting at a  *)
(* checkpoint, so its result is determined by the SET of positions that it *)
(* applies.  The operators below compute that set.                         *)
(***************************************************************************)
EXTENDS Integers, Sequences, FiniteSets

CONSTANTS
  Nodes,         \* the node IDs callers use
  None,          \* Option::None, and the node of a header cell
  MaxSegmentId   \* the largest SegmentId (u64::MAX in the code)

ASSUME SegmentIdAssumption == MaxSegmentId \in Nat

SegIds == 0 .. MaxSegmentId

\* SEGMENT_FILE_HEADER_LEN, in cells.
HeaderLen == 1

Cell == [node : Nodes \cup {None}, checkpoint : BOOLEAN]

Header == [node |-> None, checkpoint |-> FALSE]

(***************************************************************************)
(* What follows the last complete cell of a file: nothing, the first bytes *)
(* of a frame ("torn"), or nothing since set_len cut them off while the    *)
(* stable image of the file may still have them ("cut").                   *)
(***************************************************************************)
FileTail == {"clean", "torn", "cut"}

\* RecordPosition, with its derived lexicographic order.
Position == [seg : SegIds, off : Nat]

ASSUME NoneAssumption == None \notin Nodes /\ None \notin Position

Before(p, q) == p.seg < q.seg \/ (p.seg = q.seg /\ p.off < q.off)

CellAt(cells, p) == cells[p.seg][p.off + 1]

\* A complete record starts at position p.
IsRecord(cells, p) ==
  p.off >= HeaderLen /\ p.off < Len(cells[p.seg])

RecordsIn(cells, segs) ==
  UNION { { [seg |-> s, off |-> o] : o \in HeaderLen .. Len(cells[s]) - 1 }
          : s \in segs }

RecordsOf(cells, segs, n) ==
  { p \in RecordsIn(cells, segs) : CellAt(cells, p).node = n }

CheckpointsOf(cells, segs, n) ==
  { p \in RecordsOf(cells, segs, n) : CellAt(cells, p).checkpoint }

\* The value a BTreeMap keeps when it is filled in position order.
Latest(S) ==
  IF S = {} THEN None ELSE CHOOSE p \in S : \A q \in S : ~Before(p, q)

Earliest(S) == CHOOSE p \in S : \A q \in S : ~Before(q, p)

\* A segment that read_segment_header and the record loop accept although it
\* is not the active one.
Complete(cells, tail, s) == cells[s] # <<>> /\ tail[s] # "torn"

-------------------------------------------------------------------------------
(***************************************************************************)
(* find_checkpoint_positions_from: for each node, the newest checkpoint    *)
(* among the records at or after `start` (every record if it is None).     *)
(***************************************************************************)
find_checkpoint_positions_from(cells, dir, start) ==
  [n \in Nodes |->
     Latest({ p \in CheckpointsOf(cells, dir, n) :
                start # None => ~Before(p, start) })]

\* replay_node_state: the positions that load(n) applies.
replay_node_state(cells, dir, n, hint) ==
  LET checkpoint == find_checkpoint_positions_from(cells, dir, hint)[n]
  IN  { p \in RecordsOf(cells, dir, n) :
          checkpoint # None => ~Before(p, checkpoint) }

\* Mutant: the scan for newer checkpoints is left out.
extended_hints_Stale(cells, dir, targets, hints) == [n \in targets |-> hints[n]]

\* checkpoint_positions_for_replay when every target has a hint: the hints,
\* overwritten by what a scan from the oldest hint discovers.
extended_hints(cells, dir, targets, hints) ==
  LET start      == Earliest({ hints[n] : n \in targets })
      discovered == find_checkpoint_positions_from(cells, dir, start)
  IN  [n \in targets |->
         IF discovered[n] # None THEN discovered[n] ELSE hints[n]]

\* replay_storage_dir: the positions that load_all applies, per target node.
replay_storage_dir(cells, dir, targets, hints) ==
  IF \E n \in targets : hints[n] = None
  THEN [n \in targets |-> replay_node_state(cells, dir, n, None)]
  ELSE LET start     == Earliest({ hints[n] : n \in targets })
           positions == extended_hints(cells, dir, targets, hints)
       IN  [n \in targets |->
              { p \in RecordsOf(cells, dir, n) :
                  p.seg >= start.seg /\ ~Before(p, positions[n]) }]

\* A scan from `start` fails: an inactive segment is incomplete, or the
\* offset to start at lies beyond the end of its segment.
scan_fails(cells, tail, dir, active_segment, start) ==
  \E s \in dir :
    /\ start # None => s >= start.seg
    /\ \/ s # active_segment /\ ~Complete(cells, tail, s)
       \/ start # None /\ s = start.seg /\ cells[s] # <<>> /\ Len(cells[s]) < start.off

(***************************************************************************)
(* validate_checkpoint_position: position p of checkpoints.json names a    *)
(* complete checkpoint record of node n in an existing segment.            *)
(***************************************************************************)
validate_checkpoint_position(cells, dir, n, p) ==
  /\ p.seg \in dir
  /\ IsRecord(cells, p)
  /\ CellAt(cells, p).node = n
  /\ CellAt(cells, p).checkpoint
===============================================================================
