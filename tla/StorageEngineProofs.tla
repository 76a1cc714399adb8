-------------------------- MODULE StorageEngineProofs --------------------------
(***************************************************************************)
(* Safety theorems of StorageEngine, for every set of nodes, every segment *)
(* length, every largest segment ID and every combination of faults.       *)
(***************************************************************************)
EXTENDS StorageInvariant, WellFoundedInduction, TLAPS

USE DEF HeaderLen

-------------------------------------------------------------------------------
(***************************************************************************)
(* Extrema.  The least-number principle comes from the well-foundedness of *)
(* < on Nat, a form of induction without an operator parameter.            *)
(***************************************************************************)

\* A non-empty set of natural numbers has a least element.
LEMMA MinExists ==
  ASSUME NEW T \in SUBSET Nat, T # {}
  PROVE  \E m \in T : \A x \in T : m <= x
<1> DEFINE R == {ss \in Nat \X Nat : ss[1] < ss[2]}
<1>1. IsWellFoundedOn(R, Nat)
  BY NatLessThanWellFounded DEF OpToRel
<1>2. \A x, y \in Nat : <<y, x>> \in R <=> y < x
  OBVIOUS
<1> HIDE DEF R
<1>3. PICK x \in T : \A y \in T : <<y, x>> \notin R
  BY <1>1, WFMin
<1>4. \A y \in T : ~(y < x)
  BY <1>2, <1>3
<1>5. \A y \in T : x <= y
  BY <1>4
<1> QED BY <1>5

\* A non-empty bounded set of natural numbers has a greatest element.
LEMMA MaxExists ==
  ASSUME NEW b \in Nat, NEW S \in SUBSET Nat, S # {}, \A x \in S : x <= b
  PROVE  \E m \in S : \A x \in S : x <= m
<1> DEFINE T == { y \in Nat : y <= b /\ b - y \in S }
<1>1. \A x \in S : b - x \in T
  OBVIOUS
<1>2. T \in SUBSET Nat /\ T # {}
  BY <1>1
<1>3. \A t \in T : t \in Nat /\ b - t \in S
  OBVIOUS
<1> HIDE DEF T
<1>4. PICK t \in T : \A u \in T : t <= u
  BY <1>2, MinExists
<1>5. \A x \in S : t <= b - x
  BY <1>1, <1>4
<1> QED BY <1>3, <1>5

\* select_active_append_segment returns the greatest segment in the
\* directory, and the first ID if there is none.
LEMMA SelectActive ==
  ASSUME dir \in SUBSET SegIds
  PROVE  /\ select_active_append_segment \in SegIds
         /\ dir # {} => select_active_append_segment \in dir
         /\ \A s \in dir : s <= select_active_append_segment
<1>1. dir \in SUBSET Nat /\ \A s \in dir : s <= MaxSegmentId
  BY SegmentIdAssumption DEF SegIds
<1>2. CASE dir = {}
  BY <1>2, SegmentIdAssumption DEF select_active_append_segment, SegIds
<1>3. CASE dir # {}
  <2>1. \E m \in dir : \A s \in dir : s <= m
    BY <1>1, <1>3, MaxExists, SegmentIdAssumption
  <2> DEFINE m == CHOOSE s \in dir : \A t \in dir : t <= s
  <2>2. m \in dir /\ \A t \in dir : t <= m
    BY <2>1
  <2>3. select_active_append_segment = m
    BY <1>3 DEF select_active_append_segment
  <2> QED BY <2>2, <2>3
<1> QED BY <1>2, <1>3

-------------------------------------------------------------------------------
(***************************************************************************)
(* Types.                                                                  *)
(***************************************************************************)

LEMMA HeaderType == Header \in Cell
  BY DEF Header, Cell

LEMMA WriteAllType ==
  ASSUME TypeOK, NEW s, NEW c \in Cell, write_all(s, c)
  PROVE  /\ cells' \in [SegIds -> Seq(Cell)]
         /\ synced' \in [SegIds -> Nat]
         /\ tail' \in [SegIds -> FileTail]
<1>1. cells \in [SegIds -> Seq(Cell)]
  BY DEF TypeOK
<1>2. cells' = [cells EXCEPT ![s] = Append(cells[s], c)]
  BY DEF write_all
<1>3. \A t \in SegIds : Append(cells[t], c) \in Seq(Cell)
  BY <1>1
<1>4. cells' \in [SegIds -> Seq(Cell)]
  BY <1>1, <1>2, <1>3
<1> QED BY <1>4 DEF TypeOK, write_all

LEMMA SyncDataType ==
  ASSUME TypeOK, NEW s, sync_data(s)
  PROVE  /\ cells' \in [SegIds -> Seq(Cell)]
         /\ synced' \in [SegIds -> Nat]
         /\ tail' \in [SegIds -> FileTail]
<1>1. \A t \in SegIds : Len(cells[t]) \in Nat
  BY DEF TypeOK
<1>2. synced' \in [SegIds -> Nat]
  BY <1>1 DEF TypeOK, sync_data
<1>3. tail' \in [SegIds -> FileTail]
  BY DEF TypeOK, sync_data, FileTail
<1> QED BY <1>2, <1>3 DEF TypeOK, sync_data

LEMMA NoEngineType ==
  ASSUME NoEngine
  PROVE  /\ registry' \in Registry
         /\ checkpoint_index' \in CheckpointIndex
         /\ active_segment' \in SegIds
         /\ segment_len' \in Nat
         /\ unsynced_records' \in Nat
         /\ appended' \in BOOLEAN
         /\ op' \in [kind : OpKinds, node : Nodes \cup {None}]
         /\ record_position' \in Position \cup {None}
         /\ gc_segments' \in SUBSET SegIds
         /\ pc' \in Locations
<1>1. registry' \in Registry
  BY DEF NoEngine, NoRegistry, Registry, Status
<1>2. checkpoint_index' \in CheckpointIndex
  BY DEF NoEngine, NoIndex, CheckpointIndex
<1>3. active_segment' \in SegIds
  BY SegmentIdAssumption DEF NoEngine, SegIds
<1>4. op' \in [kind : OpKinds, node : Nodes \cup {None}]
  BY DEF NoEngine, NoOp, OpKinds
<1>5. pc' \in Locations
  BY DEF NoEngine, Locations
<1> QED BY <1>1, <1>2, <1>3, <1>4, <1>5 DEF NoEngine

LEMMA NewTypes ==
  ASSUME TypeOK
  PROVE  NewIndex \in CheckpointIndex /\ NewRegistry \in Registry
  BY DEF TypeOK, NewIndex, NewRegistry, CheckpointIndex, Registry, Status

\* A prefix of a sequence of cells.
LEMMA PrefixOfSeq ==
  ASSUME NEW f \in Seq(Cell), NEW k \in Nat, k <= Len(f)
  PROVE  /\ SubSeq(f, 1, k) \in Seq(Cell)
         /\ Len(SubSeq(f, 1, k)) = k
         /\ \A i \in 1 .. k : SubSeq(f, 1, k)[i] = f[i]
  OBVIOUS

\* Power loss leaves a prefix of each file, and at least its synchronized
\* part if the file keeps its name.
LEMMA KeptLengthsBounds ==
  ASSUME TypeOK, NEW survivors, NEW kept \in KeptLengths(survivors)
  PROVE  /\ kept \in [SegIds -> Nat]
         /\ \A s \in SegIds :
              /\ kept[s] <= Len(cells[s])
              /\ s \notin dir \ survivors /\ synced[s] <= Len(cells[s]) => synced[s] <= kept[s]
              /\ s \in dir \ survivors => kept[s] = 0
<1> DEFINE loose == { s \in SegIds : synced[s] < Len(cells[s]) }
<1>1. PICK k \in [loose -> 0 .. MaxSegmentLen] :
        /\ \A s \in loose : synced[s] <= k[s] /\ k[s] <= Len(cells[s])
        /\ kept = [s \in SegIds |-> IF s \in dir \ survivors THEN 0
                                   ELSE IF s \in loose THEN k[s] ELSE Len(cells[s])]
  BY DEF KeptLengths
<1>2. \A s \in SegIds : Len(cells[s]) \in Nat /\ synced[s] \in Nat
  BY DEF TypeOK
<1>3. \A s \in loose : k[s] \in Nat
  BY <1>1, SegmentLenAssumption
<1> QED BY <1>1, <1>2, <1>3

\* Every step keeps the types.  RotateDir needs the part of DirInv that says
\* that the segment it switches to exists, and so that its ID is in range.
LEMMA TypeStep ==
  ASSUME TypeOK, DirInv, [Next]_vars
  PROVE  TypeOK'
<1> USE SegmentIdAssumption DEF TypeOK, Locations, SegIds, content, segments, metadata, memory, writer, call
<1>1. CASE OpenRecover
  <2>1. active_segment' \in SegIds
    BY <1>1, SelectActive DEF OpenRecover
  <2>2. tail' \in [SegIds -> FileTail]
    BY <1>1 DEF OpenRecover, FileTail
  <2> QED BY <1>1, <2>1, <2>2 DEF OpenRecover
<1>2. CASE OpenLoad
  BY <1>2 DEF OpenLoad, CheckpointIndex, Registry
<1>3. CASE OpenExisting
  <2>1. /\ cells' \in [SegIds -> Seq(Cell)]
        /\ synced' \in [SegIds -> Nat]
        /\ tail' \in [SegIds -> FileTail]
    BY <1>3, HeaderType, WriteAllType DEF OpenExisting
  <2>2. segment_len' \in Nat
    BY <1>3, <2>1 DEF OpenExisting
  <2> QED BY <1>3, <2>1, <2>2 DEF OpenExisting
<1>4. CASE OpenCreate
  BY <1>4 DEF OpenCreate
<1>5. CASE OpenMagic
  BY <1>5, HeaderType, WriteAllType DEF OpenMagic
<1>6. CASE OpenDir
  BY <1>6 DEF OpenDir, sync_dir
<1>7. ASSUME NEW n \in Nodes, CreateNode(n) \/ SaveRecord(n) \/ SaveSnapshot(n) \/ RemoveNode(n)
      PROVE  TypeOK'
  <2>1. op' \in [kind : OpKinds, node : Nodes \cup {None}]
    BY <1>7 DEF CreateNode, SaveRecord, SaveSnapshot, RemoveNode, BeginAppend, OpKinds
  <2>2. pc' \in Locations
    BY <1>7 DEF CreateNode, SaveRecord, SaveSnapshot, RemoveNode, BeginAppend
  <2>3. UNCHANGED <<segments, metadata, memory, writer, record_position, gc_segments>>
    BY <1>7 DEF CreateNode, SaveRecord, SaveSnapshot, RemoveNode
  <2> QED BY <2>1, <2>2, <2>3
<1>8. CASE Sync
  BY <1>8 DEF Sync, OpKinds
<1>9. CASE RotateSync
  BY <1>9, SyncDataType DEF RotateSync
<1>10. CASE RotateFails
  BY <1>10 DEF RotateFails, NoOp, OpKinds
<1>11. CASE RotateCreate
  <2>1. active_segment + 1 \in SegIds
    BY <1>11 DEF RotateCreate
  <2> QED BY <1>11, <2>1 DEF RotateCreate
<1>12. CASE RotateMagic
  BY <1>12, HeaderType, WriteAllType DEF RotateMagic
<1>13. CASE RotateDir
  BY <1>13 DEF RotateDir, sync_dir, DirInv, Rotating
<1>14. CASE Write
  <2>1. [node |-> op.node, checkpoint |-> op.kind # "save_record"] \in Cell
    BY DEF Cell
  <2>2. /\ cells' \in [SegIds -> Seq(Cell)]
        /\ synced' \in [SegIds -> Nat]
        /\ tail' \in [SegIds -> FileTail]
    BY <1>14, <2>1, WriteAllType DEF Write
  <2>3. record_position' \in Position
    BY <1>14 DEF Write, Position
  <2>4. pc' \in Locations /\ segment_len' \in Nat /\ unsynced_records' \in Nat /\ appended' \in BOOLEAN
    BY <1>14 DEF Write
  <2>5. UNCHANGED <<dir, dir_durable, metadata, memory, active_segment, op, gc_segments>>
    BY <1>14 DEF Write
  <2> QED BY <2>2, <2>3, <2>4, <2>5
<1>15. CASE AppendSync
  <2>1. /\ cells' \in [SegIds -> Seq(Cell)]
        /\ synced' \in [SegIds -> Nat]
        /\ tail' \in [SegIds -> FileTail]
    BY <1>15, SyncDataType DEF AppendSync, WriterSync
  <2> QED BY <1>15, <2>1 DEF AppendSync, WriterSync
<1>16. CASE SyncCall
  <2>1. /\ cells' \in [SegIds -> Seq(Cell)]
        /\ synced' \in [SegIds -> Nat]
        /\ tail' \in [SegIds -> FileTail]
    BY <1>16, SyncDataType DEF SyncCall, WriterSync
  <2> QED BY <1>16, <2>1 DEF SyncCall, WriterSync
<1>17. CASE IndexReplace
  BY <1>17, NewTypes DEF IndexReplace
<1>18. CASE IndexDir
  BY <1>18, NewTypes DEF IndexDir, sync_dir
<1>19. CASE RegistryReplace
  BY <1>19, NewTypes DEF RegistryReplace
<1>20. CASE RegistryDir
  BY <1>20, NewTypes DEF RegistryDir, sync_dir
<1>21. CASE GcStart
  BY <1>21 DEF GcStart
<1>22. CASE GcDelete
  BY <1>22 DEF GcDelete
<1>23. CASE GcDir
  BY <1>23 DEF GcDir, sync_dir
<1>24. CASE Return
  BY <1>24 DEF Return, NoOp, OpKinds
<1>25. CASE Close
  BY <1>25, NoEngineType DEF Close
<1>26. CASE ProcessCrash
  <2>1. tail' \in [SegIds -> FileTail]
    BY <1>26 DEF ProcessCrash, FileTail
  <2> QED BY <1>26, <2>1, NoEngineType DEF ProcessCrash
<1>27. CASE PowerLoss
  <2>1. PICK survivors \in SUBSET (dir \cup dir_durable) : synced' \in KeptLengths(survivors)
    BY <1>27 DEF PowerLoss
  <2>2. synced' \in [SegIds -> Nat] /\ \A s \in SegIds : synced'[s] <= Len(cells[s])
    BY <2>1, KeptLengthsBounds
  <2>3. cells' \in [SegIds -> Seq(Cell)]
    <3>1. \A s \in SegIds : SubSeq(cells[s], 1, synced'[s]) \in Seq(Cell)
      BY <2>2, PrefixOfSeq
    <3> QED BY <1>27, <3>1 DEF PowerLoss
  <2>4. tail' \in [SegIds -> FileTail]
    BY <1>27 DEF PowerLoss, FileTail
  <2>5. dir' \in SUBSET SegIds /\ dir_durable' \in SUBSET SegIds
    BY <1>27 DEF PowerLoss
  <2>6. /\ nodes_json' \in Registry /\ nodes_json_durable' \in Registry
        /\ checkpoints_json' \in CheckpointIndex /\ checkpoints_json_durable' \in CheckpointIndex
    BY <1>27 DEF PowerLoss
  <2> QED BY <1>27, <2>2, <2>3, <2>4, <2>5, <2>6, NoEngineType DEF PowerLoss
<1>28. CASE LoseIndex
  BY <1>28 DEF LoseIndex, NoIndex, CheckpointIndex
<1>29. CASE UNCHANGED vars
  BY <1>29 DEF vars
<1> QED
  BY <1>1, <1>2, <1>3, <1>4, <1>5, <1>6, <1>7, <1>8, <1>9, <1>10, <1>11, <1>12, <1>13, <1>14,
     <1>15, <1>16, <1>17, <1>18, <1>19, <1>20, <1>21, <1>22, <1>23, <1>24, <1>25, <1>26, <1>27,
     <1>28, <1>29
  DEF Next, Open, Begin, Proceed, AppendSteps, Fault

\* DirInv is inductive.  GcDelete never removes the active segment.
LEMMA DirStep ==
  ASSUME TypeOK, TypeOK', DirInv, GcInv, [Next]_vars
  PROVE  DirInv'
<1> USE SegmentIdAssumption DEF TypeOK, DirInv, LastSegment, Recovered, Loaded, Ready, Rotating, Locations, SegIds, content, segments, metadata, memory, writer, call
<1>1. CASE OpenRecover
  BY <1>1, SelectActive DEF OpenRecover
<1>2. CASE OpenLoad
  BY <1>2 DEF OpenLoad
<1>3. CASE OpenExisting
  BY <1>3 DEF OpenExisting, write_all
<1>4. CASE OpenCreate
  BY <1>4 DEF OpenCreate
<1>5. CASE OpenMagic
  BY <1>5 DEF OpenMagic, write_all
<1>6. CASE OpenDir
  BY <1>6 DEF OpenDir, sync_dir
<1>7. ASSUME NEW n \in Nodes, CreateNode(n) \/ SaveRecord(n) \/ SaveSnapshot(n) \/ RemoveNode(n)
      PROVE  DirInv'
  BY <1>7 DEF CreateNode, SaveRecord, SaveSnapshot, RemoveNode, BeginAppend
<1>8. CASE Sync
  BY <1>8 DEF Sync
<1>9. CASE RotateSync
  BY <1>9 DEF RotateSync, sync_data
<1>10. CASE RotateFails
  BY <1>10 DEF RotateFails
<1>11. CASE RotateCreate
  BY <1>11 DEF RotateCreate
<1>12. CASE RotateMagic
  BY <1>12 DEF RotateMagic, write_all
<1>13. CASE RotateDir
  BY <1>13 DEF RotateDir, sync_dir
<1>14. CASE Write
  BY <1>14 DEF Write, write_all
<1>15. CASE AppendSync
  BY <1>15 DEF AppendSync, WriterSync, sync_data
<1>16. CASE SyncCall
  BY <1>16 DEF SyncCall, WriterSync, sync_data
<1>17. CASE IndexReplace
  BY <1>17 DEF IndexReplace
<1>18. CASE IndexDir
  BY <1>18 DEF IndexDir, sync_dir
<1>19. CASE RegistryReplace
  BY <1>19 DEF RegistryReplace
<1>20. CASE RegistryDir
  BY <1>20 DEF RegistryDir, sync_dir
<1>21. CASE GcStart
  BY <1>21 DEF GcStart
<1>22. CASE GcDelete
  BY <1>22 DEF GcDelete, GcInv
<1>23. CASE GcDir
  BY <1>23 DEF GcDir, sync_dir
<1>24. CASE Return
  BY <1>24 DEF Return
<1>25. CASE Close
  BY <1>25 DEF Close, NoEngine
<1>26. CASE ProcessCrash
  BY <1>26 DEF ProcessCrash, NoEngine
<1>27. CASE PowerLoss
  BY <1>27 DEF PowerLoss, NoEngine
<1>28. CASE LoseIndex
  BY <1>28 DEF LoseIndex
<1>29. CASE UNCHANGED vars
  BY <1>29 DEF vars
<1> QED
  BY <1>1, <1>2, <1>3, <1>4, <1>5, <1>6, <1>7, <1>8, <1>9, <1>10, <1>11, <1>12, <1>13, <1>14,
     <1>15, <1>16, <1>17, <1>18, <1>19, <1>20, <1>21, <1>22, <1>23, <1>24, <1>25, <1>26, <1>27,
     <1>28, <1>29
  DEF Next, Open, Begin, Proceed, AppendSteps, Fault

\* OpInv is inductive.
LEMMA OpStep ==
  ASSUME TypeOK, OpInv, [Next]_vars
  PROVE  OpInv'
<1> USE DEF OpInv, content, segments, metadata, memory, writer, call
<1>1. CASE OpenRecover
  BY <1>1 DEF OpenRecover
<1>2. CASE OpenLoad
  BY <1>2 DEF OpenLoad
<1>3. CASE OpenExisting
  BY <1>3 DEF OpenExisting, write_all
<1>4. CASE OpenCreate
  BY <1>4 DEF OpenCreate
<1>5. CASE OpenMagic
  BY <1>5 DEF OpenMagic, write_all
<1>6. CASE OpenDir
  BY <1>6 DEF OpenDir, sync_dir
<1>7. ASSUME NEW n \in Nodes, CreateNode(n) \/ SaveRecord(n) \/ SaveSnapshot(n) \/ RemoveNode(n)
      PROVE  OpInv'
  BY <1>7 DEF CreateNode, SaveRecord, SaveSnapshot, RemoveNode, BeginAppend
<1>8. CASE Sync
  BY <1>8 DEF Sync
<1>9. CASE RotateSync
  BY <1>9 DEF RotateSync, sync_data
<1>10. CASE RotateFails
  BY <1>10 DEF RotateFails
<1>11. CASE RotateCreate
  BY <1>11 DEF RotateCreate
<1>12. CASE RotateMagic
  BY <1>12 DEF RotateMagic, write_all
<1>13. CASE RotateDir
  BY <1>13 DEF RotateDir, sync_dir
<1>14. CASE Write
  BY <1>14 DEF Write, write_all
<1>15. CASE AppendSync
  BY <1>15 DEF AppendSync, WriterSync, sync_data
<1>16. CASE SyncCall
  BY <1>16 DEF SyncCall, WriterSync, sync_data
<1>17. CASE IndexReplace
  BY <1>17 DEF IndexReplace
<1>18. CASE IndexDir
  BY <1>18 DEF IndexDir, sync_dir
<1>19. CASE RegistryReplace
  BY <1>19 DEF RegistryReplace
<1>20. CASE RegistryDir
  BY <1>20 DEF RegistryDir, sync_dir
<1>21. CASE GcStart
  BY <1>21 DEF GcStart
<1>22. CASE GcDelete
  BY <1>22 DEF GcDelete
<1>23. CASE GcDir
  BY <1>23 DEF GcDir, sync_dir
<1>24. CASE Return
  BY <1>24 DEF Return
<1>25. CASE Close
  BY <1>25 DEF Close, NoEngine
<1>26. CASE ProcessCrash
  BY <1>26 DEF ProcessCrash, NoEngine
<1>27. CASE PowerLoss
  BY <1>27 DEF PowerLoss, NoEngine
<1>28. CASE LoseIndex
  BY <1>28 DEF LoseIndex
<1>29. CASE UNCHANGED vars
  BY <1>29 DEF vars
<1> QED
  BY <1>1, <1>2, <1>3, <1>4, <1>5, <1>6, <1>7, <1>8, <1>9, <1>10, <1>11, <1>12, <1>13, <1>14,
     <1>15, <1>16, <1>17, <1>18, <1>19, <1>20, <1>21, <1>22, <1>23, <1>24, <1>25, <1>26, <1>27,
     <1>28, <1>29
  DEF Next, Open, Begin, Proceed, AppendSteps, Fault

\* AgreeInv is inductive.
LEMMA AgreeStep ==
  ASSUME TypeOK, OpInv, AgreeInv, [Next]_vars
  PROVE  AgreeInv'
<1> USE DEF TypeOK, AgreeInv, Loaded, Recovered, Locations, Collecting, NewIndex, NewRegistry, content, segments, metadata, memory, writer, call
<1>1. CASE OpenRecover
  BY <1>1 DEF OpenRecover
<1>2. CASE OpenLoad
  BY <1>2 DEF OpenLoad
<1>3. CASE OpenExisting
  BY <1>3 DEF OpenExisting, write_all
<1>4. CASE OpenCreate
  BY <1>4 DEF OpenCreate
<1>5. CASE OpenMagic
  BY <1>5 DEF OpenMagic, write_all
<1>6. CASE OpenDir
  BY <1>6 DEF OpenDir, sync_dir
<1>7. ASSUME NEW n \in Nodes, CreateNode(n) \/ SaveRecord(n) \/ SaveSnapshot(n) \/ RemoveNode(n)
      PROVE  AgreeInv'
  BY <1>7 DEF CreateNode, SaveRecord, SaveSnapshot, RemoveNode, BeginAppend
<1>8. CASE Sync
  BY <1>8 DEF Sync
<1>9. CASE RotateSync
  BY <1>9 DEF RotateSync, sync_data
<1>10. CASE RotateFails
  BY <1>10 DEF RotateFails
<1>11. CASE RotateCreate
  BY <1>11 DEF RotateCreate
<1>12. CASE RotateMagic
  BY <1>12 DEF RotateMagic, write_all
<1>13. CASE RotateDir
  BY <1>13 DEF RotateDir, sync_dir
<1>14. CASE Write
  BY <1>14 DEF Write, write_all
<1>15. CASE AppendSync
  BY <1>15 DEF AppendSync, WriterSync, sync_data
<1>16. CASE SyncCall
  BY <1>16 DEF SyncCall, WriterSync, sync_data
<1>17. CASE IndexReplace
  BY <1>17 DEF IndexReplace
<1>18. CASE IndexDir
  BY <1>18 DEF IndexDir, sync_dir
<1>19. CASE RegistryReplace
  BY <1>19 DEF RegistryReplace
<1>20. CASE RegistryDir
  BY <1>20 DEF RegistryDir, sync_dir
<1>21. CASE GcStart
  BY <1>21 DEF GcStart
<1>22. CASE GcDelete
  BY <1>22 DEF GcDelete
<1>23. CASE GcDir
  BY <1>23 DEF GcDir, sync_dir
<1>24. CASE Return
  BY <1>24 DEF Return
<1>25. CASE Close
  BY <1>25 DEF Close, NoEngine
<1>26. CASE ProcessCrash
  BY <1>26 DEF ProcessCrash, NoEngine
<1>27. CASE PowerLoss
  BY <1>27 DEF PowerLoss, NoEngine
<1>28. CASE LoseIndex
  BY <1>28 DEF LoseIndex
<1>29. CASE UNCHANGED vars
  BY <1>29 DEF vars
<1> QED
  BY <1>1, <1>2, <1>3, <1>4, <1>5, <1>6, <1>7, <1>8, <1>9, <1>10, <1>11, <1>12, <1>13, <1>14,
     <1>15, <1>16, <1>17, <1>18, <1>19, <1>20, <1>21, <1>22, <1>23, <1>24, <1>25, <1>26, <1>27,
     <1>28, <1>29
  DEF Next, Open, Begin, Proceed, AppendSteps, Fault

\* No cell lies beyond the last segment of the directory.
LEMMA BeyondIsEmpty ==
  ASSUME TypeOK, DirInv, GoneInv, NEW s \in SegIds, s \notin dir,
         \A t \in dir : t < s
  PROVE  cells[s] = <<>>
<1> SUFFICES ASSUME cells[s] # <<>> PROVE FALSE
  OBVIOUS
<1>1. Gone(s)
  BY DEF Gone
<1>2. PICK t \in dir : s < t
  BY <1>1 DEF GoneInv
<1> QED BY <1>2, SegmentIdAssumption DEF TypeOK, SegIds

\* Appending a cell to a segment.
LEMMA WriteAllEffect ==
  ASSUME TypeOK, NEW s \in SegIds, NEW c \in Cell, write_all(s, c)
  PROVE  /\ Len(cells'[s]) = Len(cells[s]) + 1
         /\ cells'[s] # <<>>
         /\ \A t \in SegIds : t # s => cells'[t] = cells[t]
         /\ \A t \in SegIds : \A i \in 1 .. Len(cells[t]) : i <= Len(cells'[t]) /\ cells'[t][i] = cells[t][i]
         /\ cells'[s][Len(cells[s]) + 1] = c
         /\ \A t \in SegIds : Len(cells[t]) <= Len(cells'[t])
<1>1. cells' = [cells EXCEPT ![s] = Append(cells[s], c)]
  BY DEF write_all
<1>2. cells \in [SegIds -> Seq(Cell)]
  BY DEF TypeOK
<1>3. cells'[s] = Append(cells[s], c) /\ cells[s] \in Seq(Cell)
  BY <1>1, <1>2
<1>4. /\ Len(cells'[s]) = Len(cells[s]) + 1
      /\ \A i \in 1 .. Len(cells[s]) : cells'[s][i] = cells[s][i]
      /\ cells'[s][Len(cells[s]) + 1] = c
      /\ Len(cells[s]) \in Nat
  BY <1>3
<1>5. \A t \in SegIds : t # s => cells'[t] = cells[t]
  BY <1>1, <1>2
<1>6. \A t \in SegIds : Len(cells[t]) \in Nat
  BY <1>2
<1>7. cells'[s] # <<>>
  BY <1>4
<1>8. ASSUME NEW t \in SegIds
      PROVE  /\ Len(cells[t]) <= Len(cells'[t])
             /\ \A i \in 1 .. Len(cells[t]) : i <= Len(cells'[t]) /\ cells'[t][i] = cells[t][i]
  <2>1. CASE t = s
    BY <2>1, <1>4
  <2>2. CASE t # s
    BY <2>2, <1>5, <1>6
  <2> QED BY <2>1, <2>2
<1> QED BY <1>4, <1>5, <1>7, <1>8

\* Appending keeps the synchronized part a part.
LEMMA WriteAllLen ==
  ASSUME TypeOK, LenInv, NEW s \in SegIds, NEW c \in Cell, write_all(s, c)
  PROVE  \A t \in SegIds : synced'[t] <= Len(cells'[t])
<1>1. \A t \in SegIds : Len(cells[t]) <= Len(cells'[t])
  BY WriteAllEffect
<1>2. \A t \in SegIds : synced[t] \in Nat /\ Len(cells[t]) \in Nat /\ Len(cells'[t]) \in Nat
  BY WriteAllType DEF TypeOK
<1> QED BY <1>1, <1>2 DEF LenInv, write_all

LEMMA NonEmptyLen ==
  ASSUME TypeOK, NEW s \in SegIds, cells[s] # <<>>
  PROVE  Len(cells[s]) >= 1
  BY DEF TypeOK

\* Synchronizing a segment, for certain or if something is pending.
LEMMA SyncDataEffect ==
  ASSUME TypeOK, LenInv, NEW s \in SegIds, sync_data(s)
  PROVE  /\ cells' = cells
         /\ synced'[s] = Len(cells[s])
         /\ \A t \in SegIds : synced[t] <= synced'[t] /\ synced'[t] <= Len(cells[t])
         /\ \A t \in SegIds : tail[t] # "torn" => tail'[t] # "torn"
<1>1. \A t \in SegIds : Len(cells[t]) \in Nat /\ synced[t] \in Nat /\ synced[t] <= Len(cells[t])
  BY DEF TypeOK, LenInv
<1>2. synced \in [SegIds -> Nat] /\ tail \in [SegIds -> FileTail]
  BY DEF TypeOK
<1> QED BY <1>1, <1>2 DEF sync_data

LEMMA WriterSyncEffect ==
  ASSUME TypeOK, LenInv, WriterSync
  PROVE  /\ cells' = cells
         /\ unsynced_records # 0 => synced'[active_segment] = Len(cells[active_segment])
         /\ \A t \in SegIds : synced[t] <= synced'[t] /\ synced'[t] <= Len(cells[t])
         /\ \A t \in SegIds : tail[t] # "torn" => tail'[t] # "torn"
<1>1. active_segment \in SegIds
  BY DEF TypeOK
<1>2. CASE unsynced_records # 0
  BY <1>1, <1>2, SyncDataEffect DEF WriterSync
<1>3. CASE unsynced_records = 0
  <2>1. \A t \in SegIds : Len(cells[t]) \in Nat /\ synced[t] \in Nat /\ synced[t] <= Len(cells[t])
    BY DEF TypeOK, LenInv
  <2> QED BY <1>3, <2>1 DEF WriterSync, content
<1> QED BY <1>2, <1>3

\* What power loss leaves of the segments.
LEMMA PowerLossEffect ==
  ASSUME TypeOK, LenInv, PowerLoss
  PROVE  /\ dir \cap dir_durable \subseteq dir'
         /\ dir' \subseteq dir \cup dir_durable
         /\ dir_durable' = dir'
         /\ \A s \in SegIds :
              /\ Len(cells'[s]) = synced'[s]
              /\ synced'[s] <= Len(cells[s])
              /\ \A i \in 1 .. synced'[s] : cells'[s][i] = cells[s][i]
              /\ s \in dir' => synced[s] <= synced'[s]
              /\ s \in dir \ dir' => cells'[s] = <<>>
              /\ s \notin dir' => tail'[s] # "torn"
<1>1. PICK survivors \in SUBSET (dir \cup dir_durable) :
        /\ dir \cap dir_durable \subseteq survivors
        /\ dir' = survivors
        /\ dir_durable' = survivors
        /\ synced' \in KeptLengths(survivors)
        /\ cells' = [s \in SegIds |-> SubSeq(cells[s], 1, synced'[s])]
        /\ \E torn \in SUBSET survivors :
             tail' = [s \in SegIds |-> IF s \in torn THEN "torn" ELSE "clean"]
  BY DEF PowerLoss
<1>2. /\ synced' \in [SegIds -> Nat]
      /\ \A s \in SegIds :
              /\ synced'[s] <= Len(cells[s])
              /\ s \notin dir \ survivors /\ synced[s] <= Len(cells[s]) => synced[s] <= synced'[s]
              /\ s \in dir \ survivors => synced'[s] = 0
  BY <1>1, KeptLengthsBounds
<1>3. ASSUME NEW s \in SegIds
      PROVE  /\ Len(cells'[s]) = synced'[s]
             /\ \A i \in 1 .. synced'[s] : cells'[s][i] = cells[s][i]
             /\ s \in dir' => synced[s] <= synced'[s]
             /\ s \in dir \ dir' => cells'[s] = <<>>
             /\ s \notin dir' => tail'[s] # "torn"
  <2>1. cells'[s] = SubSeq(cells[s], 1, synced'[s]) /\ cells[s] \in Seq(Cell)
    BY <1>1 DEF TypeOK
  <2>2. synced'[s] \in Nat /\ synced'[s] <= Len(cells[s])
    BY <1>2
  <2>3. /\ cells'[s] \in Seq(Cell)
        /\ Len(cells'[s]) = synced'[s]
        /\ \A i \in 1 .. synced'[s] : cells'[s][i] = cells[s][i]
    BY <2>1, <2>2, PrefixOfSeq
  <2>4. s \in dir' => synced[s] <= synced'[s]
    BY <1>1, <1>2 DEF LenInv
  <2>5. s \in dir \ dir' => cells'[s] = <<>>
    BY <1>1, <1>2, <2>3
  <2>6. s \notin dir' => tail'[s] # "torn"
    BY <1>1
  <2> QED BY <2>3, <2>4, <2>5, <2>6
<1> QED BY <1>1, <1>2, <1>3

\* CompleteInv is inductive.  Recovery checks it; a rotation leaves a segment
\* with a header and no partial tail.
LEMMA CompleteStep ==
  ASSUME TypeOK, DirInv, LenInv, GcInv, CompleteInv, [Next]_vars
  PROVE  CompleteInv'
<1> USE DEF CompleteInv, Complete, Recovered, Loaded, Rotating, Locations, content, segments, metadata, memory, writer, call
<1>t. /\ active_segment \in SegIds
      /\ \A s \in SegIds : Len(cells[s]) \in Nat /\ synced[s] \in Nat
      /\ dir \in SUBSET SegIds
      /\ segment_len \in Nat
      /\ SegIds \subseteq Nat
  BY SegmentIdAssumption DEF TypeOK, SegIds
<1>1. CASE OpenRecover
  BY <1>1, <1>t, SelectActive DEF OpenRecover, TypeOK
<1>2. CASE OpenLoad
  BY <1>2 DEF OpenLoad
<1>3. CASE OpenExisting
  BY <1>3, <1>t DEF OpenExisting, write_all, TypeOK
<1>4. CASE OpenCreate
  BY <1>4, <1>t DEF OpenCreate, DirInv
<1>5. CASE OpenMagic
  BY <1>5, <1>t DEF OpenMagic, write_all, TypeOK
<1>6. CASE OpenDir
  BY <1>6 DEF OpenDir, sync_dir
<1>7. ASSUME NEW n \in Nodes, CreateNode(n) \/ SaveRecord(n) \/ SaveSnapshot(n) \/ RemoveNode(n)
      PROVE  CompleteInv'
  BY <1>7 DEF CreateNode, SaveRecord, SaveSnapshot, RemoveNode, BeginAppend
<1>8. CASE Sync
  BY <1>8 DEF Sync
<1>9. CASE RotateSync
  <2>1. cells' = cells /\ \A s \in SegIds : tail[s] # "torn" => tail'[s] # "torn"
    BY <1>9, <1>t, SyncDataEffect DEF RotateSync
  <2> QED BY <1>9, <1>t, <2>1 DEF RotateSync
<1>10. CASE RotateFails
  BY <1>10 DEF RotateFails
<1>11. CASE RotateCreate
  <2>1. active_segment + 1 \in SegIds
    BY <1>11, SegmentIdAssumption DEF RotateCreate, TypeOK, SegIds
  <2> QED BY <1>11, <1>t, <2>1 DEF RotateCreate
<1>12. CASE RotateMagic
  BY <1>12, <1>t DEF RotateMagic, write_all, DirInv, TypeOK
<1>13. CASE RotateDir
  <2>1. cells[active_segment] # <<>>
    BY <1>13, <1>t DEF RotateDir, LenInv, Ready
  <2>2. tail[active_segment] # "torn" /\ tail[active_segment + 1] # "torn"
    BY <1>13 DEF RotateDir, DirInv, Ready
  <2>3. ASSUME NEW s \in dir, s < active_segment + 1 PROVE Complete(cells, tail, s)
    <3>1. s < active_segment \/ s = active_segment
      BY <1>t, <2>3
    <3> QED BY <1>13, <3>1, <2>1, <2>2 DEF RotateDir
  <2> QED BY <1>13, <2>2, <2>3 DEF RotateDir, sync_dir
<1>14. CASE Write
  BY <1>14, <1>t DEF Write, write_all, TypeOK
<1>15. CASE AppendSync
  <2>1. cells' = cells /\ \A s \in SegIds : tail[s] # "torn" => tail'[s] # "torn"
    BY <1>15, <1>t, WriterSyncEffect DEF AppendSync
  <2> QED BY <1>15, <1>t, <2>1 DEF AppendSync, WriterSync
<1>16. CASE SyncCall
  <2>1. cells' = cells /\ \A s \in SegIds : tail[s] # "torn" => tail'[s] # "torn"
    BY <1>16, <1>t, WriterSyncEffect DEF SyncCall
  <2> QED BY <1>16, <1>t, <2>1 DEF SyncCall, WriterSync
<1>17. CASE IndexReplace
  BY <1>17 DEF IndexReplace
<1>18. CASE IndexDir
  BY <1>18 DEF IndexDir, sync_dir
<1>19. CASE RegistryReplace
  BY <1>19 DEF RegistryReplace
<1>20. CASE RegistryDir
  BY <1>20 DEF RegistryDir, sync_dir
<1>21. CASE GcStart
  BY <1>21 DEF GcStart
<1>22. CASE GcDelete
  <2>1. PICK s \in gc_segments : dir' = dir \ {s}
    BY <1>22 DEF GcDelete
  <2>2. s \in dir /\ s # active_segment /\ s <= active_segment
    BY <1>22, <2>1 DEF GcDelete, GcInv, DirInv, LastSegment
  <2>3. tail[s] # "torn"
    BY <1>22, <1>t, <2>2 DEF GcDelete
  <2> QED BY <1>22, <1>t, <2>1, <2>2, <2>3 DEF GcDelete
<1>23. CASE GcDir
  BY <1>23 DEF GcDir, sync_dir
<1>24. CASE Return
  BY <1>24 DEF Return
<1>25. CASE Close
  BY <1>25 DEF Close, NoEngine
<1>26. CASE ProcessCrash
  <2>1. \A s \in SegIds \ dir : tail'[s] # "torn"
    BY <1>26 DEF ProcessCrash, MidWrite
  <2> QED BY <1>26, <2>1 DEF ProcessCrash, NoEngine
<1>27. CASE PowerLoss
  <2>1. \A s \in SegIds \ dir' : tail'[s] # "torn"
    BY <1>27, PowerLossEffect
  <2> QED BY <1>27, <2>1 DEF PowerLoss, NoEngine
<1>28. CASE LoseIndex
  BY <1>28 DEF LoseIndex
<1>29. CASE UNCHANGED vars
  BY <1>29 DEF vars
<1> QED
  BY <1>1, <1>2, <1>3, <1>4, <1>5, <1>6, <1>7, <1>8, <1>9, <1>10, <1>11, <1>12, <1>13, <1>14,
     <1>15, <1>16, <1>17, <1>18, <1>19, <1>20, <1>21, <1>22, <1>23, <1>24, <1>25, <1>26, <1>27,
     <1>28, <1>29
  DEF Next, Open, Begin, Proceed, AppendSteps, Fault

\* LenInv is inductive.
LEMMA LenStep ==
  ASSUME TypeOK, DirInv, GoneInv, LenInv, [Next]_vars
  PROVE  LenInv'
<1> USE DEF LenInv, Ready, Recovered, Loaded, Rotating, Locations, content, segments, metadata, memory, writer, call
<1>t. /\ active_segment \in SegIds
      /\ \A s \in SegIds : Len(cells[s]) \in Nat /\ synced[s] \in Nat
      /\ dir \in SUBSET SegIds
      /\ segment_len \in Nat
      /\ SegIds \subseteq Nat
  BY SegmentIdAssumption DEF TypeOK, SegIds
<1>1. CASE OpenRecover
  BY <1>1, <1>t DEF OpenRecover
<1>2. CASE OpenLoad
  BY <1>2, <1>t DEF OpenLoad
<1>3. CASE OpenExisting
  <2>1. CASE cells[active_segment] = <<>>
    <3>1. Len(cells'[active_segment]) = Len(cells[active_segment]) + 1 /\ \A t \in SegIds : Len(cells[t]) <= Len(cells'[t])
      BY <1>3, <1>t, <2>1, HeaderType, WriteAllEffect DEF OpenExisting
    <3>2. Len(cells'[active_segment]) = 1
      BY <2>1, <3>1
    <3>3. \A s \in SegIds : synced'[s] <= Len(cells'[s])
      BY <1>3, <1>t, <2>1, <3>1, WriteAllLen DEF OpenExisting, write_all
    <3> QED BY <1>3, <3>2, <3>3 DEF OpenExisting
  <2>2. CASE cells[active_segment] # <<>>
    <3>1. Len(cells[active_segment]) >= 1
      BY <1>t, <2>2, NonEmptyLen
    <3> QED BY <1>3, <2>2, <3>1 DEF OpenExisting
  <2> QED BY <2>1, <2>2
<1>4. CASE OpenCreate
  <2>1. cells[active_segment] = <<>>
    BY <1>4, <1>t, BeyondIsEmpty DEF OpenCreate, DirInv
  <2> QED BY <1>4, <2>1 DEF OpenCreate
<1>5. CASE OpenMagic
  <2>1. Len(cells'[active_segment]) = Len(cells[active_segment]) + 1
    BY <1>5, <1>t, HeaderType, WriteAllEffect DEF OpenMagic
  <2>2. Len(cells'[active_segment]) = 1
    BY <1>5, <2>1 DEF OpenMagic
  <2>3. \A s \in SegIds : synced'[s] <= Len(cells'[s])
    BY <1>5, <1>t, HeaderType, WriteAllLen DEF OpenMagic
  <2> QED BY <1>5, <2>2, <2>3 DEF OpenMagic
<1>6. CASE OpenDir
  BY <1>6, <1>t DEF OpenDir, sync_dir
<1>7. ASSUME NEW n \in Nodes, CreateNode(n) \/ SaveRecord(n) \/ SaveSnapshot(n) \/ RemoveNode(n)
      PROVE  LenInv'
  BY <1>7 DEF CreateNode, SaveRecord, SaveSnapshot, RemoveNode, BeginAppend
<1>8. CASE Sync
  BY <1>8 DEF Sync
<1>9. CASE RotateSync
  <2>1. cells' = cells /\ \A s \in SegIds : synced'[s] <= Len(cells[s])
    BY <1>9, <1>t, SyncDataEffect DEF RotateSync
  <2> QED BY <1>9, <2>1 DEF RotateSync
<1>10. CASE RotateFails
  BY <1>10 DEF RotateFails
<1>11. CASE RotateCreate
  <2>1. active_segment + 1 \in SegIds
    BY <1>11, SegmentIdAssumption DEF RotateCreate, TypeOK, SegIds
  <2>2. \A t \in dir : t < active_segment + 1
    BY <1>11, <1>t DEF RotateCreate, DirInv, LastSegment
  <2>3. cells[active_segment + 1] = <<>>
    BY <1>11, <2>1, <2>2, BeyondIsEmpty DEF RotateCreate
  <2> QED BY <1>11, <2>3 DEF RotateCreate
<1>12. CASE RotateMagic
  <2>1. active_segment + 1 \in SegIds /\ active_segment # active_segment + 1
    BY <1>12, <1>t DEF RotateMagic, DirInv
  <2>2. /\ Len(cells'[active_segment + 1]) = Len(cells[active_segment + 1]) + 1
        /\ cells'[active_segment] = cells[active_segment]
    BY <1>12, <1>t, <2>1, HeaderType, WriteAllEffect DEF RotateMagic
  <2>3. \A s \in SegIds : synced'[s] <= Len(cells'[s])
    BY <1>12, <1>t, <2>1, HeaderType, WriteAllLen DEF RotateMagic
  <2>4. Len(cells'[active_segment + 1]) = 1
    BY <1>12, <2>2 DEF RotateMagic
  <2> QED BY <1>12, <2>2, <2>3, <2>4 DEF RotateMagic
<1>13. CASE RotateDir
  BY <1>13 DEF RotateDir, sync_dir
<1>14. CASE Write
  <2>1. [node |-> op.node, checkpoint |-> op.kind # "save_record"] \in Cell
    BY DEF Cell, TypeOK
  <2>2. Len(cells'[active_segment]) = Len(cells[active_segment]) + 1
    BY <1>14, <1>t, <2>1, WriteAllEffect DEF Write
  <2>3. \A s \in SegIds : synced'[s] <= Len(cells'[s])
    BY <1>14, <1>t, <2>1, WriteAllLen DEF Write
  <2>4. unsynced_records' # 0
    BY <1>14 DEF Write, TypeOK
  <2> QED BY <1>14, <1>t, <2>2, <2>3, <2>4 DEF Write
<1>15. CASE AppendSync
  <2>1. cells' = cells /\ \A s \in SegIds : synced'[s] <= Len(cells[s])
    BY <1>15, WriterSyncEffect DEF AppendSync
  <2> QED BY <1>15, <2>1 DEF AppendSync, WriterSync
<1>16. CASE SyncCall
  <2>1. cells' = cells /\ \A s \in SegIds : synced'[s] <= Len(cells[s])
    BY <1>16, WriterSyncEffect DEF SyncCall
  <2> QED BY <1>16, <2>1 DEF SyncCall, WriterSync
<1>17. CASE IndexReplace
  BY <1>17 DEF IndexReplace
<1>18. CASE IndexDir
  BY <1>18 DEF IndexDir, sync_dir
<1>19. CASE RegistryReplace
  BY <1>19 DEF RegistryReplace
<1>20. CASE RegistryDir
  BY <1>20 DEF RegistryDir, sync_dir
<1>21. CASE GcStart
  BY <1>21 DEF GcStart
<1>22. CASE GcDelete
  BY <1>22 DEF GcDelete
<1>23. CASE GcDir
  BY <1>23 DEF GcDir, sync_dir
<1>24. CASE Return
  BY <1>24 DEF Return
<1>25. CASE Close
  BY <1>25 DEF Close, NoEngine
<1>26. CASE ProcessCrash
  BY <1>26 DEF ProcessCrash, NoEngine
<1>27. CASE PowerLoss
  <2>1. \A s \in SegIds : synced'[s] <= Len(cells'[s])
    BY <1>27, TypeStep, PowerLossEffect DEF Next, Fault
  <2> QED BY <1>27, <2>1 DEF PowerLoss, NoEngine
<1>28. CASE LoseIndex
  BY <1>28 DEF LoseIndex
<1>29. CASE UNCHANGED vars
  BY <1>29 DEF vars
<1> QED
  BY <1>1, <1>2, <1>3, <1>4, <1>5, <1>6, <1>7, <1>8, <1>9, <1>10, <1>11, <1>12, <1>13, <1>14,
     <1>15, <1>16, <1>17, <1>18, <1>19, <1>20, <1>21, <1>22, <1>23, <1>24, <1>25, <1>26, <1>27,
     <1>28, <1>29
  DEF Next, Open, Begin, Proceed, AppendSteps, Fault

-------------------------------------------------------------------------------
(***************************************************************************)
(* What no step does to synchronized records.                              *)
(***************************************************************************)

\* The synchronized cells of a segment that stays in the directory stay.
KeepsSynced(s) ==
  /\ synced[s] <= synced'[s]
  /\ \A i \in 1 .. synced[s] : cells'[s][i] = cells[s][i]

LEMMA WriteKeepsSynced ==
  ASSUME TypeOK, LenInv, NEW s \in SegIds, NEW c \in Cell, write_all(s, c), NEW t \in SegIds
  PROVE  KeepsSynced(t)
<1>1. \A i \in 1 .. Len(cells[t]) : cells'[t][i] = cells[t][i]
  BY WriteAllEffect
<1>2. synced[t] \in Nat /\ Len(cells[t]) \in Nat /\ synced[t] <= Len(cells[t]) /\ synced'[t] = synced[t]
  BY DEF TypeOK, LenInv, write_all
<1> QED BY <1>1, <1>2 DEF KeepsSynced

LEMMA KeepsSyncedStep ==
  ASSUME TypeOK, DirInv, LenInv, [Next]_vars, NEW s \in SegIds, s \in dir'
  PROVE  KeepsSynced(s)
<1>t. synced[s] \in Nat /\ active_segment \in SegIds
  BY DEF TypeOK
<1>1. CASE UNCHANGED <<cells, synced>>
  BY <1>1, <1>t DEF KeepsSynced
<1>2. CASE OpenExisting
  BY <1>1, <1>2, <1>t, HeaderType, WriteKeepsSynced DEF OpenExisting, content
<1>3. CASE OpenMagic
  BY <1>3, <1>t, HeaderType, WriteKeepsSynced DEF OpenMagic
<1>4. CASE RotateMagic
  <2>1. active_segment + 1 \in SegIds
    BY <1>4 DEF RotateMagic, DirInv, Rotating, TypeOK
  <2> QED BY <1>4, <2>1, HeaderType, WriteKeepsSynced DEF RotateMagic
<1>5. CASE Write
  <2>1. [node |-> op.node, checkpoint |-> op.kind # "save_record"] \in Cell
    BY DEF Cell, TypeOK
  <2> QED BY <1>5, <1>t, <2>1, WriteKeepsSynced DEF Write
<1>6. CASE RotateSync
  BY <1>6, <1>t, SyncDataEffect DEF RotateSync, KeepsSynced
<1>7. CASE AppendSync
  BY <1>7, WriterSyncEffect DEF AppendSync, KeepsSynced
<1>8. CASE SyncCall
  BY <1>8, WriterSyncEffect DEF SyncCall, KeepsSynced
<1>9. CASE PowerLoss
  <2>1. /\ synced[s] <= synced'[s]
        /\ \A i \in 1 .. synced'[s] : cells'[s][i] = cells[s][i]
    BY <1>9, PowerLossEffect
  <2>2. synced'[s] \in Nat
    BY <1>9, TypeStep DEF Next, Fault, TypeOK
  <2> QED BY <1>t, <2>1, <2>2 DEF KeepsSynced
<1>10. CASE /\ ~OpenExisting /\ ~OpenMagic /\ ~RotateMagic /\ ~Write
            /\ ~RotateSync /\ ~AppendSync /\ ~SyncCall /\ ~PowerLoss
  <2>1. UNCHANGED <<cells, synced>>
    BY <1>10 DEF Next, Open, Begin, Proceed, AppendSteps, Fault, OpenRecover, OpenLoad, OpenCreate, OpenDir,
       CreateNode, SaveRecord, SaveSnapshot, RemoveNode, Sync, RotateFails, RotateCreate, RotateDir,
       IndexReplace, IndexDir, RegistryReplace, RegistryDir, GcStart, GcDelete, GcDir, Return, Close,
       ProcessCrash, LoseIndex, vars, segments, content
  <2> QED BY <1>1, <2>1
<1> QED BY <1>2, <1>3, <1>4, <1>5, <1>6, <1>7, <1>8, <1>9, <1>10

\* A synchronized checkpoint record stays one as long as its segment stays.
LEMMA GoodEntryStable ==
  ASSUME TypeOK, DirInv, LenInv, [Next]_vars, LenInv', TypeOK', NEW n, NEW p \in Position,
         GoodEntry(n, p), p.seg \in dir'
  PROVE  GoodEntry(n, p)'
<1>1. p.seg \in SegIds /\ p.off \in Nat
  BY DEF Position
<1>2. KeepsSynced(p.seg)
  BY <1>1, KeepsSyncedStep
<1>3. /\ p.off < synced[p.seg] /\ p.off >= 1
      /\ cells[p.seg][p.off + 1].node = n
      /\ cells[p.seg][p.off + 1].checkpoint
  BY DEF GoodEntry, validate_checkpoint_position, IsRecord, CellAt
<1>4. synced[p.seg] \in Nat /\ synced'[p.seg] \in Nat /\ Len(cells'[p.seg]) \in Nat
      /\ synced'[p.seg] <= Len(cells'[p.seg])
  BY <1>1 DEF TypeOK, LenInv
<1>5. cells'[p.seg][p.off + 1] = cells[p.seg][p.off + 1] /\ p.off < synced'[p.seg]
  BY <1>1, <1>2, <1>3, <1>4 DEF KeepsSynced
<1> QED BY <1>1, <1>3, <1>4, <1>5 DEF GoodEntry, validate_checkpoint_position, IsRecord, CellAt

-------------------------------------------------------------------------------
\* RecordInv is inductive: create_node and save_snapshot synchronize the
\* checkpoint before they index it.
LEMMA RecordStep ==
  ASSUME TypeOK, DirInv, LenInv, OpInv, AgreeInv, RecordInv, [Next]_vars
  PROVE  RecordInv'
<1> USE DEF RecordInv, content, segments, metadata, memory, writer, call
<1>1. CASE OpenRecover
  BY <1>1 DEF OpenRecover
<1>2. CASE OpenLoad
  BY <1>2 DEF OpenLoad
<1>3. CASE OpenExisting
  BY <1>3 DEF OpenExisting, write_all
<1>4. CASE OpenCreate
  BY <1>4 DEF OpenCreate
<1>5. CASE OpenMagic
  BY <1>5 DEF OpenMagic, write_all
<1>6. CASE OpenDir
  BY <1>6 DEF OpenDir, sync_dir
<1>7. ASSUME NEW n \in Nodes, CreateNode(n) \/ SaveRecord(n) \/ SaveSnapshot(n) \/ RemoveNode(n)
      PROVE  RecordInv'
  BY <1>7 DEF CreateNode, SaveRecord, SaveSnapshot, RemoveNode, BeginAppend
<1>8. CASE Sync
  BY <1>8 DEF Sync
<1>9. CASE RotateSync
  BY <1>9 DEF RotateSync, sync_data
<1>10. CASE RotateFails
  BY <1>10 DEF RotateFails
<1>11. CASE RotateCreate
  BY <1>11 DEF RotateCreate
<1>12. CASE RotateMagic
  BY <1>12 DEF RotateMagic, write_all
<1>13. CASE RotateDir
  BY <1>13 DEF RotateDir, sync_dir
<1>14. CASE Write
  <2>1. [node |-> op.node, checkpoint |-> op.kind # "save_record"] \in Cell
    BY DEF Cell, TypeOK
  <2>2. active_segment \in SegIds /\ active_segment \in dir /\ segment_len \in Nat
    BY <1>14 DEF Write, DirInv, Ready, Loaded, Recovered, Locations, TypeOK
  <2>3. /\ Len(cells'[active_segment]) = Len(cells[active_segment]) + 1
        /\ cells'[active_segment][Len(cells[active_segment]) + 1]
             = [node |-> op.node, checkpoint |-> op.kind # "save_record"]
    BY <1>14, <2>1, <2>2, WriteAllEffect DEF Write
  <2>4. segment_len = Len(cells[active_segment]) /\ segment_len >= 1
    BY <1>14 DEF Write, LenInv, Ready, Loaded, Recovered, Locations
  <2>5. record_position' = [seg |-> active_segment, off |-> segment_len]
    BY <1>14 DEF Write
  <2>6. CASE op.kind \in {"create_node", "save_snapshot"}
    <3>1. validate_checkpoint_position(cells', dir', op.node, record_position')
      <4>1. record_position'.seg = active_segment /\ record_position'.off = segment_len
        BY <2>5
      <4>2. CellAt(cells', record_position') = [node |-> op.node, checkpoint |-> TRUE]
        BY <2>3, <2>4, <2>6, <4>1 DEF CellAt
      <4>3. IsRecord(cells', record_position')
        BY <2>2, <2>3, <2>4, <4>1 DEF IsRecord
      <4>4. record_position'.seg \in dir'
        BY <1>14, <2>2, <4>1 DEF Write
      <4> HIDE DEF RecordInv
      <4> QED BY <4>2, <4>3, <4>4 DEF validate_checkpoint_position
    <3>2. record_position' # None
      BY <2>2, <2>5, NoneAssumption DEF Position
    <3> QED BY <1>14, <2>5, <3>1, <3>2 DEF Write
  <2>7. CASE op.kind \notin {"create_node", "save_snapshot"}
    BY <1>14, <2>7 DEF Write
  <2> QED BY <2>6, <2>7
<1>15. CASE AppendSync
  <2>1. unsynced_records # 0
    BY <1>15 DEF AppendSync, LenInv
  <2>2. cells' = cells /\ synced'[active_segment] = Len(cells[active_segment])
    BY <1>15, <2>1, WriterSyncEffect DEF AppendSync
  <2>3. op.kind \in {"create_node", "save_snapshot"} => record_position.off < Len(cells[active_segment])
    BY <1>15 DEF AppendSync, validate_checkpoint_position, IsRecord
  <2> QED BY <1>15, <2>2, <2>3 DEF AppendSync, WriterSync, validate_checkpoint_position, IsRecord, CellAt
<1>16. CASE SyncCall
  BY <1>16 DEF SyncCall, WriterSync, sync_data
<1>17. CASE IndexReplace
  BY <1>17 DEF IndexReplace
<1>18. CASE IndexDir
  <2>1. active_segment \in dir
    BY <1>18 DEF IndexDir, DirInv, Ready, Loaded, Recovered, Locations
  <2>2. op.kind = "create_node" => checkpoints_json[op.node] = record_position
    BY <1>18 DEF IndexDir, AgreeInv, OpInv, NewIndex, TypeOK, CheckpointIndex
  <2> QED BY <1>18, <2>1, <2>2 DEF IndexDir, sync_dir
<1>19. CASE RegistryReplace
  BY <1>19 DEF RegistryReplace
<1>20. CASE RegistryDir
  BY <1>20 DEF RegistryDir, sync_dir
<1>21. CASE GcStart
  BY <1>21 DEF GcStart
<1>22. CASE GcDelete
  BY <1>22 DEF GcDelete
<1>23. CASE GcDir
  BY <1>23 DEF GcDir, sync_dir
<1>24. CASE Return
  BY <1>24 DEF Return
<1>25. CASE Close
  BY <1>25 DEF Close, NoEngine
<1>26. CASE ProcessCrash
  BY <1>26 DEF ProcessCrash, NoEngine
<1>27. CASE PowerLoss
  BY <1>27 DEF PowerLoss, NoEngine
<1>28. CASE LoseIndex
  BY <1>28 DEF LoseIndex
<1>29. CASE UNCHANGED vars
  BY <1>29 DEF vars
<1> QED
  BY <1>1, <1>2, <1>3, <1>4, <1>5, <1>6, <1>7, <1>8, <1>9, <1>10, <1>11, <1>12, <1>13, <1>14,
     <1>15, <1>16, <1>17, <1>18, <1>19, <1>20, <1>21, <1>22, <1>23, <1>24, <1>25, <1>26, <1>27,
     <1>28, <1>29
  DEF Next, Open, Begin, Proceed, AppendSteps, Fault

\* The checkpoint of create_node and save_snapshot is a good index entry from
\* the moment it may be indexed.
LEMMA RecordIsGood ==
  ASSUME TypeOK, RecordInv, op.kind \in {"create_node", "save_snapshot"},
         pc \in {"index_replace", "index_dir", "registry_replace", "registry_dir"}
  PROVE  /\ record_position \in Position
         /\ GoodEntry(op.node, record_position)
<1>1. record_position # None /\ record_position.seg = active_segment
  BY DEF RecordInv
<1> QED BY <1>1 DEF RecordInv, GoodEntry, TypeOK

\* NewIndex has good entries for the active nodes and, once it is written,
\* for the node of the call.
LEMMA NewIndexGood ==
  ASSUME TypeOK, OpInv, RecordInv, IndexInv, pc \in {"index_replace", "index_dir", "registry_dir"},
         op.kind # "remove_node" \/ pc # "registry_dir",
         NEW n \in Nodes, registry[n] = "active" \/ (n = op.node /\ op.kind # "remove_node"),
         NewIndex[n] # None
  PROVE  GoodEntry(n, NewIndex[n])
<1>1. op.node \in Nodes
  BY DEF OpInv
<1>2. CASE n = op.node
  <2>1. op.kind # "remove_node" /\ NewIndex[n] = record_position
    BY <1>1, <1>2 DEF NewIndex, TypeOK, CheckpointIndex
  <2>2. op.kind \in {"create_node", "save_snapshot"}
    BY <2>1 DEF OpInv
  <2> QED BY <1>2, <2>1, <2>2, RecordIsGood
<1>3. CASE n # op.node
  <2>1. NewIndex[n] = checkpoint_index[n]
    BY <1>1, <1>3 DEF NewIndex, TypeOK, CheckpointIndex
  <2> QED BY <1>3, <2>1 DEF IndexInv, Loaded, Recovered, Locations
<1> QED BY <1>2, <1>3

\* IndexInv is inductive.
LEMMA IndexStep ==
  ASSUME TypeOK, TypeOK', DirInv, LenInv, LenInv', OpInv, RecordInv, AgreeInv, GcInv, IndexInv, [Next]_vars
  PROVE  IndexInv'
<1> USE DEF content, segments, metadata, memory, writer, call
<1>s. ASSUME NEW n \in Nodes, NEW p \in Position, GoodEntry(n, p), p.seg \in dir'
      PROVE  GoodEntry(n, p)'
  BY <1>s, GoodEntryStable
<1>p. ASSUME NEW n \in Nodes
      PROVE  /\ checkpoint_index[n] # None => checkpoint_index[n] \in Position
             /\ checkpoints_json[n] # None => checkpoints_json[n] \in Position
  BY <1>p DEF TypeOK, CheckpointIndex
<1>g. ASSUME dir \subseteq dir', pc \in Loaded, pc' \in Loaded,
             UNCHANGED <<registry, checkpoint_index, nodes_json, checkpoints_json>>
      PROVE  IndexInv'
  <2> SUFFICES ASSUME NEW n \in Nodes
               PROVE  /\ registry[n] = "active" /\ checkpoint_index[n] # None => GoodEntry(n, checkpoint_index[n])'
                      /\ nodes_json[n] = "active" /\ checkpoints_json[n] # None => GoodEntry(n, checkpoints_json[n])'
    BY <1>g DEF IndexInv, GoodEntry
  <2>1. \A p \in Position : GoodEntry(n, p) => p.seg \in dir'
    BY <1>g DEF GoodEntry, validate_checkpoint_position
  <2> QED BY <1>g, <1>p, <1>s, <2>1 DEF IndexInv
<1>c. ASSUME pc' \notin Loaded, UNCHANGED <<nodes_json, checkpoints_json, cells, synced, dir>>
      PROVE  IndexInv'
  <2> SUFFICES ASSUME NEW n \in Nodes, nodes_json[n] = "active", checkpoints_json[n] # None,
                      checkpoints_json[n].seg \in dir,
                      checkpoints_json[n].off < Len(cells[checkpoints_json[n].seg])
               PROVE  checkpoints_json[n].off < synced[checkpoints_json[n].seg]
    BY <1>c DEF IndexInv
  <2> QED BY DEF IndexInv, GoodEntry
<1>1. CASE OpenRecover
  BY <1>1, <1>c DEF OpenRecover, Loaded, Recovered, Locations
<1>2. CASE OpenLoad
  <2>1. CASE pc' = "refused"
    BY <1>2, <1>c, <2>1 DEF OpenLoad, Loaded, Recovered
  <2>2. CASE pc' = "open_file"
    <3>1. ASSUME NEW n \in Nodes, nodes_json[n] = "active", checkpoints_json[n] # None
          PROVE  validate_checkpoint_position(cells, dir, n, checkpoints_json[n])
      BY <1>2, <2>2, <3>1 DEF OpenLoad
    <3>2. ASSUME NEW n \in Nodes, nodes_json[n] = "active", checkpoints_json[n] # None
          PROVE  GoodEntry(n, checkpoints_json[n])
      BY <1>2, <3>1, <3>2 DEF OpenLoad, IndexInv, GoodEntry, validate_checkpoint_position, IsRecord, Loaded
    <3>3. UNCHANGED <<nodes_json, checkpoints_json, cells, synced, dir>>
      BY <1>2 DEF OpenLoad
    <3>4. ASSUME NEW n \in Nodes, registry'[n] = "active", checkpoint_index'[n] # None
          PROVE  nodes_json[n] = "active" /\ checkpoint_index'[n] = checkpoints_json[n]
      BY <1>2, <3>4 DEF OpenLoad
    <3>5. pc' \in Loaded
      BY <2>2 DEF Loaded, Recovered, Locations
    <3> QED BY <3>2, <3>3, <3>4, <3>5 DEF IndexInv, GoodEntry, validate_checkpoint_position
  <2> QED BY <1>2, <2>1, <2>2 DEF OpenLoad
<1>3. CASE OpenExisting
  BY <1>3, <1>g DEF OpenExisting, write_all, Loaded, Recovered, Locations
<1>4. CASE OpenCreate
  BY <1>4, <1>g DEF OpenCreate, Loaded, Recovered, Locations
<1>5. CASE OpenMagic
  BY <1>5, <1>g DEF OpenMagic, write_all, Loaded, Recovered, Locations
<1>6. CASE OpenDir
  BY <1>6, <1>g DEF OpenDir, sync_dir, Loaded, Recovered, Locations
<1>7. ASSUME NEW n \in Nodes, CreateNode(n) \/ SaveRecord(n) \/ SaveSnapshot(n) \/ RemoveNode(n)
      PROVE  IndexInv'
  BY <1>7, <1>g DEF CreateNode, SaveRecord, SaveSnapshot, RemoveNode, BeginAppend, Loaded, Recovered, Locations
<1>8. CASE Sync
  BY <1>8, <1>g DEF Sync, Loaded, Recovered, Locations
<1>9. CASE RotateSync
  BY <1>9, <1>g DEF RotateSync, sync_data, Loaded, Recovered, Locations
<1>10. CASE RotateFails
  BY <1>10, <1>g DEF RotateFails, Loaded, Recovered, Locations
<1>11. CASE RotateCreate
  BY <1>11, <1>g DEF RotateCreate, Loaded, Recovered, Locations
<1>12. CASE RotateMagic
  BY <1>12, <1>g DEF RotateMagic, write_all, Loaded, Recovered, Locations
<1>13. CASE RotateDir
  BY <1>13, <1>g DEF RotateDir, sync_dir, Loaded, Recovered, Locations
<1>14. CASE Write
  BY <1>14, <1>g DEF Write, write_all, Loaded, Recovered, Locations
<1>15. CASE AppendSync
  BY <1>15, <1>g DEF AppendSync, WriterSync, sync_data, Loaded, Recovered, Locations
<1>16. CASE SyncCall
  BY <1>16, <1>g DEF SyncCall, WriterSync, sync_data, Loaded, Recovered, Locations
<1>17. CASE IndexReplace
  <2>1. /\ UNCHANGED <<cells, synced, dir, nodes_json, registry, checkpoint_index>>
        /\ checkpoints_json' = NewIndex
        /\ pc \in Loaded /\ pc' \in Loaded
    BY <1>17 DEF IndexReplace, Loaded, Recovered, Locations
  <2>2. nodes_json = registry
    BY <1>17 DEF IndexReplace, AgreeInv, Loaded, Recovered, Locations
  <2>3. ASSUME NEW n \in Nodes, nodes_json[n] = "active", NewIndex[n] # None
        PROVE  GoodEntry(n, NewIndex[n])
    BY <1>17, <2>2, <2>3, NewIndexGood DEF IndexReplace
  <2> QED BY <2>1, <2>3 DEF IndexInv, GoodEntry
<1>18. CASE IndexDir
  <2>1. /\ UNCHANGED <<cells, synced, dir, nodes_json, checkpoints_json, registry>>
        /\ checkpoint_index' = checkpoint_index \/ checkpoint_index' = NewIndex
        /\ pc \in Loaded /\ pc' \in Loaded
    BY <1>18 DEF IndexDir, Loaded, Recovered, Locations
  <2>2. ASSUME NEW n \in Nodes, registry[n] = "active", NewIndex[n] # None
        PROVE  GoodEntry(n, NewIndex[n])
    BY <1>18, <2>2, NewIndexGood DEF IndexDir
  <2> QED BY <2>1, <2>2 DEF IndexInv, GoodEntry
<1>19. CASE RegistryReplace
  <2>1. /\ UNCHANGED <<cells, synced, dir, checkpoints_json, registry, checkpoint_index>>
        /\ nodes_json' = NewRegistry
        /\ pc \in Loaded /\ pc' \in Loaded
    BY <1>19 DEF RegistryReplace, Loaded, Recovered, Locations
  <2>2. nodes_json = registry /\ op.node \in Nodes
    BY <1>19 DEF RegistryReplace, AgreeInv, OpInv, Loaded, Recovered, Locations
  <2>3. ASSUME NEW n \in Nodes, NewRegistry[n] = "active", checkpoints_json[n] # None
        PROVE  GoodEntry(n, checkpoints_json[n])
    <3>1. CASE n # op.node
      <4>1. nodes_json[n] = "active"
        BY <2>2, <2>3, <3>1 DEF NewRegistry, TypeOK, Registry
      <4> QED BY <2>1, <2>3, <4>1 DEF IndexInv
    <3>2. CASE n = op.node
      <4>1. op.kind = "create_node"
        BY <1>19, <2>2, <2>3, <3>2 DEF RegistryReplace, OpInv, NewRegistry, TypeOK, Registry
      <4>2. checkpoints_json[n] = record_position
        BY <1>19, <3>2, <4>1 DEF RegistryReplace, RecordInv
      <4> QED BY <1>19, <3>2, <4>1, <4>2, RecordIsGood DEF RegistryReplace
    <3> QED BY <3>1, <3>2
  <2> QED BY <2>1, <2>3 DEF IndexInv, GoodEntry
<1>20. CASE RegistryDir
  <2>1. /\ UNCHANGED <<cells, synced, dir, nodes_json, checkpoints_json>>
        /\ registry' = NewRegistry
        /\ checkpoint_index' = IF op.kind = "create_node" THEN NewIndex ELSE checkpoint_index
        /\ pc \in Loaded /\ pc' \in Loaded
    BY <1>20 DEF RegistryDir, sync_dir, Loaded, Recovered, Locations
  <2>2. op.node \in Nodes /\ op.kind \in {"create_node", "remove_node"}
    BY <1>20 DEF RegistryDir, OpInv
  <2>3. ASSUME NEW n \in Nodes, NewRegistry[n] = "active"
        PROVE  registry[n] = "active" \/ (n = op.node /\ op.kind # "remove_node")
    BY <2>2, <2>3 DEF NewRegistry, TypeOK, Registry
  <2>4. ASSUME NEW n \in Nodes, NewRegistry[n] = "active", checkpoint_index'[n] # None
        PROVE  GoodEntry(n, checkpoint_index'[n])
    <3>1. CASE op.kind = "create_node"
      BY <1>20, <2>1, <2>3, <2>4, <3>1, NewIndexGood DEF RegistryDir
    <3>2. CASE op.kind = "remove_node"
      BY <2>1, <2>2, <2>3, <2>4, <3>2 DEF IndexInv
    <3> QED BY <2>2, <3>1, <3>2
  <2> QED BY <2>1, <2>4 DEF IndexInv, GoodEntry
<1>21. CASE GcStart
  BY <1>21, <1>g DEF GcStart, Loaded, Recovered, Locations
<1>22. CASE GcDelete
  <2>1. PICK s \in gc_segments : dir' = dir \ {s}
    BY <1>22 DEF GcDelete
  <2>2. allows_delete(s)
    BY <2>1 DEF GcInv
  <2>3. /\ UNCHANGED <<nodes_json, checkpoints_json, registry, checkpoint_index>>
        /\ pc \in Loaded /\ pc' \in Loaded
        /\ nodes_json = registry /\ checkpoints_json = checkpoint_index
    BY <1>22 DEF GcDelete, AgreeInv, Collecting, Loaded, Recovered, Locations
  <2>4. ASSUME NEW n \in Nodes, registry[n] = "active", checkpoint_index[n] # None
        PROVE  GoodEntry(n, checkpoint_index[n])'
    <3>1. GoodEntry(n, checkpoint_index[n]) /\ checkpoint_index[n] \in Position
      BY <2>3, <2>4, <1>p DEF IndexInv
    <3>s. s \in Nat
      BY <2>1, SegmentIdAssumption DEF TypeOK, SegIds
    <3>2. s < checkpoint_index[n].seg
      BY <2>2, <2>4 DEF allows_delete, ActiveNodes
    <3>3. checkpoint_index[n].seg \in dir'
      BY <2>1, <3>s, <3>1, <3>2 DEF GoodEntry, validate_checkpoint_position
    <3> QED BY <1>s, <2>3, <3>1, <3>3 DEF GoodEntry
  <2> QED BY <2>3, <2>4 DEF IndexInv, GoodEntry
<1>23. CASE GcDir
  BY <1>23, <1>g DEF GcDir, sync_dir, Loaded, Recovered, Locations
<1>24. CASE Return
  BY <1>24, <1>g DEF Return, Loaded, Recovered, Locations
<1>25. CASE Close
  BY <1>25, <1>c DEF Close, NoEngine, Loaded, Recovered, Locations
<1>26. CASE ProcessCrash
  BY <1>26, <1>c DEF ProcessCrash, NoEngine, Loaded, Recovered, Locations
<1>27. CASE PowerLoss
  <2>1. \A s \in SegIds : Len(cells'[s]) = synced'[s]
    BY <1>27, PowerLossEffect
  <2>2. \A n \in Nodes : checkpoints_json'[n] # None => checkpoints_json'[n].seg \in SegIds
    BY DEF TypeOK, CheckpointIndex, Position
  <2>3. pc' \notin Loaded
    BY <1>27 DEF PowerLoss, NoEngine, Loaded, Recovered
  <2> QED BY <2>1, <2>2, <2>3 DEF IndexInv
<1>28. CASE LoseIndex
  <2>1. pc' \notin Loaded /\ checkpoints_json' = NoIndex
    BY <1>28 DEF LoseIndex, Loaded, Recovered
  <2> QED BY <2>1 DEF IndexInv, NoIndex
<1>29. CASE UNCHANGED vars
  BY <1>29, <1>g, <1>c DEF vars
<1> QED
  BY <1>1, <1>2, <1>3, <1>4, <1>5, <1>6, <1>7, <1>8, <1>9, <1>10, <1>11, <1>12, <1>13, <1>14,
     <1>15, <1>16, <1>17, <1>18, <1>19, <1>20, <1>21, <1>22, <1>23, <1>24, <1>25, <1>26, <1>27,
     <1>28, <1>29
  DEF Next, Open, Begin, Proceed, AppendSteps, Fault

\* EntryInv is inductive.
LEMMA EntryStep ==
  ASSUME TypeOK, OpInv, RecordInv, AgreeInv, EntryInv, [Next]_vars
  PROVE  EntryInv'
<1> USE DEF content, segments, metadata, memory, writer, call, Loaded, Recovered, Locations
<1>1. CASE pc' \notin Loaded
  BY <1>1 DEF EntryInv
<1>2. CASE /\ UNCHANGED <<registry, checkpoint_index, checkpoints_json>>
           /\ pc \in Loaded
           /\ \/ UNCHANGED op
              \/ pc \notin {"index_dir", "registry_replace", "registry_dir"}
           /\ pc \in {"index_dir", "registry_replace", "registry_dir"}
                => UNCHANGED op /\ pc' \in {"index_dir", "registry_replace", "registry_dir"}
  BY <1>2 DEF EntryInv
<1>3. CASE OpenLoad
  BY <1>3 DEF OpenLoad, EntryInv
<1>4. CASE IndexReplace
  BY <1>4 DEF IndexReplace, OpInv, NewIndex, EntryInv, TypeOK, CheckpointIndex
<1>5. CASE IndexDir
  <2>1. CASE op.kind = "create_node"
    BY <1>5, <2>1 DEF IndexDir, sync_dir, EntryInv
  <2>2. CASE op.kind # "create_node"
    <3>1. checkpoint_index' = checkpoints_json'
      BY <1>5, <2>2 DEF IndexDir, sync_dir, AgreeInv
    <3> QED BY <3>1 DEF EntryInv
  <2> QED BY <2>1, <2>2
<1>6. CASE RegistryReplace
  BY <1>6 DEF RegistryReplace, EntryInv
<1>7. CASE RegistryDir
  <2>1. op.node \in Nodes /\ op.kind \in {"create_node", "remove_node"}
    BY <1>7 DEF RegistryDir, OpInv
  <2>2. registry' = NewRegistry /\ UNCHANGED checkpoints_json
    BY <1>7 DEF RegistryDir
  <2>3. CASE op.kind = "create_node"
    <3>1. checkpoint_index' = NewIndex /\ checkpoints_json[op.node] = record_position
      BY <1>7, <2>3 DEF RegistryDir, RecordInv
    <3>2. \A n \in Nodes : n # op.node => registry'[n] = registry[n] /\ checkpoint_index'[n] = checkpoint_index[n]
      BY <2>2, <3>1 DEF NewIndex, NewRegistry, TypeOK, CheckpointIndex, Registry
    <3>3. checkpoint_index'[op.node] = record_position
      BY <2>1, <2>3, <3>1 DEF NewIndex, TypeOK, CheckpointIndex
    <3> QED BY <1>7, <2>2, <3>1, <3>2, <3>3 DEF RegistryDir, EntryInv
  <2>4. CASE op.kind = "remove_node"
    <3>1. checkpoint_index' = checkpoint_index
      BY <1>7, <2>4 DEF RegistryDir
    <3>2. registry'[op.node] = "removed" /\ \A n \in Nodes : n # op.node => registry'[n] = registry[n]
      BY <2>1, <2>2, <2>4 DEF NewRegistry, TypeOK, Registry
    <3> QED BY <1>7, <2>2, <3>1, <3>2 DEF RegistryDir, EntryInv
  <2> QED BY <2>1, <2>3, <2>4
<1>8. CASE UNCHANGED vars
  BY <1>8 DEF vars, EntryInv
<1>9. CASE /\ Next /\ pc' \in Loaded
           /\ ~OpenLoad /\ ~IndexReplace /\ ~IndexDir /\ ~RegistryReplace /\ ~RegistryDir
  <2>1. /\ UNCHANGED <<registry, checkpoint_index, checkpoints_json>>
        /\ pc \in Loaded
        /\ pc \notin {"index_dir", "registry_replace", "registry_dir"}
    BY <1>9 DEF Next, Open, Begin, Proceed, AppendSteps, Fault, OpenRecover, OpenExisting, OpenCreate,
       OpenMagic, OpenDir, CreateNode, SaveRecord, SaveSnapshot, RemoveNode, Sync, RotateSync, RotateFails,
       RotateCreate, RotateMagic, RotateDir, Write, AppendSync, SyncCall, WriterSync, GcStart, GcDelete,
       GcDir, Return, Close, ProcessCrash, PowerLoss, LoseIndex, NoEngine, sync_dir
  <2> QED BY <1>2, <2>1
<1> QED BY <1>1, <1>3, <1>4, <1>5, <1>6, <1>7, <1>8, <1>9

-------------------------------------------------------------------------------
\* GcInv is inductive: a collection only shrinks its set of segments, and
\* neither registry nor index changes while it runs.
LEMMA GcStep ==
  ASSUME TypeOK, GcInv, [Next]_vars
  PROVE  GcInv'
<1>1. CASE GcStart
  BY <1>1 DEF GcStart, GcInv, allows_delete, segments, memory, writer
<1>2. CASE GcDelete
  <2>1. PICK s \in gc_segments : dir' = dir \ {s} /\ gc_segments' = gc_segments \ {s}
    BY <1>2 DEF GcDelete
  <2>2. UNCHANGED <<active_segment, registry, checkpoint_index>>
    BY <1>2 DEF GcDelete, memory, writer
  <2>3. pc' # "gc_delete" => gc_segments' = {}
    BY <1>2 DEF GcDelete
  <2> QED BY <2>1, <2>2, <2>3 DEF GcInv, allows_delete
<1>3. CASE UNCHANGED vars
  BY <1>3 DEF vars, segments, memory, writer, call, GcInv, allows_delete
<1>4. CASE Next /\ ~GcStart /\ ~GcDelete
  <2>1. gc_segments' = {} \/ (pc # "gc_delete" /\ gc_segments' = gc_segments)
    BY <1>4 DEF Next, Open, Begin, Proceed, AppendSteps, Fault, OpenRecover, OpenLoad, OpenExisting, OpenCreate,
       OpenMagic, OpenDir, CreateNode, SaveRecord, SaveSnapshot, RemoveNode, Sync, RotateSync, RotateFails,
       RotateCreate, RotateMagic, RotateDir, Write, AppendSync, SyncCall, WriterSync, IndexReplace, IndexDir,
       RegistryReplace, RegistryDir, GcDir, Return, Close, ProcessCrash, PowerLoss, LoseIndex, NoEngine, call
  <2>2. gc_segments' = {}
    BY <2>1 DEF GcInv
  <2> QED BY <2>2 DEF GcInv
<1> QED BY <1>1, <1>2, <1>3, <1>4

\* The positions of records.
LEMMA RecordIsPosition ==
  ASSUME NEW cs \in [SegIds -> Seq(Cell)], NEW d \in SUBSET SegIds, NEW q
  PROVE  q \in RecordsIn(cs, d) <=> q \in Position /\ q.seg \in d /\ IsRecord(cs, q)
<1>1. ASSUME q \in RecordsIn(cs, d)
      PROVE  q \in Position /\ q.seg \in d /\ IsRecord(cs, q)
  <2>1. PICK s \in d : \E o \in 1 .. Len(cs[s]) - 1 : q = [seg |-> s, off |-> o]
    BY <1>1 DEF RecordsIn
  <2>2. PICK o \in 1 .. Len(cs[s]) - 1 : q = [seg |-> s, off |-> o]
    BY <2>1
  <2>3. s \in SegIds /\ Len(cs[s]) \in Nat
    OBVIOUS
  <2>4. q \in Position /\ q.seg = s /\ q.off = o
    BY <2>2, <2>3 DEF Position
  <2> QED BY <2>2, <2>3, <2>4 DEF IsRecord
<1>2. ASSUME q \in Position, q.seg \in d, IsRecord(cs, q)
      PROVE  q \in RecordsIn(cs, d)
  <2>1. q.off \in Nat /\ Len(cs[q.seg]) \in Nat
    BY <1>2 DEF Position
  <2>2. q.off \in 1 .. Len(cs[q.seg]) - 1
    BY <1>2, <2>1 DEF IsRecord
  <2>3. q = [seg |-> q.seg, off |-> q.off]
    BY <1>2 DEF Position
  <2> QED BY <1>2, <2>2, <2>3 DEF RecordsIn
<1> QED BY <1>1, <1>2

\* A position that validate_checkpoint_position accepts is a checkpoint.
LEMMA ValidIsCheckpoint ==
  ASSUME NEW cs \in [SegIds -> Seq(Cell)], NEW d \in SUBSET SegIds, NEW n, NEW q \in Position,
         validate_checkpoint_position(cs, d, n, q)
  PROVE  q \in CheckpointsOf(cs, d, n)
<1>1. q \in RecordsIn(cs, d)
  BY RecordIsPosition DEF validate_checkpoint_position
<1> QED BY <1>1 DEF CheckpointsOf, RecordsOf, validate_checkpoint_position

\* A durable checkpoint of n in the directory is a good index entry whose
\* segment has a durable name, and the other way round.
LEMMA DurableCheckpoint ==
  ASSUME TypeOK, LenInv, NEW n \in Nodes, NEW q
  PROVE  q \in CheckpointsOf(cells, dir, n) /\ Durable(q)
           <=> q \in Position /\ GoodEntry(n, q) /\ q.seg \in dir_durable
<1>1. q \in RecordsIn(cells, dir) <=> q \in Position /\ q.seg \in dir /\ IsRecord(cells, q)
  BY RecordIsPosition DEF TypeOK
<1> QED BY <1>1 DEF CheckpointsOf, RecordsOf, Durable, GoodEntry, validate_checkpoint_position

\* Anchored in terms of index entries.
LEMMA AnchoredByEntry ==
  ASSUME TypeOK, LenInv, NEW n \in Nodes, NEW s
  PROVE  Anchored(n, s) <=>
           \E q \in Position : /\ GoodEntry(n, q)
                               /\ q.seg \in dir_durable \ gc_segments
                               /\ s < q.seg
  BY DurableCheckpoint DEF Anchored

\* The same in the next state, the direction that steps need.
LEMMA AnchoredNext ==
  ASSUME TypeOK', NEW n, NEW s, NEW q \in Position, GoodEntry(n, q)',
         q.seg \in dir_durable' \ gc_segments', s < q.seg
  PROVE  Anchored(n, s)'
<1>1. cells' \in [SegIds -> Seq(Cell)] /\ dir' \in SUBSET SegIds
  BY DEF TypeOK
<1>2. validate_checkpoint_position(cells', dir', n, q) /\ q.off < synced'[q.seg]
  BY DEF GoodEntry
<1>3. q \in CheckpointsOf(cells', dir', n)
  BY <1>1, <1>2, ValidIsCheckpoint
<1>4. q.seg \in dir' \cap dir_durable'
  BY <1>2 DEF validate_checkpoint_position
<1> QED BY <1>2, <1>3, <1>4 DEF Anchored, Durable

\* A segment that is gone after a step other than GcStart was gone before.
LEMMA GoneIsOld ==
  ASSUME TypeOK, DirInv, LenInv, [Next]_vars, ~GcStart, NEW s \in SegIds, Gone(s)'
  PROVE  Gone(s)
<1> USE DEF content, segments, call
<1>t. active_segment \in SegIds
  BY DEF TypeOK
<1>1. CASE cells' = cells /\ dir \subseteq dir' /\ gc_segments' \subseteq gc_segments
  BY <1>1 DEF Gone
<1>2. ASSUME NEW u \in SegIds, NEW c \in Cell, u \in dir, write_all(u, c),
             dir' = dir, gc_segments' = gc_segments
      PROVE  Gone(s)
  <2>1. s \notin dir => cells'[s] = cells[s]
    BY <1>2, WriteAllEffect
  <2> QED BY <1>2, <2>1 DEF Gone
<1>3. CASE OpenExisting
  BY <1>1, <1>2, <1>3, <1>t, HeaderType DEF OpenExisting
<1>4. CASE OpenMagic
  <2>1. active_segment \in dir
    BY <1>4 DEF OpenMagic, DirInv
  <2> QED BY <1>2, <1>4, <1>t, <2>1, HeaderType DEF OpenMagic
<1>5. CASE RotateMagic
  <2>1. active_segment + 1 \in dir
    BY <1>5 DEF RotateMagic, DirInv, Rotating
  <2>2. active_segment + 1 \in SegIds
    BY <2>1 DEF TypeOK
  <2> QED BY <1>2, <1>5, <2>1, <2>2, HeaderType DEF RotateMagic
<1>6. CASE Write
  <2>1. active_segment \in dir
    BY <1>6 DEF Write, DirInv, Ready, Loaded, Recovered, Locations
  <2>2. [node |-> op.node, checkpoint |-> op.kind # "save_record"] \in Cell
    BY DEF Cell, TypeOK
  <2> QED BY <1>2, <1>6, <1>t, <2>1, <2>2 DEF Write
<1>7. CASE GcDelete
  BY <1>7 DEF GcDelete, Gone
<1>8. CASE PowerLoss
  <2>1. PICK survivors \in SUBSET (dir \cup dir_durable) :
          /\ dir' = survivors
          /\ synced' \in KeptLengths(survivors)
          /\ cells' = [x \in SegIds |-> SubSeq(cells[x], 1, synced'[x])]
    BY <1>8 DEF PowerLoss
  <2>2. s \notin dir' /\ cells'[s] # <<>>
    BY <1>8 DEF PowerLoss, NoEngine, Gone
  <2>3. synced'[s] \in Nat /\ synced'[s] <= Len(cells[s]) /\ (s \in dir \ survivors => synced'[s] = 0)
    BY <2>1, KeptLengthsBounds
  <2>4. cells[s] \in Seq(Cell)
    BY DEF TypeOK
  <2>5. cells'[s] \in Seq(Cell) /\ Len(cells'[s]) = synced'[s]
    BY <2>1, <2>3, <2>4, PrefixOfSeq
  <2>6. synced'[s] # 0
    BY <2>2, <2>5
  <2>7. cells[s] # <<>>
    BY <2>3, <2>4, <2>6
  <2> QED BY <2>1, <2>2, <2>3, <2>6, <2>7 DEF Gone
<1>9. CASE /\ ~OpenExisting /\ ~OpenMagic /\ ~RotateMagic /\ ~Write /\ ~GcDelete /\ ~PowerLoss
  <2>1. cells' = cells /\ dir \subseteq dir'
    BY <1>9 DEF Next, Open, Begin, Proceed, AppendSteps, Fault, OpenRecover, OpenLoad, OpenCreate, OpenDir,
       CreateNode, SaveRecord, SaveSnapshot, RemoveNode, Sync, RotateSync, RotateFails, RotateCreate, RotateDir,
       AppendSync, SyncCall, WriterSync, sync_data, IndexReplace, IndexDir, RegistryReplace, RegistryDir, GcDir,
       Return, Close, ProcessCrash, LoseIndex, vars
  <2>2. gc_segments' = {} \/ gc_segments' = gc_segments
    BY <1>9 DEF Next, Open, Begin, Proceed, AppendSteps, Fault, OpenRecover, OpenLoad, OpenCreate, OpenDir,
       CreateNode, SaveRecord, SaveSnapshot, RemoveNode, Sync, RotateSync, RotateFails, RotateCreate, RotateDir,
       AppendSync, SyncCall, WriterSync, IndexReplace, IndexDir, RegistryReplace, RegistryDir, GcDir,
       Return, Close, ProcessCrash, LoseIndex, NoEngine, vars
  <2> QED BY <1>1, <2>1, <2>2
<1> QED BY <1>3, <1>4, <1>5, <1>6, <1>7, <1>8, <1>9

\* No step other than RegistryReplace makes a node active on disk.
LEMMA ActiveIsOld ==
  ASSUME [Next]_vars, ~RegistryReplace
  PROVE  ActiveNodes(nodes_json') \cup ActiveNodes(nodes_json_durable')
           \subseteq ActiveNodes(nodes_json) \cup ActiveNodes(nodes_json_durable)
<1>1. nodes_json' \in {nodes_json, nodes_json_durable} /\ nodes_json_durable' \in {nodes_json, nodes_json_durable}
  BY DEF Next, Open, Begin, Proceed, AppendSteps, Fault, OpenRecover, OpenLoad, OpenExisting, OpenCreate,
     OpenMagic, OpenDir, CreateNode, SaveRecord, SaveSnapshot, RemoveNode, Sync, RotateSync, RotateFails,
     RotateCreate, RotateMagic, RotateDir, Write, AppendSync, SyncCall, WriterSync, IndexReplace, IndexDir,
     RegistryDir, GcStart, GcDelete, GcDir, Return, Close, ProcessCrash, PowerLoss, LoseIndex, sync_dir,
     metadata, vars
<1> QED BY <1>1 DEF ActiveNodes

\* A segment with a durable name that no collection is deleting stays.
LEMMA DurableStays ==
  ASSUME [Next]_vars, ~GcStart, NEW t \in (dir \cap dir_durable) \ gc_segments
  PROVE  t \in (dir' \cap dir_durable') \ gc_segments'
<1> USE DEF segments, content, call
<1>1. CASE GcDelete
  BY <1>1 DEF GcDelete
<1>2. CASE PowerLoss
  BY <1>2 DEF PowerLoss, NoEngine
<1>3. CASE ~GcDelete /\ ~PowerLoss
  <2>1. dir \subseteq dir' /\ dir_durable' \in {dir, dir_durable}
    BY <1>3 DEF Next, Open, Begin, Proceed, AppendSteps, Fault, OpenRecover, OpenLoad, OpenExisting, OpenCreate,
       OpenMagic, OpenDir, CreateNode, SaveRecord, SaveSnapshot, RemoveNode, Sync, RotateSync, RotateFails,
       RotateCreate, RotateMagic, RotateDir, Write, AppendSync, SyncCall, WriterSync, IndexReplace, IndexDir,
       RegistryReplace, RegistryDir, GcDir, Return, Close, ProcessCrash, LoseIndex, sync_dir, vars
  <2>2. gc_segments' = {} \/ gc_segments' = gc_segments
    BY <1>3 DEF Next, Open, Begin, Proceed, AppendSteps, Fault, OpenRecover, OpenLoad, OpenExisting, OpenCreate,
       OpenMagic, OpenDir, CreateNode, SaveRecord, SaveSnapshot, RemoveNode, Sync, RotateSync, RotateFails,
       RotateCreate, RotateMagic, RotateDir, Write, AppendSync, SyncCall, WriterSync, IndexReplace, IndexDir,
       RegistryReplace, RegistryDir, GcDir, Return, Close, ProcessCrash, LoseIndex, NoEngine, vars
  <2> QED BY <2>1, <2>2
<1> QED BY <1>1, <1>2, <1>3

\* GoneInv is inductive.  RegistryReplace makes a node active: create_node has
\* written its checkpoint to the active segment, which is newer than anything
\* that is gone.  GcStart condemns segments: a checkpoint in one of them was
\* superseded by the index entry that allows_delete compared with.
LEMMA GoneStep ==
  ASSUME TypeOK, TypeOK', DirInv, LenInv, LenInv', OpInv, RecordInv, AgreeInv, IndexInv, GcInv, GoneInv,
         [Next]_vars
  PROVE  GoneInv'
<1> USE DEF segments, content, metadata, memory, writer, call
<1>t. SegIds \subseteq Nat /\ dir \subseteq SegIds /\ dir_durable \subseteq SegIds /\ active_segment \in SegIds
      /\ \A q \in Position : q.seg \in SegIds
  BY SegmentIdAssumption DEF TypeOK, SegIds, Position
<1>a. ASSUME ~GcStart, NEW n \in Nodes, NEW s \in SegIds, Anchored(n, s)
      PROVE  Anchored(n, s)'
  <2>1. PICK q \in Position : GoodEntry(n, q) /\ q.seg \in dir_durable \ gc_segments /\ s < q.seg
    BY <1>a, AnchoredByEntry
  <2>2. q.seg \in (dir' \cap dir_durable') \ gc_segments'
    BY <1>a, <2>1, DurableStays DEF GoodEntry, validate_checkpoint_position
  <2>3. GoodEntry(n, q)'
    BY <2>1, <2>2, GoodEntryStable
  <2> QED BY <2>1, <2>2, <2>3, AnchoredNext
<1>1. CASE ~GcStart /\ ~RegistryReplace
  <2> SUFFICES ASSUME NEW s \in SegIds, Gone(s)'
               PROVE  /\ \E t \in dir' \cap dir_durable' : s < t /\ t \notin gc_segments'
                      /\ \A n \in ActiveNodes(nodes_json') \cup ActiveNodes(nodes_json_durable') : Anchored(n, s)'
    BY DEF GoneInv
  <2>1. Gone(s)
    BY <1>1, GoneIsOld
  <2>2. \E t \in dir' \cap dir_durable' : s < t /\ t \notin gc_segments'
    <3>1. PICK t \in dir \cap dir_durable : s < t /\ t \notin gc_segments
      BY <2>1 DEF GoneInv
    <3> QED BY <1>1, <3>1, DurableStays
  <2>3. ASSUME NEW n \in ActiveNodes(nodes_json') \cup ActiveNodes(nodes_json_durable')
        PROVE  Anchored(n, s)'
    <3>1. n \in ActiveNodes(nodes_json) \cup ActiveNodes(nodes_json_durable)
      BY <1>1, ActiveIsOld
    <3>2. Anchored(n, s)
      BY <2>1, <3>1 DEF GoneInv
    <3>3. n \in Nodes
      BY <3>1 DEF ActiveNodes
    <3> QED BY <1>1, <1>a, <3>2, <3>3
  <2> QED BY <2>2, <2>3
<1>2. CASE RegistryReplace
  <2>0. ~GcStart
    BY <1>2 DEF RegistryReplace, GcStart
  <2>1. UNCHANGED <<dir, dir_durable, nodes_json_durable, gc_segments>> /\ nodes_json' = NewRegistry
    BY <1>2 DEF RegistryReplace
  <2>2. nodes_json = registry /\ op.node \in Nodes /\ gc_segments = {}
    BY <1>2 DEF RegistryReplace, AgreeInv, OpInv, GcInv, Loaded, Recovered, Locations
  <2> SUFFICES ASSUME NEW s \in SegIds, Gone(s)'
               PROVE  /\ \E t \in dir' \cap dir_durable' : s < t /\ t \notin gc_segments'
                      /\ \A n \in ActiveNodes(nodes_json') \cup ActiveNodes(nodes_json_durable') : Anchored(n, s)'
    BY DEF GoneInv
  <2>3. Gone(s)
    BY <2>0, GoneIsOld
  <2>4. PICK t \in dir \cap dir_durable : s < t /\ t \notin gc_segments
    BY <2>3 DEF GoneInv
  <2>5. ASSUME NEW n \in ActiveNodes(nodes_json') \cup ActiveNodes(nodes_json_durable')
        PROVE  Anchored(n, s)
    <3>0. n \in Nodes
      BY DEF ActiveNodes
    <3>1. CASE n \in ActiveNodes(nodes_json) \cup ActiveNodes(nodes_json_durable)
      BY <2>3, <3>1 DEF GoneInv
    <3>2. CASE n \notin ActiveNodes(nodes_json) \cup ActiveNodes(nodes_json_durable)
      <4>1. n = op.node /\ op.kind # "remove_node"
        BY <2>1, <2>2, <2>5, <3>0, <3>2 DEF ActiveNodes, NewRegistry, TypeOK, Registry
      <4>2. op.kind = "create_node"
        BY <1>2, <4>1 DEF RegistryReplace, OpInv
      <4>3. record_position \in Position /\ GoodEntry(op.node, record_position)
        BY <1>2, <4>2, RecordIsGood DEF RegistryReplace
      <4>4. record_position.seg = active_segment /\ active_segment \in dir_durable
        BY <1>2, <4>2 DEF RegistryReplace, RecordInv
      <4>5. t <= active_segment
        BY <1>2 DEF RegistryReplace, DirInv, LastSegment, Rotating, Recovered, Locations
      <4>6. s < active_segment
        BY <1>t, <2>4, <4>5
      <4> QED BY <2>2, <3>0, <4>1, <4>3, <4>4, <4>6, AnchoredByEntry
    <3> QED BY <3>1, <3>2
  <2>6. \A n \in ActiveNodes(nodes_json') \cup ActiveNodes(nodes_json_durable') : n \in Nodes
    BY DEF ActiveNodes
  <2> QED BY <1>a, <2>0, <2>1, <2>4, <2>5, <2>6
<1>3. CASE GcStart
  <2>1. /\ UNCHANGED <<cells, synced, dir, dir_durable, nodes_json, nodes_json_durable>>
        /\ gc_segments' = { s \in dir \ {active_segment} : allows_delete(s) }
    BY <1>3 DEF GcStart
  <2>2. gc_segments = {} /\ dir_durable = dir /\ nodes_json_durable = registry /\ nodes_json = registry
    BY <1>3 DEF GcStart, GcInv, AgreeInv, Collecting, Loaded, Recovered, Locations
  <2>3. active_segment \in dir /\ \A s \in dir : s <= active_segment
    BY <1>3 DEF GcStart, DirInv, LastSegment, Rotating, Ready, Loaded, Recovered, Locations
  <2>4. ASSUME NEW n \in ActiveNodes(registry), gc_segments' # {}
        PROVE  /\ checkpoint_index[n] \in Position
               /\ GoodEntry(n, checkpoint_index[n])
               /\ checkpoint_index[n].seg \in dir \ gc_segments'
               /\ \A s \in gc_segments' : s < checkpoint_index[n].seg
    <3>1. n \in Nodes /\ registry[n] = "active"
      BY DEF ActiveNodes
    <3>2. \A s \in gc_segments' : checkpoint_index[n] # None /\ s < checkpoint_index[n].seg
      BY <2>1 DEF allows_delete
    <3>3. checkpoint_index[n] # None
      BY <2>4, <3>2
    <3>4. GoodEntry(n, checkpoint_index[n])
      BY <1>3, <3>1, <3>3 DEF GcStart, IndexInv, Loaded, Recovered, Locations
    <3>5. checkpoint_index[n] \in Position
      BY <3>1, <3>3 DEF TypeOK, CheckpointIndex
    <3>6. checkpoint_index[n].seg \in dir
      BY <3>4 DEF GoodEntry, validate_checkpoint_position
    <3>7. checkpoint_index[n].seg \notin gc_segments'
      <4>1. checkpoint_index[n].seg \in Nat
        BY <1>t, <3>6
      <4>2. ~(checkpoint_index[n].seg < checkpoint_index[n].seg)
        BY <4>1
      <4> QED BY <3>2, <4>2
    <3> QED BY <3>2, <3>4, <3>5, <3>6, <3>7
  <2> SUFFICES ASSUME NEW s \in SegIds, Gone(s)'
               PROVE  /\ \E t \in dir \cap dir_durable : s < t /\ t \notin gc_segments'
                      /\ \A n \in ActiveNodes(registry) : Anchored(n, s)'
    BY <2>1, <2>2 DEF GoneInv
  <2>5. Gone(s) \/ s \in gc_segments'
    BY <2>1 DEF Gone
  <2>6. s < active_segment
    <3>1. CASE Gone(s)
      <4>1. PICK t \in dir \cap dir_durable : s < t
        BY <3>1 DEF GoneInv
      <4> QED BY <1>t, <2>3, <4>1
    <3>2. CASE s \in gc_segments'
      BY <1>t, <2>1, <2>3, <3>2
    <3> QED BY <2>5, <3>1, <3>2
  <2>7. ASSUME NEW n \in ActiveNodes(registry)
        PROVE  \E q \in Position : GoodEntry(n, q) /\ q.seg \in dir_durable \ gc_segments' /\ s < q.seg
    <3>0. n \in Nodes
      BY DEF ActiveNodes
    <3>1. CASE s \in gc_segments'
      BY <2>2, <2>4, <3>1
    <3>2. CASE Gone(s)
      <4>1. Anchored(n, s)
        BY <2>2, <3>2 DEF GoneInv
      <4>2. PICK q \in Position : GoodEntry(n, q) /\ q.seg \in dir_durable /\ s < q.seg
        BY <3>0, <4>1, AnchoredByEntry
      <4>3. CASE q.seg \notin gc_segments'
        BY <4>2, <4>3
      <4>4. CASE q.seg \in gc_segments'
        <5>1. /\ checkpoint_index[n] \in Position
              /\ GoodEntry(n, checkpoint_index[n])
              /\ checkpoint_index[n].seg \in dir \ gc_segments'
              /\ q.seg < checkpoint_index[n].seg
          BY <2>4, <4>4
        <5>t. s \in Nat /\ q.seg \in Nat /\ checkpoint_index[n].seg \in Nat
          BY <1>t, <5>1
        <5>2. s < checkpoint_index[n].seg
          BY <4>2, <5>t, <5>1
        <5> QED BY <2>2, <5>1, <5>2
      <4> QED BY <4>3, <4>4
    <3> QED BY <2>5, <3>1, <3>2
  <2>8. ASSUME NEW n \in ActiveNodes(registry)
        PROVE  Anchored(n, s)'
    <3>1. n \in Nodes
      BY DEF ActiveNodes
    <3>2. PICK q \in Position : GoodEntry(n, q) /\ q.seg \in dir_durable \ gc_segments' /\ s < q.seg
      BY <2>7
    <3>3. GoodEntry(n, q)'
      BY <2>1, <3>2 DEF GoodEntry
    <3> QED BY <2>1, <3>2, <3>3, AnchoredNext
  <2> QED BY <2>1, <2>2, <2>3, <2>6, <2>8
<1> QED BY <1>1, <1>2, <1>3

-------------------------------------------------------------------------------
(***************************************************************************)
(* The theorems.                                                           *)
(***************************************************************************)

LEMMA InitInvariant == Init => IInv
<1> SUFFICES ASSUME Init
             PROVE  IInv
  OBVIOUS
<1>1. TypeOK
  <2>1. cells \in [SegIds -> Seq(Cell)]
    BY DEF Init
  <2>2. /\ nodes_json \in Registry /\ nodes_json_durable \in Registry /\ registry \in Registry
    BY DEF Init, NoRegistry, Registry, Status
  <2>3. /\ checkpoints_json \in CheckpointIndex /\ checkpoints_json_durable \in CheckpointIndex
        /\ checkpoint_index \in CheckpointIndex
    BY DEF Init, NoIndex, CheckpointIndex
  <2>4. active_segment \in SegIds
    BY SegmentIdAssumption DEF Init, SegIds
  <2>5. op \in [kind : OpKinds, node : Nodes \cup {None}] /\ pc \in Locations
    BY DEF Init, NoOp, OpKinds, Locations
  <2>6. tail \in [SegIds -> FileTail] /\ synced \in [SegIds -> Nat]
    BY DEF Init, FileTail
  <2> QED BY <2>1, <2>2, <2>3, <2>4, <2>5, <2>6 DEF TypeOK, Init
<1>2. DirInv /\ CompleteInv
  BY DEF Init, DirInv, CompleteInv, Recovered, Loaded, Ready, Rotating
<1>3. LenInv
  BY DEF Init, LenInv, Recovered, Loaded, Ready
<1>4. OpInv /\ RecordInv
  BY DEF Init, OpInv, RecordInv, NoOp
<1>5. AgreeInv /\ EntryInv
  BY DEF Init, AgreeInv, EntryInv, Loaded, Recovered, Collecting
<1>6. IndexInv
  BY DEF Init, IndexInv, Loaded, Recovered, NoRegistry
<1>7. GcInv /\ GoneInv
  BY DEF Init, GcInv, GoneInv, Gone
<1> QED BY <1>1, <1>2, <1>3, <1>4, <1>5, <1>6, <1>7 DEF IInv

LEMMA StepInvariant == IInv /\ [Next]_vars => IInv'
<1> SUFFICES ASSUME IInv, [Next]_vars
             PROVE  IInv'
  OBVIOUS
<1>1. TypeOK /\ DirInv /\ CompleteInv /\ LenInv /\ OpInv /\ RecordInv /\ AgreeInv /\ EntryInv
      /\ IndexInv /\ GcInv /\ GoneInv
  BY DEF IInv
<1>2. TypeOK'
  BY <1>1, TypeStep
<1>3. DirInv'
  BY <1>1, <1>2, DirStep
<1>4. LenInv'
  BY <1>1, <1>2, LenStep
<1>5. CompleteInv'
  BY <1>1, <1>2, CompleteStep
<1>6. OpInv'
  BY <1>1, OpStep
<1>7. RecordInv'
  BY <1>1, RecordStep
<1>8. AgreeInv'
  BY <1>1, AgreeStep
<1>9. IndexInv'
  BY <1>1, <1>2, <1>4, IndexStep
<1>10. GcInv'
  BY <1>1, GcStep
<1>11. GoneInv'
  BY <1>1, <1>2, <1>4, GoneStep
<1>12. EntryInv'
  BY <1>1, EntryStep
<1> QED BY <1>2, <1>3, <1>4, <1>5, <1>6, <1>7, <1>8, <1>9, <1>10, <1>11, <1>12 DEF IInv

\* The inductive invariant holds of every behaviour of the engine, whatever
\* faults strike it between two system calls.
THEOREM Invariance == Spec => []IInv
  BY InitInvariant, StepInvariant, PTL DEF Spec

\* Type correctness: in particular rotation never leaves the range of the
\* segment IDs (SegmentId::next is checked), and the offset that append
\* returns is a natural number.
THEOREM TypeCorrect == Spec => []TypeOK
<1>1. IInv => TypeOK
  BY DEF IInv
<1> QED BY <1>1, Invariance, PTL

\* Garbage collection is safe: every segment that collect_garbage removed is
\* older than a durable checkpoint of every node that is active, or may be
\* after a power loss, at every step of every call.
THEOREM GcSafety == Spec => []UnlinkedIsSuperseded
<1>1. IInv => UnlinkedIsSuperseded
  BY DEF IInv, GoneInv, Gone, Anchored, UnlinkedIsSuperseded
<1> QED BY <1>1, Invariance, PTL

\* Between calls the registry, the index and the writer of the engine agree
\* with the directory, so that the positions append returns and the index
\* stores are positions of records in the files.
THEOREM MemoryAgreement == Spec => []MemoryAgreesWithDisk
<1>1. IInv => MemoryAgreesWithDisk
  <2> SUFFICES ASSUME IInv, pc = "idle"
               PROVE  /\ registry = nodes_json
                      /\ \A n \in ActiveNodes(registry) : checkpoint_index[n] = checkpoints_json[n]
                      /\ segment_len = Len(cells[active_segment])
                      /\ active_segment \in dir
                      /\ \A s \in dir : s <= active_segment
    BY DEF MemoryAgreesWithDisk
  <2> USE DEF IInv, Ready, Loaded, Recovered, Rotating, Locations
  <2>1. registry = nodes_json
    BY DEF AgreeInv
  <2>2. \A n \in ActiveNodes(registry) : checkpoint_index[n] = checkpoints_json[n]
    BY DEF EntryInv, ActiveNodes
  <2>3. segment_len = Len(cells[active_segment])
    BY DEF LenInv
  <2>4. active_segment \in dir /\ \A s \in dir : s <= active_segment
    BY DEF DirInv, LastSegment
  <2> QED BY <2>1, <2>2, <2>3, <2>4
<1> QED BY <1>1, Invariance, PTL

-------------------------------------------------------------------------------
(***************************************************************************)
(* The order of positions, and its extrema.                                *)
(***************************************************************************)

\* Before is a strict total order.
LEMMA BeforeIsOrder ==
  ASSUME NEW p \in Position, NEW q \in Position, NEW r \in Position
  PROVE  /\ ~Before(p, p)
         /\ Before(p, q) /\ Before(q, r) => Before(p, r)
         /\ Before(p, q) \/ Before(q, p) \/ p = q
<1>1. /\ p.seg \in Nat /\ q.seg \in Nat /\ r.seg \in Nat
      /\ p.off \in Nat /\ q.off \in Nat /\ r.off \in Nat
  BY SegmentIdAssumption DEF Position, SegIds
<1>2. ~Before(p, p)
  BY <1>1 DEF Before
<1>3. Before(p, q) /\ Before(q, r) => Before(p, r)
  BY <1>1 DEF Before
<1>4. Before(p, q) \/ Before(q, p) \/ (p.seg = q.seg /\ p.off = q.off)
  BY <1>1 DEF Before
<1>5. p.seg = q.seg /\ p.off = q.off => p = q
  BY DEF Position
<1> QED BY <1>2, <1>3, <1>4, <1>5

\* The same with "not before", the form in which the code compares.
LEMMA NotBeforeTransitive ==
  ASSUME NEW p \in Position, NEW q \in Position, NEW r \in Position, ~Before(p, q), ~Before(q, r)
  PROVE  ~Before(p, r)
<1>1. /\ p.seg \in Nat /\ q.seg \in Nat /\ r.seg \in Nat
      /\ p.off \in Nat /\ q.off \in Nat /\ r.off \in Nat
  BY SegmentIdAssumption DEF Position, SegIds
<1> QED BY <1>1 DEF Before

\* A non-empty set of positions with bounded offsets has a latest element,
\* and only one.
LEMMA LatestExists ==
  ASSUME NEW S \in SUBSET Position, S # {},
         NEW b \in [SegIds -> Nat], \A p \in S : p.off <= b[p.seg]
  PROVE  /\ Latest(S) \in S
         /\ \A q \in S : ~Before(Latest(S), q)
<1>t. \A p \in S : p.seg \in SegIds /\ p.seg \in Nat /\ p.off \in Nat /\ p.seg <= MaxSegmentId
  BY SegmentIdAssumption DEF Position, SegIds
<1> DEFINE segs == { p.seg : p \in S }
<1>1. segs \in SUBSET Nat /\ segs # {} /\ \A x \in segs : x <= MaxSegmentId
  BY <1>t
<1>2. PICK s \in segs : \A x \in segs : x <= s
  <2> HIDE DEF segs
  <2> QED BY <1>1, MaxExists, SegmentIdAssumption
<1>3. s \in SegIds /\ b[s] \in Nat
  BY <1>t
<1> DEFINE offs == { p.off : p \in { r \in S : r.seg = s } }
<1>4. offs \in SUBSET Nat /\ offs # {} /\ \A x \in offs : x <= b[s]
  BY <1>t, <1>2
<1>5. PICK o \in offs : \A x \in offs : x <= o
  <2> HIDE DEF offs
  <2> QED BY <1>3, <1>4, MaxExists
<1>6. PICK p \in S : p.seg = s /\ p.off = o
  BY <1>5
<1>7. ASSUME NEW q \in S
      PROVE  ~Before(p, q)
  <2>1. q.seg <= s /\ (q.seg = s => q.off <= o)
    BY <1>2, <1>5
  <2>2. q.seg \in Nat /\ q.off \in Nat /\ p.seg \in Nat /\ p.off \in Nat
    BY <1>t
  <2> QED BY <1>6, <2>1, <2>2 DEF Before
<1>8. \E x \in S : \A q \in S : ~Before(x, q)
  BY <1>7
<1> QED BY <1>8 DEF Latest

\* A non-empty set of positions has an earliest element.
LEMMA EarliestExists ==
  ASSUME NEW S \in SUBSET Position, S # {}
  PROVE  /\ Earliest(S) \in S
         /\ \A q \in S : ~Before(q, Earliest(S))
<1>t. \A p \in S : p.seg \in Nat /\ p.off \in Nat
  BY SegmentIdAssumption DEF Position, SegIds
<1> DEFINE segs == { p.seg : p \in S }
<1>1. segs \in SUBSET Nat /\ segs # {}
  BY <1>t
<1>2. PICK s \in segs : \A x \in segs : s <= x
  <2> HIDE DEF segs
  <2> QED BY <1>1, MinExists
<1> DEFINE offs == { p.off : p \in { r \in S : r.seg = s } }
<1>3. offs \in SUBSET Nat /\ offs # {}
  BY <1>t, <1>2
<1>4. PICK o \in offs : \A x \in offs : o <= x
  <2> HIDE DEF offs
  <2> QED BY <1>3, MinExists
<1>5. PICK p \in S : p.seg = s /\ p.off = o
  BY <1>4
<1>6. ASSUME NEW q \in S
      PROVE  ~Before(q, p)
  <2>1. s <= q.seg /\ (q.seg = s => o <= q.off)
    BY <1>2, <1>4
  <2>2. q.seg \in Nat /\ q.off \in Nat /\ p.seg \in Nat /\ p.off \in Nat
    BY <1>t
  <2> QED BY <1>5, <2>1, <2>2 DEF Before
<1>7. \E x \in S : \A q \in S : ~Before(q, x)
  BY <1>6
<1> QED BY <1>7 DEF Earliest

-------------------------------------------------------------------------------
(***************************************************************************)
(* What is left of a node's records.                                       *)
(***************************************************************************)

\* Records and checkpoints are positions of the right segments.
LEMMA RecordTypes ==
  ASSUME TypeOK, NEW n, NEW d \in SUBSET SegIds
  PROVE  /\ RecordsOf(cells, d, n) \subseteq Position
         /\ CheckpointsOf(cells, d, n) \subseteq RecordsOf(cells, d, n)
         /\ RecordsOf(cells, d, n) = { p \in RecordsOf(cells, SegIds, n) : p.seg \in d }
         /\ CheckpointsOf(cells, d, n) = { p \in CheckpointsOf(cells, SegIds, n) : p.seg \in d }
         /\ \A p \in RecordsOf(cells, d, n) : p.off <= Len(cells[p.seg]) /\ cells[p.seg] # <<>>
<1>1. cells \in [SegIds -> Seq(Cell)]
  BY DEF TypeOK
<1>2. \A q : q \in RecordsIn(cells, d) <=> q \in Position /\ q.seg \in d /\ IsRecord(cells, q)
  BY <1>1, RecordIsPosition
<1>3. \A q : q \in RecordsIn(cells, SegIds) <=> q \in Position /\ q.seg \in SegIds /\ IsRecord(cells, q)
  BY <1>1, RecordIsPosition
<1>4. \A p \in RecordsOf(cells, d, n) : p.off <= Len(cells[p.seg]) /\ cells[p.seg] # <<>>
  <2> SUFFICES ASSUME NEW p \in RecordsOf(cells, d, n)
               PROVE  p.off <= Len(cells[p.seg]) /\ cells[p.seg] # <<>>
    OBVIOUS
  <2>1. p \in Position /\ p.seg \in d /\ p.off >= 1 /\ p.off < Len(cells[p.seg])
    BY <1>2 DEF RecordsOf, IsRecord, HeaderLen
  <2>2. p.off \in Nat /\ cells[p.seg] \in Seq(Cell) /\ Len(cells[p.seg]) \in Nat
    BY <1>1, <2>1 DEF Position
  <2>3. Len(cells[p.seg]) # 0
    BY <2>1, <2>2
  <2> QED BY <2>1, <2>2, <2>3
<1> QED BY <1>2, <1>3, <1>4 DEF RecordsOf, CheckpointsOf

\* A record whose segment is gone comes before a checkpoint that is left.
LEMMA LostIsSuperseded ==
  ASSUME IInv, NEW n \in ActiveNodes(nodes_json), NEW m, NEW p \in RecordsOf(cells, SegIds, m), p.seg \notin dir
  PROVE  \E q \in CheckpointsOf(cells, dir, n) : Before(p, q)
<1>1. p \in Position /\ cells[p.seg] # <<>>
  BY RecordTypes DEF IInv
<1>2. p.seg \in SegIds /\ Gone(p.seg)
  BY <1>1 DEF Gone, Position
<1>3. Anchored(n, p.seg)
  BY <1>2 DEF IInv, GoneInv
<1> QED BY <1>3 DEF Anchored, Before

\* If no checkpoint of n is left, nothing of n was removed.
LEMMA NoCheckpointLeft ==
  ASSUME IInv, NEW n \in ActiveNodes(nodes_json), CheckpointsOf(cells, dir, n) = {}
  PROVE  Expected(n) = RecordsOf(cells, dir, n)
<1>1. \A p \in RecordsOf(cells, SegIds, n) : p.seg \in dir
  BY LostIsSuperseded
<1>2. /\ RecordsOf(cells, dir, n) = { p \in RecordsOf(cells, SegIds, n) : p.seg \in dir }
      /\ CheckpointsOf(cells, dir, n) = { p \in CheckpointsOf(cells, SegIds, n) : p.seg \in dir }
  BY RecordTypes DEF IInv, TypeOK
<1>3. CheckpointsOf(cells, SegIds, n) = {}
  BY <1>1, <1>2 DEF CheckpointsOf
<1> QED BY <1>1, <1>2, <1>3 DEF Expected

\* The newest checkpoint that a scan from `start` finds, provided that there
\* is one at or after it, delimits the state of n.
LEMMA NewestCheckpoint ==
  ASSUME IInv, NEW n \in ActiveNodes(nodes_json), NEW start \in Position \cup {None},
         NEW h \in CheckpointsOf(cells, dir, n), start # None => ~Before(h, start)
  PROVE  /\ find_checkpoint_positions_from(cells, dir, start)[n] \in Position
         /\ start # None => ~Before(find_checkpoint_positions_from(cells, dir, start)[n], start)
         /\ Expected(n) = { p \in RecordsOf(cells, dir, n) :
                              ~Before(p, find_checkpoint_positions_from(cells, dir, start)[n]) }
<1> DEFINE C == CheckpointsOf(cells, dir, n)
           S == { p \in C : start # None => ~Before(p, start) }
           m == Latest(S)
           b == [s \in SegIds |-> Len(cells[s])]
<1>0. n \in Nodes
  BY DEF ActiveNodes
<1>1. find_checkpoint_positions_from(cells, dir, start)[n] = m
  BY <1>0 DEF find_checkpoint_positions_from
<1>2. /\ RecordsOf(cells, dir, n) = { p \in RecordsOf(cells, SegIds, n) : p.seg \in dir }
      /\ C = { p \in CheckpointsOf(cells, SegIds, n) : p.seg \in dir }
      /\ C \subseteq RecordsOf(cells, dir, n)
      /\ RecordsOf(cells, dir, n) \subseteq Position
      /\ \A p \in RecordsOf(cells, dir, n) : p.off <= Len(cells[p.seg])
  BY RecordTypes DEF IInv, TypeOK
<1>3. /\ RecordsOf(cells, SegIds, n) \subseteq Position
      /\ CheckpointsOf(cells, SegIds, n) \subseteq RecordsOf(cells, SegIds, n)
  BY RecordTypes DEF IInv
<1>4. b \in [SegIds -> Nat]
  BY DEF IInv, TypeOK
<1>5. S \in SUBSET Position /\ h \in S /\ \A p \in S : p.off <= b[p.seg]
  BY <1>2 DEF Position
<1>6. m \in S /\ \A q \in S : ~Before(m, q)
  <2> HIDE DEF S, b
  <2> QED BY <1>4, <1>5, LatestExists
<1>7. m \in Position /\ m \in C /\ (start # None => ~Before(m, start))
  BY <1>2, <1>6
<1> HIDE DEF m
<1>8. ASSUME NEW q \in C
      PROVE  ~Before(m, q)
  <2>1. CASE q \in S
    BY <1>6, <2>1
  <2>2. CASE q \notin S
    <3>1. start # None /\ Before(q, start)
      BY <2>2
    <3>2. start \in Position /\ q \in Position
      BY <1>2, <3>1
    <3>3. ~Before(start, q)
      BY <3>1, <3>2, BeforeIsOrder
    <3> QED BY <1>7, <3>1, <3>2, <3>3, NotBeforeTransitive
  <2> QED BY <2>1, <2>2
<1> HIDE DEF S
<1>9. ASSUME NEW p \in RecordsOf(cells, SegIds, n), p.seg \notin dir
      PROVE  Before(p, m)
  <2>1. PICK q \in C : Before(p, q)
    BY <1>9, LostIsSuperseded
  <2>2. p \in Position /\ q \in Position
    BY <1>2, <1>3
  <2>3. ~Before(m, q)
    BY <1>8
  <2> QED BY <1>7, <2>1, <2>2, <2>3, BeforeIsOrder
<1>10. ASSUME NEW q \in CheckpointsOf(cells, SegIds, n)
       PROVE  ~Before(m, q)
  <2>1. CASE q.seg \in dir
    BY <1>2, <1>8, <2>1
  <2>2. CASE q.seg \notin dir
    BY <1>3, <1>7, <1>9, <2>2, BeforeIsOrder
  <2> QED BY <2>1, <2>2
<1>11. ASSUME NEW p \in RecordsOf(cells, SegIds, n)
       PROVE  (\A q \in CheckpointsOf(cells, SegIds, n) : ~Before(p, q)) <=> ~Before(p, m)
  <2>1. (\A q \in CheckpointsOf(cells, SegIds, n) : ~Before(p, q)) => ~Before(p, m)
    BY <1>2, <1>7
  <2>2. ASSUME ~Before(p, m), NEW q \in CheckpointsOf(cells, SegIds, n)
        PROVE  ~Before(p, q)
    BY <1>3, <1>7, <1>10, <2>2, NotBeforeTransitive
  <2> QED BY <2>1, <2>2
<1>12. Expected(n) = { p \in RecordsOf(cells, dir, n) : ~Before(p, m) }
  BY <1>2, <1>9, <1>11 DEF Expected
<1> QED BY <1>1, <1>7, <1>12

\* replay_node_state from an index entry, or without one.
LEMMA ReplayNode ==
  ASSUME IInv, NEW n \in ActiveNodes(nodes_json), NEW hint \in CheckpointsOf(cells, dir, n) \cup {None}
  PROVE  replay_node_state(cells, dir, n, hint) = Expected(n)
<1> DEFINE C == CheckpointsOf(cells, dir, n)
<1>0. n \in Nodes /\ C \subseteq Position
  BY RecordTypes DEF ActiveNodes, IInv, TypeOK
<1>1. CASE C = {}
  <2>1. hint = None /\ find_checkpoint_positions_from(cells, dir, hint)[n] = None
    BY <1>0, <1>1 DEF find_checkpoint_positions_from, Latest
  <2> QED BY <1>1, <2>1, NoCheckpointLeft DEF replay_node_state
<1>2. CASE C # {}
  <2>1. PICK h \in C : hint # None => h = hint
    BY <1>2
  <2>2. hint # None => ~Before(h, hint)
    BY <1>0, <2>1, BeforeIsOrder
  <2>3. /\ find_checkpoint_positions_from(cells, dir, hint)[n] \in Position
        /\ Expected(n) = { p \in RecordsOf(cells, dir, n) :
                             ~Before(p, find_checkpoint_positions_from(cells, dir, hint)[n]) }
    BY <1>0, <2>1, <2>2, NewestCheckpoint
  <2>4. find_checkpoint_positions_from(cells, dir, hint)[n] # None
    BY <2>3, NoneAssumption
  <2> QED BY <2>3, <2>4 DEF replay_node_state
<1> QED BY <1>1, <1>2

\* Between calls, the index entry of an active node is one of its checkpoints.
LEMMA EntryIsCheckpoint ==
  ASSUME IInv, pc = "idle", NEW n \in ActiveNodes(registry)
  PROVE  /\ n \in ActiveNodes(nodes_json)
         /\ checkpoint_index[n] \in CheckpointsOf(cells, dir, n) \cup {None}
         /\ checkpoint_index[n] # None => IsRecord(cells, checkpoint_index[n])
<1>0. n \in Nodes /\ registry[n] = "active" /\ pc \in Loaded
  BY DEF ActiveNodes, Loaded, Recovered, Locations
<1>1. nodes_json = registry
  BY <1>0 DEF IInv, AgreeInv
<1>2. checkpoint_index[n] # None => GoodEntry(n, checkpoint_index[n]) /\ checkpoint_index[n] \in Position
  BY <1>0 DEF IInv, IndexInv, TypeOK, CheckpointIndex
<1>3. cells \in [SegIds -> Seq(Cell)] /\ dir \in SUBSET SegIds
  BY DEF IInv, TypeOK
<1> QED BY <1>1, <1>2, <1>3, ValidIsCheckpoint DEF GoodEntry, validate_checkpoint_position

-------------------------------------------------------------------------------
\* load(n) of an open engine succeeds and rebuilds exactly the state of n:
\* the records from its newest checkpoint on, whether or not that checkpoint
\* is the one in the index and whatever has been garbage collected.
THEOREM LoadIsCorrect == Spec => []LoadCorrect
<1>1. IInv => LoadCorrect
  <2> SUFFICES ASSUME IInv, pc = "idle", NEW n \in ActiveNodes(registry)
               PROVE  /\ ~scan_fails(cells, tail, dir, active_segment, checkpoint_index[n])
                      /\ replay_node_state(cells, dir, n, checkpoint_index[n]) = Expected(n)
    BY DEF LoadCorrect
  <2>1. replay_node_state(cells, dir, n, checkpoint_index[n]) = Expected(n)
    BY EntryIsCheckpoint, ReplayNode
  <2>2. \A s \in dir : s <= active_segment /\ s \in Nat
    BY SegmentIdAssumption DEF IInv, DirInv, LastSegment, Rotating, Recovered, Locations, TypeOK, SegIds
  <2>3. \A s \in dir : s # active_segment => Complete(cells, tail, s)
    <3>1. active_segment \in Nat
      BY SegmentIdAssumption DEF IInv, TypeOK, SegIds
    <3>2. \A s \in dir : s # active_segment => s < active_segment
      BY <2>2, <3>1
    <3> QED BY <3>2 DEF IInv, CompleteInv, Recovered, Locations
  <2>4. checkpoint_index[n] # None =>
          /\ checkpoint_index[n].off \in Nat
          /\ checkpoint_index[n].off < Len(cells[checkpoint_index[n].seg])
    <3>1. n \in Nodes
      BY DEF ActiveNodes
    <3>2. checkpoint_index[n] # None => checkpoint_index[n].off \in Nat
      BY <3>1 DEF IInv, TypeOK, CheckpointIndex, Position
    <3> QED BY <3>2, EntryIsCheckpoint DEF IsRecord
  <2>5. \A s \in dir : Len(cells[s]) \in Nat
    BY DEF IInv, TypeOK
  <2>6. ~scan_fails(cells, tail, dir, active_segment, checkpoint_index[n])
    BY <2>3, <2>4, <2>5 DEF scan_fails
  <2> QED BY <2>1, <2>6
<1> QED BY <1>1, Invariance, PTL

\* load_all, which replays from the oldest index entry and corrects the
\* entries by a scan, or replays everything if an entry is missing, gives
\* every active node the same state as load.
THEOREM LoadAllIsCorrect == Spec => []LoadAllCorrect
<1>1. IInv => LoadAllCorrect
  <2> SUFFICES ASSUME IInv, pc = "idle", ActiveNodes(registry) # {}
               PROVE  replay_storage_dir(cells, dir, ActiveNodes(registry), checkpoint_index)
                        = [n \in ActiveNodes(registry) |-> Expected(n)]
    BY DEF LoadAllCorrect
  <2> DEFINE targets == ActiveNodes(registry)
             hints == { checkpoint_index[n] : n \in targets }
             start == Earliest(hints)
             positions == extended_hints(cells, dir, targets, checkpoint_index)
  <2>1. CASE \E n \in targets : checkpoint_index[n] = None
    <3>1. \A n \in targets : replay_node_state(cells, dir, n, None) = Expected(n)
      BY EntryIsCheckpoint, ReplayNode
    <3> QED BY <2>1, <3>1 DEF replay_storage_dir
  <2>2. CASE \A n \in targets : checkpoint_index[n] # None
    <3>1. \A n \in targets : checkpoint_index[n] \in CheckpointsOf(cells, dir, n)
      BY <2>2, EntryIsCheckpoint
    <3>2. \A n \in targets : CheckpointsOf(cells, dir, n) \subseteq Position
      BY RecordTypes DEF IInv, TypeOK
    <3>3. hints \in SUBSET Position /\ hints # {}
      BY <3>1, <3>2
    <3>4. start \in Position /\ \A n \in targets : ~Before(checkpoint_index[n], start)
      <4>1. start \in hints /\ \A q \in hints : ~Before(q, start)
        <5> HIDE DEF hints
        <5> QED BY <3>3, EarliestExists
      <4> QED BY <3>3, <4>1
    <3> HIDE DEF start
    <3>5. ASSUME NEW n \in targets
          PROVE  /\ positions[n] \in Position
                 /\ ~Before(positions[n], start)
                 /\ Expected(n) = { p \in RecordsOf(cells, dir, n) : ~Before(p, positions[n]) }
      <4> DEFINE found == find_checkpoint_positions_from(cells, dir, start)[n]
      <4>1. n \in ActiveNodes(nodes_json)
        BY EntryIsCheckpoint
      <4>2. /\ found \in Position
            /\ start # None => ~Before(found, start)
            /\ Expected(n) = { p \in RecordsOf(cells, dir, n) : ~Before(p, found) }
        BY <3>1, <3>4, <4>1, NewestCheckpoint
      <4>3. found # None /\ start # None
        BY <3>4, <4>2, NoneAssumption
      <4>4. positions[n] = found
        BY <4>3 DEF extended_hints, start
      <4> QED BY <4>2, <4>3, <4>4
    <3>6. ASSUME NEW n \in targets
          PROVE  { p \in RecordsOf(cells, dir, n) : p.seg >= start.seg /\ ~Before(p, positions[n]) } = Expected(n)
      <4>1. RecordsOf(cells, dir, n) \subseteq Position
        BY RecordTypes DEF IInv, TypeOK
      <4>2. ASSUME NEW p \in RecordsOf(cells, dir, n), ~Before(p, positions[n])
            PROVE  p.seg >= start.seg
        <5>1. ~Before(p, start)
          BY <3>4, <3>5, <4>1, <4>2, NotBeforeTransitive
        <5>2. p.seg \in Nat /\ start.seg \in Nat
          BY <3>4, <4>1, SegmentIdAssumption DEF Position, SegIds
        <5> QED BY <5>1, <5>2 DEF Before
      <4> QED BY <3>5, <4>2
    <3>7. replay_storage_dir(cells, dir, targets, checkpoint_index)
            = [n \in targets |-> { p \in RecordsOf(cells, dir, n) :
                                     p.seg >= start.seg /\ ~Before(p, positions[n]) }]
      BY <2>2 DEF replay_storage_dir, start
    <3> QED BY <3>6, <3>7
  <2> QED BY <2>1, <2>2
<1> QED BY <1>1, Invariance, PTL
===============================================================================
