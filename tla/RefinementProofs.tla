--------------------------- MODULE RefinementProofs ---------------------------
(***************************************************************************)
(* StorageEngine implements NodeStore, for every value of the constants    *)
(* and for every sequence of faults in which process crashes and power     *)
(* losses do not mix.                                                      *)
(***************************************************************************)
EXTENDS DurabilityProofs, StorageRefinement

USE DEF HeaderLen

-------------------------------------------------------------------------------
(***************************************************************************)
(* A segment has room for what is written to it.                           *)
(***************************************************************************)

\* A segment is never longer than max_segment_len, in cells.
Fits == \A s \in SegIds : Len(cells[s]) <= MaxSegmentLen

LEMMA WriteAllFits ==
  ASSUME TypeOK, Fits, NEW s \in SegIds, NEW c \in Cell, write_all(s, c), Len(cells[s]) < MaxSegmentLen
  PROVE  Fits'
<1>1. \A t \in SegIds : Len(cells[t]) \in Nat
  BY DEF TypeOK
<1>2. Len(cells'[s]) = Len(cells[s]) + 1 /\ \A t \in SegIds : t # s => cells'[t] = cells[t]
  BY WriteAllEffect
<1>3. Len(cells'[s]) <= MaxSegmentLen
  BY <1>1, <1>2, SegmentLenAssumption
<1> QED BY <1>2, <1>3 DEF Fits

\* A header is only written to an empty file.
LEMMA HeaderFits ==
  ASSUME TypeOK, Fits, NEW s \in SegIds, write_all(s, Header), cells[s] = <<>>
  PROVE  Fits'
<1>1. Len(cells[s]) = 0
  OBVIOUS
<1>2. Len(cells[s]) < MaxSegmentLen
  BY <1>1, SegmentLenAssumption
<1> QED BY <1>2, HeaderType, WriteAllFits

LEMMA RoomStep ==
  ASSUME IInv, RoomInv, [Next]_vars
  PROVE  RoomInv'
<1> USE DEF content, segments, metadata, memory, writer, call
<1>i. TypeOK /\ DirInv /\ LenInv /\ OpInv /\ active_segment \in SegIds /\ Fits
  BY DEF IInv, TypeOK, RoomInv, Fits
<1>1. Fits'
  <2>1. CASE OpenExisting
    <3>1. CASE cells[active_segment] = <<>>
      BY <1>i, <2>1, <3>1, HeaderFits DEF OpenExisting
    <3>2. CASE cells[active_segment] # <<>>
      BY <1>i, <2>1, <3>2 DEF OpenExisting, Fits
    <3> QED BY <3>1, <3>2
  <2>2. CASE OpenMagic
    <3>1. cells[active_segment] = <<>> /\ write_all(active_segment, Header)
      BY <1>i, <2>2 DEF OpenMagic, LenInv
    <3> QED BY <1>i, <3>1, HeaderFits
  <2>3. CASE RotateMagic
    <3>1. active_segment + 1 \in SegIds
      BY <1>i, <2>3 DEF RotateMagic, DirInv, Rotating, TypeOK
    <3>2. cells[active_segment + 1] = <<>> /\ write_all(active_segment + 1, Header)
      BY <1>i, <2>3 DEF RotateMagic, LenInv
    <3> QED BY <1>i, <3>1, <3>2, HeaderFits
  <2>4. CASE Write
    <3>1. Len(cells[active_segment]) < MaxSegmentLen
      BY <1>i, <2>4 DEF Write, RoomInv, LenInv, Ready, Loaded, Recovered, Locations
    <3>2. [node |-> op.node, checkpoint |-> op.kind # "save_record"] \in Cell
      BY <1>i, <2>4 DEF Write, OpInv, Cell
    <3> QED BY <1>i, <2>4, <3>1, <3>2, WriteAllFits DEF Write
  <2>5. CASE PowerLoss
    <3>1. \A s \in SegIds : Len(cells'[s]) = synced'[s] /\ synced'[s] <= Len(cells[s])
      BY <1>i, <2>5, PowerLossEffect
    <3>2. TypeOK'
      BY <1>i, TypeStep
    <3>3. \A s \in SegIds : synced'[s] \in Nat /\ Len(cells[s]) \in Nat
      BY <1>i, <3>2 DEF TypeOK
    <3> QED BY <1>i, <3>1, <3>3, SegmentLenAssumption DEF Fits
  <2>6. CASE cells' = cells
    BY <1>i, <2>6 DEF Fits
  <2> QED
    BY <2>1, <2>2, <2>3, <2>4, <2>5, <2>6
    DEF Next, Open, Begin, Proceed, AppendSteps, Fault, OpenRecover, OpenLoad, OpenCreate,
        OpenDir, CreateNode, SaveRecord, SaveSnapshot, RemoveNode, Sync, RotateSync, RotateFails,
        RotateCreate, RotateDir, AppendSync, SyncCall, WriterSync, sync_data, IndexReplace, IndexDir,
        RegistryReplace, RegistryDir, GcStart, GcDelete, GcDir, Return, Close, ProcessCrash, LoseIndex, vars
<1>2. (pc = "write" => segment_len < MaxSegmentLen)'
  <2>t. segment_len \in Nat
    BY <1>i DEF TypeOK
  <2>1. CASE \E n \in Nodes : CreateNode(n) \/ SaveRecord(n) \/ SaveSnapshot(n)
    <3>1. segment_len' = segment_len /\ \E rotate \in should_rotate : pc' = IF rotate THEN "rotate_sync" ELSE "write"
      BY <2>1 DEF CreateNode, SaveRecord, SaveSnapshot, BeginAppend
    <3>2. segment_len >= MaxSegmentLen => ~(segment_len <= HeaderLen)
      BY <2>t, SegmentLenAssumption
    <3>3. segment_len >= MaxSegmentLen => pc' = "rotate_sync"
      BY <3>1, <3>2, Zenon DEF should_rotate
    <3> QED BY <2>t, <3>1, <3>3, SegmentLenAssumption
  <2>2. CASE RotateDir
    BY <2>2, SegmentLenAssumption DEF RotateDir
  <2>3. CASE pc' = pc /\ segment_len' = segment_len
    BY <2>3 DEF RoomInv
  <2>4. CASE pc' # "write"
    BY <2>4
  <2> QED
    BY <2>1, <2>2, <2>3, <2>4
    DEF Next, Open, Begin, Proceed, AppendSteps, Fault, OpenRecover, OpenLoad, OpenExisting, OpenCreate,
        OpenMagic, OpenDir, RemoveNode, Sync, RotateSync, RotateFails,
        RotateCreate, RotateMagic, Write, AppendSync, SyncCall, IndexReplace, IndexDir,
        RegistryReplace, RegistryDir, GcStart, GcDelete, GcDir, Return, Close, ProcessCrash, PowerLoss, LoseIndex,
        NoEngine, vars
<1>3. (/\ op.kind \in {"save_record", "save_snapshot"}
       /\ pc \in {"rotate_sync", "rotate_create", "rotate_magic", "rotate_dir", "write"}
       => registry[op.node] = "active")'
  <2>1. CASE \E n \in Nodes : CreateNode(n) \/ SaveRecord(n) \/ SaveSnapshot(n)
    BY <2>1 DEF CreateNode, SaveRecord, SaveSnapshot, BeginAppend
  <2>2. CASE UNCHANGED <<op, registry>> /\ (pc' = pc \/ RotateSync \/ RotateCreate \/ RotateMagic \/ RotateDir)
    BY <2>2 DEF RoomInv, RotateSync, RotateCreate, RotateMagic, RotateDir
  <2>3. CASE pc' \notin {"rotate_sync", "rotate_create", "rotate_magic", "rotate_dir", "write"}
    BY <2>3
  <2> QED
    BY <2>1, <2>2, <2>3
    DEF Next, Open, Begin, Proceed, AppendSteps, Fault, OpenRecover, OpenLoad, OpenExisting, OpenCreate,
        OpenMagic, OpenDir, RemoveNode, Sync, RotateSync, RotateFails,
        RotateCreate, RotateMagic, RotateDir, Write, AppendSync, SyncCall, IndexReplace, IndexDir,
        RegistryReplace, RegistryDir, GcStart, GcDelete, GcDir, Return, Close, ProcessCrash, PowerLoss, LoseIndex,
        NoEngine, vars
<1>4. (op.kind = "remove_node" /\ pc = "registry_replace" => registry[op.node] = "active")'
  <2>1. CASE \E n \in Nodes : RemoveNode(n)
    BY <2>1 DEF RemoveNode
  <2>2. CASE IndexDir
    BY <2>2 DEF IndexDir
  <2>3. CASE UNCHANGED <<op, registry, pc>>
    BY <2>3 DEF RoomInv
  <2>4. CASE pc' # "registry_replace"
    BY <2>4
  <2> QED
    BY <2>1, <2>2, <2>3, <2>4
    DEF Next, Open, Begin, Proceed, AppendSteps, Fault, OpenRecover, OpenLoad, OpenExisting, OpenCreate,
        OpenMagic, OpenDir, CreateNode, SaveRecord, SaveSnapshot, BeginAppend, Sync, RotateSync, RotateFails,
        RotateCreate, RotateMagic, RotateDir, Write, AppendSync, SyncCall, IndexReplace,
        RegistryReplace, RegistryDir, GcStart, GcDelete, GcDir, Return, Close, ProcessCrash, PowerLoss, LoseIndex,
        NoEngine, vars
<1> QED BY <1>1, <1>2, <1>3, <1>4 DEF RoomInv, Fits

LEMMA RoomInvariance == Spec => []RoomInv
<1>1. Init => RoomInv
  <2> SUFFICES ASSUME Init
               PROVE  RoomInv
    OBVIOUS
  <2>1. \A s \in SegIds : Len(cells[s]) = 0
    BY DEF Init
  <2>2. \A s \in SegIds : Len(cells[s]) <= MaxSegmentLen
    BY <2>1, SegmentLenAssumption
  <2> QED BY <2>2 DEF Init, RoomInv, NoOp
<1>2. IInv /\ RoomInv /\ [Next]_vars => RoomInv'
  BY RoomStep
<1> QED BY <1>1, <1>2, Invariance, PTL DEF Spec

-------------------------------------------------------------------------------
(***************************************************************************)
(* The refinement mapping.                                                 *)
(***************************************************************************)

\* The abstract log ...
Log == [p \in RecordsIn(cells, SegIds) |-> CellAt(cells, p)]

\* ... its durable places ...
DurablePlaces ==
  { p \in RecordsIn(cells, SegIds) : p.off < synced[p.seg] /\ p.seg \notin dir \ dir_durable }

\* ... and what a full replay gives for each active node.
Loads ==
  [n \in Nodes |-> IF nodes_json[n] = "active" THEN replay_node_state(cells, dir, n, None) ELSE {}]

\* load finds the abstract state of each active node, although collected
\* segments are in the log and not in the directory.
LEMMA LoadsIsState ==
  IInv => Loads = [n \in Nodes |-> IF nodes_json[n] = "active" THEN Store!StateIn(Log, n) ELSE {}]
<1> SUFFICES ASSUME IInv
             PROVE  Loads = [n \in Nodes |-> IF nodes_json[n] = "active" THEN Store!StateIn(Log, n) ELSE {}]
  OBVIOUS
<1>1. ASSUME NEW n \in Nodes, nodes_json[n] = "active"
      PROVE  replay_node_state(cells, dir, n, None) = Store!StateIn(Log, n)
  <2>1. replay_node_state(cells, dir, n, None) = Expected(n)
    BY <1>1, ReplayNode DEF ActiveNodes
  <2>2. DOMAIN Log = RecordsIn(cells, SegIds) /\ \A p \in RecordsIn(cells, SegIds) : Log[p] = CellAt(cells, p)
    BY DEF Log
  <2>3. Expected(n) = Store!StateIn(Log, n)
    BY <2>2, Zenon DEF Expected, Store!StateIn, RecordsOf, CheckpointsOf
  <2> QED BY <2>1, <2>3
<1> QED BY <1>1, Zenon DEF Loads

LEMMA VisibleAfterStep ==
  ASSUME IInv'
  PROVE  Store!Visible
<1>1. (IInv => Loads = [n \in Nodes |-> IF nodes_json[n] = "active" THEN Store!StateIn(Log, n) ELSE {}])'
  BY LoadsIsState, PTL
<1> QED BY <1>1 DEF Store!Visible, Loads, Log

\* A step that keeps the log and the registry, and takes no place from the
\* durable ones, is a step Harden.
LEMMA KeepingIsHarden ==
  ASSUME IInv, IInv', Log' = Log, nodes_json' = nodes_json, DurablePlaces \subseteq DurablePlaces',
         nodes_json_durable' \in {nodes_json_durable, nodes_json}
  PROVE  Store!Harden
<1>1. Loads' = Loads
  <2>1. (IInv => Loads = [n \in Nodes |-> IF nodes_json[n] = "active" THEN Store!StateIn(Log, n) ELSE {}])'
    BY LoadsIsState, PTL
  <2>2. Loads = [n \in Nodes |-> IF nodes_json[n] = "active" THEN Store!StateIn(Log, n) ELSE {}]
    BY LoadsIsState
  <2> QED BY <2>1, <2>2
<1>2. DurablePlaces' \subseteq DOMAIN Log'
  BY DEF DurablePlaces, Log
<1> QED BY <1>1, <1>2 DEF Store!Harden, Log, Loads, DurablePlaces

\* What is in the log: the records of all segments, wherever the directory
\* lists them.
LEMMA LogPlaces ==
  TypeOK =>
    /\ RecordsIn(cells, SegIds) = { p \in Position : IsRecord(cells, p) }
    /\ DOMAIN Log = { p \in Position : IsRecord(cells, p) }
    /\ \A p \in DOMAIN Log : Log[p] = CellAt(cells, p)
    /\ DurablePlaces = { p \in Position : /\ IsRecord(cells, p)
                                          /\ p.off < synced[p.seg]
                                          /\ p.seg \notin dir \ dir_durable }
<1> SUFFICES ASSUME TypeOK
             PROVE  /\ RecordsIn(cells, SegIds) = { p \in Position : IsRecord(cells, p) }
                    /\ DOMAIN Log = { p \in Position : IsRecord(cells, p) }
                    /\ \A p \in DOMAIN Log : Log[p] = CellAt(cells, p)
                    /\ DurablePlaces = { p \in Position : /\ IsRecord(cells, p)
                                                          /\ p.off < synced[p.seg]
                                                          /\ p.seg \notin dir \ dir_durable }
  OBVIOUS
<1>1. cells \in [SegIds -> Seq(Cell)]
  BY DEF TypeOK
<1>2. \A q : q \in RecordsIn(cells, SegIds) <=> q \in Position /\ q.seg \in SegIds /\ IsRecord(cells, q)
  BY <1>1, RecordIsPosition
<1>3. RecordsIn(cells, SegIds) = { p \in Position : IsRecord(cells, p) }
  BY <1>2 DEF Position
<1> QED BY <1>3 DEF Log, DurablePlaces

\* The magic of a segment is not a record.
LEMMA HeaderKeepsLog ==
  ASSUME TypeOK, TypeOK', NEW s \in SegIds, write_all(s, Header), cells[s] = <<>>,
         UNCHANGED <<dir, dir_durable>>
  PROVE  Log' = Log /\ DurablePlaces' = DurablePlaces
<1>r. (TypeOK =>
        /\ RecordsIn(cells, SegIds) = { p \in Position : IsRecord(cells, p) }
        /\ DOMAIN Log = { p \in Position : IsRecord(cells, p) }
        /\ \A p \in DOMAIN Log : Log[p] = CellAt(cells, p)
        /\ DurablePlaces = { p \in Position : /\ IsRecord(cells, p)
                                              /\ p.off < synced[p.seg]
                                              /\ p.seg \notin dir \ dir_durable })'
  BY LogPlaces, PTL
<1>1. Len(cells[s]) = 0
  OBVIOUS
<1>2. Len(cells'[s]) = 1 /\ \A t \in SegIds : t # s => cells'[t] = cells[t]
  <2>1. Len(cells'[s]) = Len(cells[s]) + 1 /\ \A t \in SegIds : t # s => cells'[t] = cells[t]
    BY HeaderType, WriteAllEffect
  <2> QED BY <1>1, <2>1
<1>3. \A p \in Position : p.seg \in SegIds /\ p.off \in Nat
  BY DEF Position
<1>4. \A p \in Position : IsRecord(cells', p) <=> IsRecord(cells, p)
  <2> SUFFICES ASSUME NEW p \in Position
               PROVE  IsRecord(cells', p) <=> IsRecord(cells, p)
    OBVIOUS
  <2>1. CASE p.seg = s
    <3>1. \A o \in Nat : ~(o >= 1 /\ o < 0) /\ ~(o >= 1 /\ o < 1)
      OBVIOUS
    <3> QED BY <1>1, <1>2, <1>3, <2>1, <3>1 DEF IsRecord
  <2>2. CASE p.seg # s
    BY <1>2, <1>3, <2>2 DEF IsRecord
  <2> QED BY <2>1, <2>2
<1>5. \A p \in Position : IsRecord(cells, p) => CellAt(cells', p) = CellAt(cells, p)
  BY <1>1, <1>2, <1>3 DEF IsRecord, CellAt
<1>6. synced' = synced
  BY DEF write_all
<1>7. RecordsIn(cells', SegIds) = RecordsIn(cells, SegIds)
  BY <1>r, <1>4, LogPlaces
<1>8. \A p \in RecordsIn(cells, SegIds) : CellAt(cells', p) = CellAt(cells, p)
  BY <1>5, LogPlaces
<1>9. Log' = Log
  BY <1>7, <1>8, Zenon DEF Log
<1>10. DurablePlaces' = DurablePlaces
  BY <1>r, <1>4, <1>6, LogPlaces
<1> QED BY <1>9, <1>10

\* A step that keeps the cells and takes away neither synchronized cells nor
\* durable names, except by deleting a segment, keeps the durable places.
LEMMA DurableGrows ==
  ASSUME TypeOK, TypeOK', cells' = cells, \A s \in SegIds : synced[s] <= synced'[s],
         \A s \in dir' \ dir_durable' : s \in dir \ dir_durable \/ cells[s] = <<>>
  PROVE  Log' = Log /\ DurablePlaces \subseteq DurablePlaces'
<1>1. Log' = Log
  BY DEF Log
<1>2. ASSUME NEW p \in DurablePlaces
      PROVE  p \in DurablePlaces'
  <2>1. p \in Position /\ IsRecord(cells, p) /\ p \in RecordsIn(cells, SegIds)
        /\ p.off < synced[p.seg] /\ p.seg \notin dir \ dir_durable
    BY <1>2, LogPlaces
  <2>2. p.seg \in SegIds /\ p.off \in Nat
    BY <2>1 DEF Position
  <2>3. cells[p.seg] # <<>>
    BY <2>1, <2>2 DEF IsRecord
  <2>4. p.off < synced'[p.seg]
    BY <2>1, <2>2 DEF TypeOK
  <2>5. p \in RecordsIn(cells', SegIds)
    BY <2>1
  <2> QED BY <2>1, <2>3, <2>4, <2>5 DEF DurablePlaces
<1> QED BY <1>1, <1>2

-------------------------------------------------------------------------------
(***************************************************************************)
(* One lemma for each kind of step.                                        *)
(***************************************************************************)

\* The engine's steps that neither write a record nor replace nodes.json,
\* and the end of its process: opening, recovery, rotation, sync, the index
\* and garbage collection.
LEMMA OtherStepsHarden ==
  ASSUME IInv, IInv', [Next]_vars, ~Write, ~RegistryReplace, ~PowerLoss
  PROVE  Store!Harden
<1> USE DEF content, segments, metadata
<1>i. TypeOK /\ DirInv /\ LenInv /\ GoneInv /\ TypeOK' /\ active_segment \in SegIds
  BY DEF IInv, TypeOK
<1>t. SegIds \subseteq Nat /\ dir \subseteq SegIds /\ \A s \in SegIds : synced[s] \in Nat
  <2>1. SegIds \subseteq Nat
    BY SegmentIdAssumption DEF SegIds
  <2> QED BY <1>i, <2>1 DEF TypeOK
<1>1. nodes_json' = nodes_json /\ nodes_json_durable' \in {nodes_json_durable, nodes_json}
  BY DEF Next, Open, Begin, Proceed, AppendSteps, Fault, OpenRecover, OpenLoad, OpenExisting, OpenCreate,
     OpenMagic, OpenDir, CreateNode, SaveRecord, SaveSnapshot, RemoveNode, Sync, RotateSync, RotateFails,
     RotateCreate, RotateMagic, RotateDir, AppendSync, SyncCall, WriterSync, IndexReplace, IndexDir,
     RegistryDir, GcStart, GcDelete, GcDir, Return, Close, ProcessCrash, LoseIndex, sync_dir, vars
<1>2. Log' = Log /\ DurablePlaces \subseteq DurablePlaces'
  <2>1. CASE OpenExisting /\ cells[active_segment] = <<>>
    BY <1>i, <2>1, HeaderKeepsLog DEF OpenExisting
  <2>2. CASE OpenMagic
    <3>1. cells[active_segment] = <<>> /\ write_all(active_segment, Header)
      BY <1>i, <2>2 DEF OpenMagic, LenInv
    <3> QED BY <1>i, <2>2, <3>1, HeaderKeepsLog DEF OpenMagic
  <2>3. CASE RotateMagic
    <3>1. active_segment + 1 \in SegIds
      BY <1>i, <2>3 DEF RotateMagic, DirInv, Rotating, TypeOK
    <3>2. cells[active_segment + 1] = <<>> /\ write_all(active_segment + 1, Header)
      BY <1>i, <2>3 DEF RotateMagic, LenInv
    <3> QED BY <1>i, <2>3, <3>1, <3>2, HeaderKeepsLog DEF RotateMagic
  <2>4. CASE OpenCreate
    <3>1. dir = {} /\ active_segment \notin dir
      BY <1>i, <2>4 DEF OpenCreate, DirInv
    <3>2. cells[active_segment] = <<>>
      BY <1>i, <3>1, BeyondIsEmpty
    <3>3. cells' = cells /\ synced' = synced /\ dir' = dir \cup {active_segment} /\ dir_durable' = dir_durable
      BY <2>4 DEF OpenCreate
    <3>4. \A s \in SegIds : synced[s] <= synced'[s]
      BY <1>t, <3>3
    <3>5. \A s \in dir' \ dir_durable' : s \in dir \ dir_durable \/ cells[s] = <<>>
      BY <3>2, <3>3
    <3> QED BY <1>i, <3>3, <3>4, <3>5, DurableGrows
  <2>5. CASE RotateCreate
    <3>1. active_segment + 1 \in SegIds /\ active_segment + 1 \notin dir
      BY <1>i, <2>5, SegmentIdAssumption DEF RotateCreate, SegIds
    <3>2. \A t \in dir : t < active_segment + 1
      <4>1. \A t \in dir : t <= active_segment
        BY <1>i, <2>5 DEF RotateCreate, DirInv, LastSegment, Rotating, Recovered, Locations
      <4> QED BY <1>i, <1>t, <4>1
    <3>3. cells[active_segment + 1] = <<>>
      BY <1>i, <3>1, <3>2, BeyondIsEmpty
    <3>4. cells' = cells /\ synced' = synced /\ dir' = dir \cup {active_segment + 1} /\ dir_durable' = dir_durable
      BY <2>5 DEF RotateCreate
    <3>5. \A s \in SegIds : synced[s] <= synced'[s]
      BY <1>t, <3>4
    <3>6. \A s \in dir' \ dir_durable' : s \in dir \ dir_durable \/ cells[s] = <<>>
      BY <3>3, <3>4
    <3> QED BY <1>i, <3>4, <3>5, <3>6, DurableGrows
  <2>6. CASE RotateSync \/ AppendSync \/ SyncCall
    <3>1. UNCHANGED <<dir, dir_durable>>
      BY <2>6 DEF RotateSync, AppendSync, SyncCall, WriterSync
    <3>2. cells' = cells /\ \A s \in SegIds : synced[s] <= synced'[s]
      <4>1. CASE RotateSync
        BY <1>i, <4>1, SyncDataEffect DEF RotateSync
      <4>2. CASE AppendSync \/ SyncCall
        BY <1>i, <4>2, WriterSyncEffect DEF AppendSync, SyncCall
      <4> QED BY <2>6, <4>1, <4>2
    <3> QED BY <1>i, <3>1, <3>2, DurableGrows
  <2>7. CASE /\ UNCHANGED <<cells, synced>>
             /\ \/ UNCHANGED <<dir, dir_durable>>
                \/ dir' = dir /\ dir_durable' = dir
                \/ dir' \subseteq dir /\ dir_durable' = dir_durable
    <3>1. \A s \in SegIds : synced[s] <= synced'[s]
      BY <1>t, <2>7
    <3>2. \A s \in dir' \ dir_durable' : s \in dir \ dir_durable \/ cells[s] = <<>>
      BY <2>7
    <3> QED BY <1>i, <2>7, <3>1, <3>2, DurableGrows
  <2> QED
    BY <2>1, <2>2, <2>3, <2>4, <2>5, <2>6, <2>7
    DEF Next, Open, Begin, Proceed, AppendSteps, Fault, OpenRecover, OpenLoad, OpenExisting,
        OpenDir, CreateNode, SaveRecord, SaveSnapshot, RemoveNode, Sync, RotateFails,
        RotateDir, IndexReplace, IndexDir, RegistryDir, GcStart, GcDelete, GcDir, Return, Close, ProcessCrash,
        LoseIndex, sync_dir, vars
<1> QED BY <1>1, <1>2, KeepingIsHarden

\* Write adds the record behind all others: no segment after the active one
\* has a record, not even one that was collected.
LEMMA WriteAppends ==
  ASSUME IInv, IInv', CInv, RoomInv, Write
  PROVE  \E p \in WrittenPositions, record \in Store!Record : Store!Append(p, record)
<1> DEFINE new == [seg |-> active_segment, off |-> segment_len]
           record == [node |-> op.node, checkpoint |-> op.kind # "save_record"]
<1>r. (TypeOK =>
        /\ RecordsIn(cells, SegIds) = { p \in Position : IsRecord(cells, p) }
        /\ DOMAIN Log = { p \in Position : IsRecord(cells, p) }
        /\ \A p \in DOMAIN Log : Log[p] = CellAt(cells, p)
        /\ DurablePlaces = { p \in Position : /\ IsRecord(cells, p)
                                              /\ p.off < synced[p.seg]
                                              /\ p.seg \notin dir \ dir_durable })'
  BY LogPlaces, PTL
<1>i. TypeOK /\ DirInv /\ LenInv /\ OpInv /\ AgreeInv /\ GoneInv /\ TypeOK'
  BY DEF IInv
<1>p. pc = "write" /\ pc \in Ready /\ pc \in Loaded /\ pc \in Recovered /\ LastSegment = active_segment
  BY DEF Write, Ready, Loaded, Recovered, Locations, LastSegment, Rotating
<1>w. write_all(active_segment, record) /\ UNCHANGED <<dir, dir_durable, nodes_json, nodes_json_durable>>
  BY DEF Write, metadata
<1>t. /\ SegIds \subseteq Nat /\ active_segment \in SegIds /\ segment_len \in Nat
      /\ \A s \in SegIds : Len(cells[s]) \in Nat /\ synced[s] \in Nat /\ synced[s] <= Len(cells[s])
      /\ segment_len = Len(cells[active_segment]) /\ segment_len >= 1 /\ segment_len < MaxSegmentLen
  <2>1. SegIds \subseteq Nat
    BY SegmentIdAssumption DEF SegIds
  <2>2. \A s \in SegIds : Len(cells[s]) \in Nat
    BY <1>i DEF TypeOK
  <2>3. segment_len = Len(cells[active_segment]) /\ segment_len >= 1
    BY <1>i, <1>p DEF LenInv
  <2>4. segment_len < MaxSegmentLen
    BY <1>p DEF RoomInv
  <2> QED BY <1>i, <2>1, <2>2, <2>3, <2>4 DEF TypeOK, LenInv
<1>k. op.node \in Nodes /\ op.kind \in {"create_node", "save_record", "save_snapshot"}
  BY <1>i, <1>p DEF OpInv
<1>1. new \in WrittenPositions /\ new \in Position
  BY <1>t, SegmentLenAssumption DEF WrittenPositions, Position
<1>2. record \in Store!Record /\ record \in Cell
  BY <1>k DEF Store!Record, Cell
<1>3. /\ Len(cells'[active_segment]) = segment_len + 1
      /\ \A t \in SegIds : t # active_segment => cells'[t] = cells[t]
      /\ \A t \in SegIds : \A i \in 1 .. Len(cells[t]) : cells'[t][i] = cells[t][i]
      /\ cells'[active_segment][segment_len + 1] = record
  BY <1>i, <1>t, <1>w, <1>2, WriteAllEffect
<1>4. \A q \in Position : q.seg \in SegIds /\ q.seg \in Nat /\ q.off \in Nat
  BY <1>t DEF Position
<1>5. \A q \in DOMAIN Log : Before(q, new)
  <2> SUFFICES ASSUME NEW q \in DOMAIN Log
               PROVE  Before(q, new)
    OBVIOUS
  <2>1. q \in Position /\ IsRecord(cells, q)
    BY <1>i, LogPlaces
  <2>2. q.seg \in SegIds /\ q.off \in Nat /\ q.seg \in Nat
    BY <1>4, <2>1
  <2>3. q.seg <= active_segment
    <3> SUFFICES ASSUME active_segment < q.seg
                 PROVE  FALSE
      BY <1>t, <2>2
    <3>1. \A t \in dir : t <= active_segment
      BY <1>i, <1>p DEF DirInv
    <3>2. q.seg \notin dir /\ \A t \in dir : t < q.seg
      <4>1. active_segment \in Nat /\ dir \subseteq Nat
        BY <1>i, <1>t DEF TypeOK
      <4>2. \A t \in Nat : t <= active_segment => t < q.seg
        BY <2>2, <4>1
      <4> QED BY <2>2, <3>1, <4>1, <4>2
    <3>3. cells[q.seg] = <<>>
      BY <1>i, <2>2, <3>2, BeyondIsEmpty
    <3> QED BY <2>1, <2>2, <3>3 DEF IsRecord
  <2>4. q.seg = active_segment => q.off < segment_len
    BY <1>t, <2>1 DEF IsRecord
  <2>5. active_segment \in Nat /\ new.seg = active_segment /\ new.off = segment_len
    BY <1>t
  <2>6. q.seg < active_segment \/ q.seg = active_segment
    BY <2>2, <2>3, <2>5
  <2> QED BY <2>4, <2>5, <2>6 DEF Before
<1>6. nodes_json[record.node] = "active" \/ (nodes_json[record.node] = "unknown" /\ record.checkpoint)
  <2>1. nodes_json = registry
    BY <1>i, <1>p DEF AgreeInv
  <2>2. CASE op.kind = "create_node"
    BY <1>p, <2>1, <2>2 DEF CInv, RegistryInv
  <2>3. CASE op.kind # "create_node"
    BY <1>k, <1>p, <2>1, <2>3 DEF RoomInv
  <2> QED BY <2>2, <2>3
<1>7. \A p \in Position : IsRecord(cells', p) <=> IsRecord(cells, p) \/ p = new
  <2> SUFFICES ASSUME NEW p \in Position
               PROVE  IsRecord(cells', p) <=> IsRecord(cells, p) \/ p = new
    OBVIOUS
  <2>1. CASE p.seg = active_segment
    <3>1. p = new <=> p.off = segment_len
      BY <2>1 DEF Position
    <3>2. \A o, l \in Nat : l >= 1 => ((o >= 1 /\ o < l + 1) <=> (o >= 1 /\ o < l) \/ o = l)
      OBVIOUS
    <3> QED BY <1>t, <1>3, <1>4, <2>1, <3>1, <3>2 DEF IsRecord
  <2>2. CASE p.seg # active_segment
    BY <1>3, <1>4, <2>2 DEF IsRecord
  <2> QED BY <2>1, <2>2
<1>8. RecordsIn(cells', SegIds) = RecordsIn(cells, SegIds) \cup {new}
  BY <1>i, <1>r, <1>1, <1>7, LogPlaces
<1>9. \A p \in Position : IsRecord(cells, p) => CellAt(cells', p) = CellAt(cells, p) /\ p # new
  <2> SUFFICES ASSUME NEW p \in Position, IsRecord(cells, p)
               PROVE  CellAt(cells', p) = CellAt(cells, p) /\ p # new
    OBVIOUS
  <2>1. p.seg \in SegIds /\ p.off \in Nat /\ p.off < Len(cells[p.seg])
    BY <1>4 DEF IsRecord
  <2>2. p.off + 1 \in 1 .. Len(cells[p.seg])
    BY <1>t, <2>1
  <2>3. p # new
    BY <1>t, <2>1
  <2> QED BY <1>3, <2>1, <2>2, <2>3 DEF CellAt
<1>10. CellAt(cells', new) = record
  BY <1>3 DEF CellAt
<1>11. Log' = [q \in DOMAIN Log \cup {new} |-> IF q = new THEN record ELSE Log[q]]
  <2>1. DOMAIN Log = RecordsIn(cells, SegIds) /\ \A q \in RecordsIn(cells, SegIds) : Log[q] = CellAt(cells, q)
    BY DEF Log
  <2>2. \A q \in RecordsIn(cells, SegIds) : CellAt(cells', q) = Log[q] /\ q # new
    BY <1>i, <1>9, <2>1, LogPlaces
  <2>3. Log' = [q \in RecordsIn(cells', SegIds) |-> CellAt(cells', q)]
    BY DEF Log
  <2>4. \A q \in DOMAIN Log \cup {new} : CellAt(cells', q) = IF q = new THEN record ELSE Log[q]
    BY <1>10, <2>1, <2>2
  <2> HIDE DEF new, record
  <2> QED BY <1>8, <2>1, <2>3, <2>4, Zenon
<1>12. DurablePlaces' = DurablePlaces
  <2>1. synced' = synced
    BY <1>w DEF write_all
  <2>2. ~(new.off < synced[new.seg])
    BY <1>t
  <2>3. \A p \in Position : IsRecord(cells', p) /\ p.off < synced[p.seg] <=> IsRecord(cells, p) /\ p.off < synced[p.seg]
    BY <1>7, <2>2
  <2> HIDE DEF new
  <2> QED BY <1>i, <1>r, <1>w, <2>1, <2>3, LogPlaces
<1>13. Store!Visible
  BY VisibleAfterStep
<1>14. Store!Append(new, record)
  <2> HIDE DEF new, record
  <2> QED BY <1>w, <1>5, <1>6, <1>11, <1>12, <1>13 DEF Store!Append, Log, DurablePlaces
<1> QED BY <1>1, <1>2, <1>14

\* The renaming of nodes.json creates a node whose checkpoint is durable, or
\* removes an active one.
LEMMA RegistryReplaceCreatesOrRemoves ==
  ASSUME IInv, IInv', CInv, RoomInv, RegistryReplace
  PROVE  \E n \in Nodes : Store!Create(n) \/ Store!Remove(n)
<1>i. TypeOK /\ OpInv /\ RecordInv /\ AgreeInv
  BY DEF IInv
<1>p. pc = "registry_replace" /\ pc \in Loaded /\ pc \in Ready
  BY DEF RegistryReplace, Ready, Loaded, Recovered, Locations
<1>k. op.node \in Nodes /\ op.kind \in {"create_node", "remove_node"}
  BY <1>i, <1>p DEF OpInv
<1>1. nodes_json = registry
  BY <1>i, <1>p DEF AgreeInv
<1>2. UNCHANGED <<cells, synced, dir, dir_durable, nodes_json_durable>> /\ nodes_json' = NewRegistry
  BY DEF RegistryReplace, segments, content
<1>3. Log' = Log /\ DurablePlaces' = DurablePlaces
  BY <1>2 DEF Log, DurablePlaces
<1>4. Store!Visible
  BY VisibleAfterStep
<1>5. CASE op.kind = "create_node"
  <2>1. nodes_json[op.node] = "unknown"
    BY <1>p, <1>1, <1>5 DEF CInv, RegistryInv
  <2>2. nodes_json' = [nodes_json EXCEPT ![op.node] = "active"]
    BY <1>1, <1>2, <1>5 DEF NewRegistry
  <2>3. /\ record_position \in Position
        /\ record_position.seg \in dir \cap dir_durable
        /\ IsRecord(cells, record_position)
        /\ record_position.off < synced[record_position.seg]
        /\ CellAt(cells, record_position).node = op.node
        /\ CellAt(cells, record_position).checkpoint
    BY <1>i, <1>p, <1>5 DEF RecordInv, validate_checkpoint_position, TypeOK
  <2>4. record_position \in DurablePlaces /\ record_position \in DOMAIN Log
        /\ Log[record_position] = CellAt(cells, record_position)
    BY <1>i, <2>3, LogPlaces
  <2>5. CellAt(cells, record_position) \in Cell
    <3>1. record_position.seg \in SegIds /\ record_position.off \in Nat
      BY <2>3 DEF Position
    <3>2. cells[record_position.seg] \in Seq(Cell) /\ Len(cells[record_position.seg]) \in Nat
      BY <1>i, <3>1 DEF TypeOK
    <3>3. record_position.off + 1 \in 1 .. Len(cells[record_position.seg])
      BY <2>3, <3>1, <3>2 DEF IsRecord
    <3> QED BY <3>2, <3>3 DEF CellAt
  <2>6. CellAt(cells, record_position) = [node |-> op.node, checkpoint |-> TRUE]
    BY <2>3, <2>5 DEF Cell
  <2>7. \E q \in DurablePlaces : Log[q] = [node |-> op.node, checkpoint |-> TRUE]
    BY <2>4, <2>6
  <2>8. Store!Create(op.node)
    BY <1>2, <1>3, <1>4, <2>1, <2>2, <2>7 DEF Store!Create, Log, DurablePlaces
  <2> QED BY <1>k, <2>8
<1>6. CASE op.kind = "remove_node"
  <2>1. nodes_json[op.node] = "active"
    BY <1>p, <1>1, <1>6 DEF RoomInv
  <2>2. nodes_json' = [nodes_json EXCEPT ![op.node] = "removed"]
    BY <1>1, <1>2, <1>6 DEF NewRegistry
  <2>3. Store!Remove(op.node)
    BY <1>2, <1>3, <1>4, <2>1, <2>2 DEF Store!Remove, Log, DurablePlaces
  <2> QED BY <1>k, <2>3
<1> QED BY <1>k, <1>5, <1>6

\* Without process crashes, a segment in the directory that another one
\* follows is complete on stable storage, and so is its name.
LEMMA FollowedIsStable ==
  ASSUME IInv, StableInv, NEW s \in dir, NEW t \in dir, s < t
  PROVE  s \in dir_durable /\ synced[s] = Len(cells[s])
<1>1. synced[s] = Len(cells[s])
  BY DEF StableInv, SegmentsStable, Sealed
<1>2. s \in Nat /\ t \in Nat /\ active_segment \in Nat
  <2>1. SegIds \subseteq Nat
    BY SegmentIdAssumption DEF SegIds
  <2> QED BY <2>1 DEF IInv, TypeOK
<1>3. pc \in {"open_magic", "open_dir"} \cup Rotating => s # LastSegment
  <2>1. pc \in {"open_magic", "open_dir"} \cup Rotating => t <= LastSegment
    BY DEF IInv, DirInv, Recovered, Locations, Rotating
  <2>2. LastSegment \in Nat
    BY <1>2 DEF LastSegment
  <2> QED BY <1>2, <2>1, <2>2
<1>4. s \in dir_durable
  BY <1>3 DEF StableInv, NamesStable, LastSegment, Rotating
<1> QED BY <1>1, <1>4

\* Power loss takes an end of the log: no segment loses a record while a
\* later one keeps a record.
LEMMA PowerLossLoses ==
  ASSUME IInv, IInv', StableInv, PowerLoss
  PROVE  Store!Lose
<1> DEFINE kept == RecordsIn(cells', SegIds)
<1>r. (TypeOK =>
        /\ RecordsIn(cells, SegIds) = { p \in Position : IsRecord(cells, p) }
        /\ DOMAIN Log = { p \in Position : IsRecord(cells, p) }
        /\ \A p \in DOMAIN Log : Log[p] = CellAt(cells, p)
        /\ DurablePlaces = { p \in Position : /\ IsRecord(cells, p)
                                              /\ p.off < synced[p.seg]
                                              /\ p.seg \notin dir \ dir_durable })'
  BY LogPlaces, PTL
<1>i. TypeOK /\ LenInv /\ GoneInv /\ TypeOK'
  BY DEF IInv
<1>t. /\ SegIds \subseteq Nat /\ dir \subseteq SegIds
      /\ \A s \in SegIds : /\ Len(cells[s]) \in Nat /\ synced[s] \in Nat /\ synced[s] <= Len(cells[s])
                            /\ synced'[s] \in Nat
      /\ \A p \in Position : p.seg \in SegIds /\ p.seg \in Nat /\ p.off \in Nat
  <2>1. SegIds \subseteq Nat
    BY SegmentIdAssumption DEF SegIds
  <2>2. \A s \in SegIds : Len(cells[s]) \in Nat
    BY <1>i DEF TypeOK
  <2> QED BY <1>i, <2>1, <2>2 DEF TypeOK, LenInv, Position
<1>1. /\ dir \cap dir_durable \subseteq dir'
      /\ dir_durable' = dir'
      /\ \A s \in SegIds :
           /\ Len(cells'[s]) = synced'[s]
           /\ synced'[s] <= Len(cells[s])
           /\ \A i \in 1 .. synced'[s] : cells'[s][i] = cells[s][i]
           /\ s \in dir' => synced[s] <= synced'[s]
  BY <1>i, PowerLossEffect
<1>2. \A s \in SegIds : s \notin dir => synced[s] <= synced'[s]
  <2>1. PICK survivors : synced' \in KeptLengths(survivors)
    BY DEF PowerLoss
  <2> QED BY <1>i, <1>t, <2>1, KeptLengthsBounds
<1>3. kept = { p \in Position : IsRecord(cells', p) }
  BY <1>i, <1>r
<1>4. \A p \in Position : IsRecord(cells', p) <=> IsRecord(cells, p) /\ p.off < synced'[p.seg]
  <2> SUFFICES ASSUME NEW p \in Position
               PROVE  IsRecord(cells', p) <=> IsRecord(cells, p) /\ p.off < synced'[p.seg]
    OBVIOUS
  <2>1. \A o, k, l \in Nat : k <= l => (o >= 1 /\ o < k <=> (o >= 1 /\ o < l) /\ o < k)
    OBVIOUS
  <2> QED BY <1>t, <1>1, <2>1 DEF IsRecord
<1>5. kept \subseteq DOMAIN Log
  BY <1>i, <1>3, <1>4, LogPlaces
<1>6. DurablePlaces \subseteq kept
  <2> SUFFICES ASSUME NEW p \in DurablePlaces
               PROVE  p \in kept
    OBVIOUS
  <2>1. p \in Position /\ IsRecord(cells, p) /\ p.off < synced[p.seg] /\ p.seg \notin dir \ dir_durable
    BY <1>i, LogPlaces
  <2>2. synced[p.seg] <= synced'[p.seg]
    BY <1>t, <1>1, <1>2, <2>1
  <2>3. p.off < synced'[p.seg]
    BY <1>t, <2>1, <2>2
  <2> QED BY <1>3, <1>4, <2>1, <2>3
<1>7. \A p \in kept, q \in DOMAIN Log : Before(q, p) => q \in kept
  <2> SUFFICES ASSUME NEW p \in kept, NEW q \in DOMAIN Log, Before(q, p)
               PROVE  q \in kept
    OBVIOUS
  <2>1. p \in Position /\ IsRecord(cells, p) /\ p.off < synced'[p.seg]
    BY <1>3, <1>4
  <2>2. q \in Position /\ IsRecord(cells, q) /\ q.off < Len(cells[q.seg])
    BY <1>i, LogPlaces DEF IsRecord
  <2>3. q.off < synced'[q.seg]
    <3>1. CASE q.seg = p.seg
      <4>1. q.off < p.off
        BY <1>t, <2>1, <2>2, <3>1 DEF Before
      <4> QED BY <1>t, <2>1, <2>2, <3>1, <4>1
    <3>2. CASE q.seg # p.seg
      <4>0. q.seg < p.seg
        BY <3>2 DEF Before
      <4>1. synced[q.seg] = Len(cells[q.seg]) /\ (q.seg \in dir => q.seg \in dir_durable)
        <5>1. CASE q.seg \notin dir
          BY <1>t, <2>2, <5>1 DEF StableInv, SegmentsStable
        <5>2. CASE q.seg \in dir /\ p.seg \in dir
          BY <4>0, <5>2, FollowedIsStable
        <5>3. CASE q.seg \in dir /\ p.seg \notin dir
          <6>1. cells[p.seg] # <<>>
            <7>1. Len(cells[p.seg]) # 0
              BY <1>t, <2>1 DEF IsRecord
            <7> QED BY <7>1
          <6>2. Gone(p.seg)
            BY <5>3, <6>1 DEF Gone
          <6>3. PICK t \in dir : p.seg < t
            BY <1>i, <1>t, <2>1, <6>2 DEF GoneInv
          <6>4. q.seg < t
            <7>1. t \in Nat /\ q.seg \in Nat /\ p.seg \in Nat
              BY <1>t, <2>1, <2>2
            <7> QED BY <4>0, <6>3, <7>1
          <6> QED BY <5>3, <6>4, FollowedIsStable
        <5> QED BY <5>1, <5>2, <5>3
      <4>2. synced[q.seg] <= synced'[q.seg]
        BY <1>t, <1>1, <1>2, <2>2, <4>1
      <4>3. synced'[q.seg] \in Nat /\ Len(cells[q.seg]) \in Nat /\ q.off \in Nat
        BY <1>t, <2>2
      <4> QED BY <2>2, <4>1, <4>2, <4>3
    <3> QED BY <3>1, <3>2
  <2> QED BY <1>3, <1>4, <2>2, <2>3
<1>8. Log' = [p \in kept |-> Log[p]]
  <2>1. \A p \in kept : CellAt(cells', p) = Log[p]
    <3> SUFFICES ASSUME NEW p \in kept
                 PROVE  CellAt(cells', p) = Log[p]
      OBVIOUS
    <3>1. p \in Position /\ p.off < synced'[p.seg]
      BY <1>3, <1>4
    <3>2. p.seg \in SegIds /\ p.off + 1 \in 1 .. synced'[p.seg]
      BY <1>t, <3>1
    <3>3. CellAt(cells', p) = CellAt(cells, p)
      BY <1>1, <3>2 DEF CellAt
    <3>4. p \in DOMAIN Log
      BY <1>5
    <3> QED BY <1>i, <3>3, <3>4, LogPlaces
  <2>2. Log' = [p \in kept |-> CellAt(cells', p)]
    BY DEF Log
  <2> HIDE DEF kept
  <2> QED BY <2>1, <2>2, Zenon
<1>9. DurablePlaces' = kept
  <2>1. \A p \in Position : IsRecord(cells', p) => p.off < synced'[p.seg] /\ p.seg \notin dir' \ dir_durable'
    BY <1>1, <1>4
  <2> QED BY <1>i, <1>r, <1>3, <2>1
<1>10. /\ nodes_json' \in {nodes_json, nodes_json_durable}
       /\ nodes_json_durable' = nodes_json'
  BY DEF PowerLoss
<1>11. Store!Visible
  BY VisibleAfterStep
<1>12. \E k \in SUBSET DOMAIN Log :
         /\ DurablePlaces \subseteq k
         /\ \A p \in k, q \in DOMAIN Log : Before(q, p) => q \in k
         /\ Log' = [p \in k |-> Log[p]]
         /\ DurablePlaces' = k
  <2> HIDE DEF kept
  <2> QED BY <1>5, <1>6, <1>7, <1>8, <1>9, Zenon
<1> QED BY <1>10, <1>11, <1>12 DEF Store!Lose, Log, DurablePlaces

\* A new storage directory is an empty store.
LEMMA InitRefines == Init => Store!Init
<1> SUFFICES ASSUME Init
             PROVE  Store!Init
  OBVIOUS
<1>1. IInv
  BY InitInvariant
<1>2. \A s \in SegIds : Len(cells[s]) = 0
  BY DEF Init
<1>3. RecordsIn(cells, SegIds) = {}
  <2>1. \A s \in SegIds : HeaderLen .. Len(cells[s]) - 1 = {}
    BY <1>2
  <2> QED BY <2>1 DEF RecordsIn
<1>4. Log = << >> /\ DurablePlaces = {}
  BY <1>3 DEF Log, DurablePlaces
<1>5. \A n \in Nodes : nodes_json[n] = "unknown"
  BY DEF Init, NoRegistry
<1>6. Loads = [n \in Nodes |-> {}]
  BY <1>5 DEF Loads
<1>7. nodes_json = [n \in Nodes |-> "unknown"] /\ nodes_json_durable = nodes_json
  BY DEF Init, NoRegistry
<1> QED BY <1>4, <1>6, <1>7 DEF Store!Init, Log, DurablePlaces, Loads

\* The engine implements the abstract store: to its callers it is one log of
\* records, of which a fault takes at most an end that is not durable, and
\* load always gives the records from the newest checkpoint of a node on.
\* With both kinds of fault it fails: a power loss may keep a segment and
\* lose the name of an earlier one that a crashed process left unsynchronized.
THEOREM EngineImplementsStore ==
  "process" \notin Faults \/ "power" \notin Faults => (Spec => ImplementsNodeStore)
<1> SUFFICES ASSUME "process" \notin Faults \/ "power" \notin Faults
             PROVE  Spec => ImplementsNodeStore
  OBVIOUS
<1>1. CASE "process" \notin Faults
  <2>1. IInv /\ IInv' /\ CInv /\ RoomInv /\ StableInv /\ [Next]_vars => [Store!Next]_(Store!vars)
    <3> SUFFICES ASSUME IInv, IInv', CInv, RoomInv, StableInv, [Next]_vars
                 PROVE  Store!Next
      OBVIOUS
    <3>1. CASE Write
      BY <3>1, WriteAppends DEF Store!Next
    <3>2. CASE RegistryReplace
      BY <3>2, RegistryReplaceCreatesOrRemoves DEF Store!Next
    <3>3. CASE PowerLoss
      BY <3>3, PowerLossLoses DEF Store!Next
    <3>4. CASE ~Write /\ ~RegistryReplace /\ ~PowerLoss
      BY <3>4, OtherStepsHarden DEF Store!Next
    <3> QED BY <3>1, <3>2, <3>3, <3>4
  <2>2. Spec => []StableInv
    BY <1>1, StableInvariance
  <2> QED
    BY <2>1, <2>2, InitRefines, Invariance, CallInvariance, RoomInvariance, PTL
    DEF Spec, ImplementsNodeStore, Store!Spec
<1>2. CASE "power" \notin Faults
  <2>1. IInv /\ IInv' /\ CInv /\ RoomInv /\ [Next]_vars => [Store!Next]_(Store!vars)
    <3> SUFFICES ASSUME IInv, IInv', CInv, RoomInv, [Next]_vars
                 PROVE  Store!Next
      OBVIOUS
    <3>0. ~PowerLoss
      BY <1>2 DEF PowerLoss
    <3>1. CASE Write
      BY <3>1, WriteAppends DEF Store!Next
    <3>2. CASE RegistryReplace
      BY <3>2, RegistryReplaceCreatesOrRemoves DEF Store!Next
    <3>3. CASE ~Write /\ ~RegistryReplace
      BY <3>0, <3>3, OtherStepsHarden DEF Store!Next
    <3> QED BY <3>1, <3>2, <3>3
  <2> QED
    BY <2>1, InitRefines, Invariance, CallInvariance, RoomInvariance, PTL
    DEF Spec, ImplementsNodeStore, Store!Spec
<1> QED BY <1>1, <1>2

===============================================================================
