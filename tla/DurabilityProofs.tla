---------------------------- MODULE DurabilityProofs ----------------------------
(***************************************************************************)
(* What the engine promises about faults, for every set of nodes, every    *)
(* segment length and every largest segment ID: opening when one kind of   *)
(* fault happens, what a call has made durable when it returns, and that   *)
(* no step takes back what is durable.                                     *)
(***************************************************************************)
EXTENDS StorageEngineProofs

USE DEF HeaderLen

-------------------------------------------------------------------------------
(***************************************************************************)
(* Process crashes without power loss.                                     *)
(***************************************************************************)

\* While an engine is open, the directory can be opened.
LEMMA RecoveredIsOpenable ==
  IInv =>
    /\ pc \in Recovered => \A s, t \in dir : s < t => Complete(cells, tail, s)
    /\ pc \in Loaded =>
         \A n \in ActiveNodes(nodes_json) :
           checkpoints_json[n] # None =>
             validate_checkpoint_position(cells, dir, n, checkpoints_json[n])
<1> SUFFICES ASSUME IInv
             PROVE  /\ pc \in Recovered => \A s, t \in dir : s < t => Complete(cells, tail, s)
                    /\ pc \in Loaded =>
                         \A n \in ActiveNodes(nodes_json) :
                           checkpoints_json[n] # None =>
                             validate_checkpoint_position(cells, dir, n, checkpoints_json[n])
  OBVIOUS
<1> USE DEF IInv
<1>t. dir \subseteq SegIds /\ SegIds \subseteq Nat /\ active_segment \in SegIds
      /\ \A s \in SegIds : cells[s] \in Seq(Cell)
  BY SegmentIdAssumption DEF TypeOK, SegIds
<1>1. ASSUME pc \in Recovered, NEW s \in dir, NEW t \in dir, s < t
      PROVE  Complete(cells, tail, s)
  <2>1. t <= LastSegment
    BY <1>1 DEF DirInv
  <2>2. CASE s < active_segment
    BY <1>1, <2>2 DEF CompleteInv
  <2>3. CASE ~(s < active_segment)
    <3>1. pc \in Rotating /\ s = active_segment
      BY <1>1, <1>t, <2>1, <2>3 DEF LastSegment
    <3>2. tail[s] # "torn"
      BY <1>1, <3>1 DEF CompleteInv
    <3>3. Len(cells[s]) >= 1
      BY <3>1 DEF LenInv, Rotating, Ready, Loaded, Recovered, Locations
    <3> QED BY <3>2, <3>3, <1>t DEF Complete
  <2> QED BY <2>2, <2>3
<1>2. ASSUME pc \in Loaded, NEW n \in ActiveNodes(nodes_json), checkpoints_json[n] # None
      PROVE  validate_checkpoint_position(cells, dir, n, checkpoints_json[n])
  BY <1>2 DEF IndexInv, GoodEntry, ActiveNodes
<1> QED BY <1>1, <1>2

\* A part of a frame is left only at the end of the last segment.
LEMMA MidWriteIsLast ==
  ASSUME IInv, NEW s \in MidWrite
  PROVE  /\ s \in dir
         /\ \A t \in dir : t <= s
<1>1. s \in dir /\ pc \in Recovered /\ s = LastSegment
  BY DEF MidWrite, LastSegment, Rotating, Recovered, Locations
<1> QED BY <1>1 DEF IInv, DirInv

LEMMA OpenableStep ==
  ASSUME "power" \notin Faults, IInv, IInv', OpenableInv, [Next]_vars
  PROVE  OpenableInv'
<1> USE DEF content, segments, metadata, memory, writer, call
<1>t. dir \subseteq SegIds /\ SegIds \subseteq Nat /\ pc' \in Locations
  BY SegmentIdAssumption DEF IInv, TypeOK, SegIds
<1>1. pc' # "refused"
  <2>1. CASE OpenRecover
    <3>1. /\ \A s \in dir : s <= select_active_append_segment
          /\ dir # {} => select_active_append_segment \in dir
      BY SelectActive DEF IInv, TypeOK
    <3>2. select_active_append_segment \in SegIds
      BY SelectActive DEF IInv, TypeOK
    <3>3. \A s \in dir \ {select_active_append_segment} : Complete(cells, tail, s)
      BY <1>t, <3>1, <3>2 DEF OpenableInv
    <3> QED BY <2>1, <3>3 DEF OpenRecover
  <2>2. CASE OpenLoad
    BY <2>2 DEF OpenLoad, OpenableInv, ActiveNodes
  <2>3. CASE ~OpenRecover /\ ~OpenLoad
    BY <2>3 DEF OpenableInv, Next, Open, Begin, Proceed, AppendSteps, Fault, OpenExisting, OpenCreate, OpenMagic,
       OpenDir, CreateNode, SaveRecord, SaveSnapshot, RemoveNode, BeginAppend, Sync, RotateSync, RotateFails,
       RotateCreate, RotateMagic, RotateDir, Write, AppendSync, SyncCall, IndexReplace, IndexDir, RegistryReplace,
       RegistryDir, GcStart, GcDelete, GcDir, Return, Close, ProcessCrash, PowerLoss, LoseIndex, NoEngine, vars
  <2> QED BY <2>1, <2>2, <2>3
<1>2. /\ \A s, t \in dir : s < t => Complete(cells, tail, s)
      /\ pc # "refused"
      /\ \A n \in ActiveNodes(nodes_json) :
           checkpoints_json[n] # None => validate_checkpoint_position(cells, dir, n, checkpoints_json[n])
  BY DEF OpenableInv
<1>r. (/\ pc \in Recovered => \A s, t \in dir : s < t => Complete(cells, tail, s)
       /\ pc \in Loaded =>
            \A n \in ActiveNodes(nodes_json) :
              checkpoints_json[n] # None =>
                validate_checkpoint_position(cells, dir, n, checkpoints_json[n]))'
  BY RecoveredIsOpenable, PTL
<1>3. CASE pc' \in Recovered
  <2>1. (\A s, t \in dir : s < t => Complete(cells, tail, s))'
    BY <1>3, <1>r DEF Recovered
  <2>2. CASE pc' \in Loaded
    BY <1>1, <1>r, <2>1, <2>2 DEF OpenableInv, Loaded, Recovered
  <2>3. CASE pc' \notin Loaded
    <3>1. pc' = "open_load"
      BY <1>3, <2>3 DEF Loaded
    <3>2. UNCHANGED <<cells, dir, nodes_json, checkpoints_json>>
      BY <3>1 DEF Next, Open, Begin, Proceed, AppendSteps, Fault, OpenRecover, OpenLoad, OpenExisting, OpenCreate,
         OpenMagic, OpenDir, CreateNode, SaveRecord, SaveSnapshot, RemoveNode, BeginAppend, Sync, RotateSync,
         RotateFails, RotateCreate, RotateMagic, RotateDir, Write, AppendSync, SyncCall, IndexReplace, IndexDir,
         RegistryReplace, RegistryDir, GcStart, GcDelete, GcDir, Return, Close, ProcessCrash, PowerLoss, LoseIndex,
         NoEngine, vars
    <3> QED BY <1>1, <1>2, <2>1, <3>2 DEF OpenableInv
  <2> QED BY <2>2, <2>3
<1>4. CASE pc' = "closed"
  <2>1. CASE ProcessCrash
    <3>1. PICK torn \in SUBSET MidWrite : tail' = [s \in SegIds |-> IF s \in torn THEN "torn" ELSE tail[s]]
      BY <2>1 DEF ProcessCrash
    <3>2. UNCHANGED <<cells, dir, nodes_json, checkpoints_json>>
      BY <2>1 DEF ProcessCrash
    <3>3. ASSUME NEW s \in dir, NEW t \in dir, s < t
          PROVE  Complete(cells', tail', s)
      <4>1. s \notin torn
        BY <1>t, <3>3, MidWriteIsLast
      <4>2. tail'[s] = tail[s]
        BY <1>t, <3>1, <4>1
      <4> QED BY <1>2, <3>2, <3>3, <4>2 DEF Complete
    <3> QED BY <1>1, <1>2, <3>2, <3>3 DEF OpenableInv
  <2>2. CASE LoseIndex
    <3>1. UNCHANGED <<cells, tail, dir, nodes_json>> /\ checkpoints_json' = NoIndex
      BY <2>2 DEF LoseIndex
    <3>2. \A n \in ActiveNodes(nodes_json) : NoIndex[n] = None
      BY DEF NoIndex, ActiveNodes
    <3> QED BY <1>1, <1>2, <3>1, <3>2 DEF OpenableInv
  <2>3. CASE ~ProcessCrash /\ ~LoseIndex
    <3>1. UNCHANGED <<cells, tail, dir, nodes_json, checkpoints_json>>
      BY <1>4, <2>3 DEF Next, Open, Begin, Proceed, AppendSteps, Fault, OpenRecover, OpenLoad, OpenExisting,
         OpenCreate, OpenMagic, OpenDir, CreateNode, SaveRecord, SaveSnapshot, RemoveNode, BeginAppend, Sync,
         RotateSync, RotateFails, RotateCreate, RotateMagic, RotateDir, Write, AppendSync, SyncCall, IndexReplace,
         IndexDir, RegistryReplace, RegistryDir, GcStart, GcDelete, GcDir, Return, Close, PowerLoss, NoEngine, vars
    <3> QED BY <1>1, <1>2, <3>1 DEF OpenableInv
  <2> QED BY <2>1, <2>2, <2>3
<1> QED BY <1>1, <1>3, <1>4, <1>t DEF Recovered

LEMMA InitOpenable == Init => OpenableInv
  BY DEF Init, OpenableInv, ActiveNodes, NoRegistry

\* Without power loss no engine ever refuses a directory: wherever a process
\* crash struck, inactive segments are complete and the entries of
\* checkpoints.json that count point at their checkpoints.
LEMMA OpenableInvariance == "power" \notin Faults => (Spec => []OpenableInv)
<1> SUFFICES ASSUME "power" \notin Faults
             PROVE  Spec => []OpenableInv
  OBVIOUS
<1>1. IInv /\ IInv' /\ OpenableInv /\ [Next]_vars => OpenableInv'
  BY OpenableStep
<1> QED BY <1>1, InitOpenable, Invariance, PTL DEF Spec

-------------------------------------------------------------------------------
(***************************************************************************)
(* Power loss without process crashes.                                     *)
(***************************************************************************)

\* The names in the directory are the durable ones, up to the system calls
\* of the creation or of the collection in progress.
LEMMA NamesStep ==
  ASSUME "process" \notin Faults, IInv, IInv', NamesStable, [Next]_vars
  PROVE  NamesStable'
<1> USE DEF NamesStable, Rotating, content, segments, metadata, memory, writer, call
<1>1. CASE Open
  <2>1. CASE OpenRecover
    BY <2>1 DEF OpenRecover
  <2>2. CASE OpenLoad
    BY <2>2 DEF OpenLoad
  <2>3. CASE OpenExisting
    BY <2>3 DEF OpenExisting
  <2>4. CASE OpenCreate
    BY <2>4 DEF OpenCreate
  <2>5. CASE OpenMagic
    BY <2>5 DEF OpenMagic
  <2>6. CASE OpenDir
    BY <2>6 DEF OpenDir, sync_dir
  <2> QED BY <1>1, <2>1, <2>2, <2>3, <2>4, <2>5, <2>6 DEF Open
<1>2. CASE Begin
  BY <1>2 DEF Begin, CreateNode, SaveRecord, SaveSnapshot, RemoveNode, BeginAppend, Sync
<1>3. CASE AppendSteps
  <2>1. CASE RotateSync
    BY <2>1 DEF RotateSync
  <2>2. CASE RotateFails
    BY <2>2 DEF RotateFails
  <2>3. CASE RotateCreate
    BY <2>3 DEF RotateCreate
  <2>4. CASE RotateMagic
    BY <2>4 DEF RotateMagic
  <2>5. CASE RotateDir
    BY <2>5 DEF RotateDir, sync_dir
  <2>6. CASE Write
    BY <2>6 DEF Write
  <2>7. CASE AppendSync
    BY <2>7 DEF AppendSync, WriterSync
  <2> QED BY <1>3, <2>1, <2>2, <2>3, <2>4, <2>5, <2>6, <2>7 DEF AppendSteps
<1>4. CASE SyncCall
  BY <1>4 DEF SyncCall, WriterSync
<1>5. CASE IndexReplace \/ RegistryReplace
  BY <1>5 DEF IndexReplace, RegistryReplace
<1>6. CASE IndexDir \/ RegistryDir
  BY <1>6 DEF IndexDir, RegistryDir, sync_dir
<1>7. CASE GcStart
  BY <1>7 DEF GcStart
<1>8. CASE GcDelete
  BY <1>8 DEF GcDelete
<1>9. CASE GcDir
  BY <1>9 DEF GcDir, sync_dir
<1>10. CASE Return
  BY <1>10 DEF Return
<1>11. CASE Close
  BY <1>11 DEF Close, NoEngine
<1>12. CASE PowerLoss
  BY <1>12 DEF PowerLoss, NoEngine
<1>13. CASE LoseIndex
  BY <1>13 DEF LoseIndex
<1>14. CASE UNCHANGED vars
  BY <1>14 DEF vars
<1> QED
  BY <1>1, <1>2, <1>3, <1>4, <1>5, <1>6, <1>7, <1>8, <1>9, <1>10, <1>11, <1>12, <1>13, <1>14
  DEF Next, Proceed, Fault, ProcessCrash

\* The segment being written is the last, on stable storage too.
LEMMA LastIsDurableLast ==
  ASSUME IInv, NamesStable, pc \in Recovered \ {"gc_delete", "gc_dir"}
  PROVE  \A t \in dir \cup dir_durable : t <= LastSegment
<1>1. dir_durable \subseteq dir
  BY DEF NamesStable
<1> QED BY <1>1 DEF IInv, DirInv

LEMMA MidWriteIsDurableLast ==
  ASSUME IInv, NamesStable, NEW s \in MidWrite
  PROVE  \A t \in dir \cup dir_durable : t <= s
<1>1. pc \in Recovered \ {"gc_delete", "gc_dir"} /\ s = LastSegment
  BY DEF MidWrite, LastSegment, Rotating, Recovered, Locations
<1> QED BY <1>1, LastIsDurableLast

\* Every segment but the last is synchronized and complete.  RotateSync seals
\* the active segment before RotateCreate adds another one after it.
LEMMA SegmentsStep ==
  ASSUME "process" \notin Faults, IInv, IInv', NamesStable, SegmentsStable, [Next]_vars
  PROVE  SegmentsStable'
<1> USE DEF content, segments, metadata, memory, writer, call
<1>t. /\ dir \subseteq SegIds /\ dir_durable \subseteq SegIds /\ SegIds \subseteq Nat
      /\ active_segment \in SegIds /\ active_segment \in Nat
      /\ \A s \in SegIds : cells[s] \in Seq(Cell) /\ Len(cells[s]) \in Nat /\ synced[s] \in Nat
      /\ synced \in [SegIds -> Nat] /\ tail \in [SegIds -> FileTail]
  <2>1. SegIds \subseteq Nat
    BY SegmentIdAssumption DEF SegIds
  <2>2. TypeOK
    BY DEF IInv
  <2>3. \A s \in SegIds : cells[s] \in Seq(Cell) /\ Len(cells[s]) \in Nat
    BY <2>2 DEF TypeOK
  <2> QED BY <2>1, <2>2, <2>3 DEF TypeOK
<1>i. TypeOK /\ LenInv /\ DirInv /\ CompleteInv
  BY DEF IInv
<1>s. \A s, t \in dir \cup dir_durable : s < t => Sealed(s)
  BY DEF SegmentsStable
<1>u. \A s \in SegIds \ dir' : synced'[s] = Len(cells'[s])
  <2>0. \A s \in SegIds \ dir : synced[s] = Len(cells[s])
    BY DEF SegmentsStable
  <2>w. ASSUME NEW u \in dir, NEW c \in Cell, write_all(u, c), UNCHANGED dir
        PROVE  \A s \in SegIds \ dir' : synced'[s] = Len(cells'[s])
    <3>1. \A s \in SegIds : s # u => cells'[s] = cells[s]
      BY <1>i, <1>t, <2>w, WriteAllEffect
    <3> QED BY <2>0, <2>w, <3>1 DEF write_all
  <2>1. CASE OpenExisting
    BY <2>0, <2>1, <2>w, HeaderType DEF OpenExisting
  <2>2. CASE OpenMagic
    BY <1>i, <2>2, <2>w, HeaderType DEF OpenMagic, DirInv
  <2>3. CASE RotateMagic
    BY <1>i, <2>3, <2>w, HeaderType DEF RotateMagic, DirInv, Rotating
  <2>4. CASE Write
    <3>1. [node |-> op.node, checkpoint |-> op.kind # "save_record"] \in Cell
      BY <1>i DEF Cell, TypeOK
    <3>2. active_segment \in dir /\ UNCHANGED dir
      BY <1>i, <2>4 DEF Write, DirInv, Ready, Loaded, Recovered, Locations
    <3> QED BY <2>4, <2>w, <3>1, <3>2 DEF Write
  <2>5. CASE RotateSync \/ AppendSync \/ SyncCall
    <3>1. UNCHANGED dir /\ (sync_data(active_segment) \/ UNCHANGED content)
      BY <2>5 DEF RotateSync, AppendSync, SyncCall, WriterSync
    <3> QED BY <1>t, <2>0, <3>1 DEF sync_data
  <2>6. CASE GcDelete
    <3>1. PICK g \in gc_segments : dir' = dir \ {g}
      BY <2>6 DEF GcDelete
    <3>2. g \in dir /\ g # active_segment /\ active_segment \in dir /\ g <= active_segment
      <4>1. GcInv
        BY DEF IInv
      <4> QED BY <1>i, <2>6, <4>1 DEF GcDelete, GcInv, DirInv, LastSegment, Rotating, Ready, Loaded, Recovered, Locations
    <3>3. Sealed(g)
      BY <1>s, <1>t, <3>2
    <3>4. UNCHANGED <<cells, synced>>
      BY <2>6 DEF GcDelete
    <3> QED BY <2>0, <3>1, <3>3, <3>4 DEF Sealed
  <2>7. CASE PowerLoss
    BY <1>i, <2>7, PowerLossEffect
  <2>8. CASE /\ ~OpenExisting /\ ~OpenMagic /\ ~RotateMagic /\ ~Write /\ ~RotateSync /\ ~AppendSync /\ ~SyncCall
             /\ ~GcDelete /\ ~PowerLoss
    <3>1. UNCHANGED <<cells, synced>> /\ dir \subseteq dir'
      BY <2>8 DEF Next, Open, Begin, Proceed, AppendSteps, Fault, OpenRecover, OpenLoad, OpenCreate, OpenDir,
         CreateNode, SaveRecord, SaveSnapshot, RemoveNode, Sync, RotateFails, RotateCreate, RotateDir,
         IndexReplace, IndexDir, RegistryReplace, RegistryDir, GcStart, GcDir, Return, Close,
         ProcessCrash, LoseIndex, vars
    <3> QED BY <2>0, <3>1
  <2> QED BY <2>1, <2>2, <2>3, <2>4, <2>5, <2>6, <2>7, <2>8
<1>a. ASSUME UNCHANGED content, dir' \cup dir_durable' \subseteq dir \cup dir_durable,
             pc' = "rotate_create" => pc = "rotate_create" /\ UNCHANGED active_segment
      PROVE  SegmentsStable'
  <2>1. \A s : Sealed(s)' <=> Sealed(s)
    BY <1>a DEF Sealed
  <2> QED BY <1>u, <1>a, <2>1 DEF SegmentsStable
<1>w. ASSUME NEW c \in Cell, LastSegment \in SegIds, write_all(LastSegment, c), UNCHANGED <<dir, dir_durable>>,
             pc \in Recovered \ {"gc_delete", "gc_dir"}, pc' # "rotate_create"
      PROVE  SegmentsStable'
  <2>1. \A s \in SegIds : s # LastSegment /\ Sealed(s) => Sealed(s)'
    <3>1. \A s \in SegIds : s # LastSegment => cells'[s] = cells[s]
      BY <1>i, <1>w, WriteAllEffect
    <3> QED BY <1>w, <3>1 DEF Sealed, write_all
  <2>2. \A t \in dir \cup dir_durable : t <= LastSegment
    BY <1>w, LastIsDurableLast
  <2>3. \A s, t \in dir \cup dir_durable : s < t => s # LastSegment
    BY <1>t, <1>w, <2>2
  <2> QED BY <1>u, <1>s, <1>t, <1>w, <2>1, <2>3 DEF SegmentsStable
<1>d. ASSUME sync_data(active_segment), NEW s \in SegIds
      PROVE  /\ Sealed(s) => Sealed(s)'
             /\ s = active_segment /\ tail[s] # "torn" /\ cells[s] # <<>> => Sealed(s)'
  <2>1. cells'[s] = cells[s]
    BY <1>d DEF sync_data
  <2>2. synced'[s] = IF s = active_segment THEN Len(cells[s]) ELSE synced[s]
    BY <1>d, <1>t DEF sync_data
  <2>3. tail'[s] = IF s = active_segment /\ tail[s] = "cut" THEN "clean" ELSE tail[s]
    BY <1>d, <1>t DEF sync_data
  <2>4. tail[s] \in {"clean", "torn", "cut"}
    BY <1>t DEF FileTail
  <2> QED BY <2>1, <2>2, <2>3, <2>4 DEF Sealed
<1>1. CASE OpenRecover
  <2>1. UNCHANGED <<cells, synced, dir, dir_durable>> /\ pc' # "rotate_create" /\ dir_durable = dir
    BY <1>1 DEF OpenRecover, NamesStable, Rotating
  <2>2. \A s \in SegIds : s # select_active_append_segment => tail'[s] = tail[s]
    BY <1>1, <1>t DEF OpenRecover
  <2>3. \A s \in dir : s <= select_active_append_segment
    BY <1>t, SelectActive
  <2>4. select_active_append_segment \in Nat
    BY <1>t, SelectActive
  <2>5. ASSUME NEW s \in dir, NEW t \in dir, s < t
        PROVE  Sealed(s)'
    <3>1. s # select_active_append_segment
      BY <1>t, <2>3, <2>4, <2>5
    <3> QED BY <1>s, <1>t, <2>1, <2>2, <2>5, <3>1 DEF Sealed
  <2> QED BY <1>u, <2>1, <2>5 DEF SegmentsStable
<1>2. CASE OpenExisting
  <2>1. CASE UNCHANGED content
    BY <1>2, <1>a, <2>1 DEF OpenExisting
  <2>2. CASE write_all(active_segment, Header)
    BY <1>2, <1>t, <1>w, <2>2, HeaderType DEF OpenExisting, LastSegment, Recovered, Locations, Rotating
  <2> QED BY <1>2, <2>1, <2>2 DEF OpenExisting
<1>3. CASE OpenCreate
  <2>1. dir = {} /\ dir_durable = {}
    BY <1>3, <1>i DEF OpenCreate, DirInv, NamesStable, Rotating
  <2>2. dir' \cup dir_durable' = {active_segment} /\ pc' # "rotate_create"
    BY <1>3, <2>1 DEF OpenCreate
  <2> QED BY <1>u, <1>t, <2>2 DEF SegmentsStable
<1>4. CASE OpenMagic
  BY <1>4, <1>t, <1>w, HeaderType DEF OpenMagic, LastSegment, Recovered, Locations, Rotating
<1>5. CASE RotateMagic
  <2>1. LastSegment = active_segment + 1 /\ LastSegment \in SegIds
    BY <1>5, <1>i, <1>t DEF RotateMagic, LastSegment, DirInv, Rotating
  <2> QED BY <1>5, <1>w, <2>1, HeaderType DEF RotateMagic, Recovered, Locations
<1>6. CASE Write
  <2>1. [node |-> op.node, checkpoint |-> op.kind # "save_record"] \in Cell
    BY <1>i DEF Cell, TypeOK
  <2>2. LastSegment = active_segment
    BY <1>6 DEF Write, LastSegment, Rotating
  <2>3. UNCHANGED <<dir, dir_durable>> /\ pc' # "rotate_create" /\ pc = "write"
    BY <1>6 DEF Write
  <2> QED BY <1>6, <1>t, <1>w, <2>1, <2>2, <2>3 DEF Write, Recovered, Locations
<1>7. CASE RotateSync
  <2>1. UNCHANGED <<dir, dir_durable, active_segment>> /\ sync_data(active_segment)
    BY <1>7 DEF RotateSync
  <2>2. tail[active_segment] # "torn" /\ Len(cells[active_segment]) >= 1
    BY <1>7, <1>i DEF RotateSync, CompleteInv, DirInv, LenInv, Ready, Loaded, Recovered, Locations
  <2>3. Sealed(active_segment)'
    BY <1>d, <1>t, <2>1, <2>2 DEF Sealed
  <2> QED BY <1>u, <1>d, <1>s, <1>t, <2>1, <2>3 DEF SegmentsStable
<1>8. CASE AppendSync \/ SyncCall
  <2>1. WriterSync /\ UNCHANGED <<dir, dir_durable>> /\ pc' # "rotate_create"
    BY <1>8 DEF AppendSync, SyncCall, WriterSync
  <2>2. CASE sync_data(active_segment)
    BY <1>d, <1>s, <1>t, <1>u, <2>1, <2>2 DEF SegmentsStable
  <2>3. CASE UNCHANGED content
    BY <1>a, <2>1, <2>3
  <2> QED BY <2>1, <2>2, <2>3 DEF WriterSync
<1>9. CASE RotateCreate
  <2>1. UNCHANGED content /\ dir' = dir \cup {active_segment + 1} /\ dir_durable' = dir_durable
        /\ pc = "rotate_create" /\ pc' # "rotate_create"
    BY <1>9 DEF RotateCreate
  <2>2. dir_durable = dir
    BY <2>1 DEF NamesStable, Rotating
  <2>3. \A t \in dir : t <= active_segment
    BY <1>i, <2>1 DEF DirInv, LastSegment, Recovered, Locations, Rotating
  <2>4. active_segment \in dir /\ Sealed(active_segment)
    BY <1>i, <2>1 DEF DirInv, SegmentsStable, Ready, Loaded, Recovered, Locations
  <2>5. ASSUME NEW s \in dir', NEW t \in dir', s < t
        PROVE  Sealed(s)
    <3>1. s \in dir
      BY <1>t, <2>1, <2>3, <2>5
    <3>2. CASE s = active_segment
      BY <2>4, <3>2
    <3>3. CASE s # active_segment
      BY <1>s, <1>t, <2>3, <2>4, <3>1, <3>3
    <3> QED BY <3>2, <3>3
  <2>6. \A s : Sealed(s)' <=> Sealed(s)
    BY <2>1 DEF Sealed
  <2> QED BY <1>u, <2>1, <2>2, <2>5, <2>6 DEF SegmentsStable
<1>10. CASE PowerLoss
  <2>1. PICK survivors \in SUBSET (dir \cup dir_durable) :
          /\ dir' = survivors /\ dir_durable' = survivors
          /\ synced' \in KeptLengths(survivors)
          /\ \E torn \in SUBSET { s \in survivors : \/ synced'[s] < Len(cells[s])
                                                    \/ tail[s] # "clean"
                                                    \/ s \in MidWrite } :
               tail' = [s \in SegIds |-> IF s \in torn THEN "torn" ELSE "clean"]
    BY <1>10 DEF PowerLoss
  <2>2. pc' = "closed"
    BY <1>10 DEF PowerLoss, NoEngine
  <2>3. ASSUME NEW s \in survivors, NEW t \in survivors, s < t
        PROVE  Sealed(s)'
    <3>1. Sealed(s) /\ s \in SegIds
      BY <1>s, <1>t, <2>3
    <3>2. s \notin MidWrite
      BY <1>t, <2>3, MidWriteIsDurableLast
    <3>3. synced'[s] = Len(cells[s]) /\ synced'[s] \in Nat
      <4>1. synced' \in [SegIds -> Nat] /\ synced'[s] <= Len(cells[s]) /\ synced[s] <= synced'[s]
        BY <1>i, <1>t, <2>1, <2>3, <3>1, KeptLengthsBounds DEF LenInv
      <4> QED BY <1>t, <3>1, <4>1 DEF Sealed
    <3>4. tail'[s] = "clean"
      BY <2>1, <3>1, <3>2, <3>3, <1>t DEF Sealed
    <3>5. Len(cells'[s]) = synced'[s]
      BY <1>10, <1>i, <3>1, PowerLossEffect
    <3>6. cells'[s] # <<>>
      BY <1>t, <3>1, <3>3, <3>5 DEF Sealed
    <3> QED BY <3>3, <3>4, <3>5, <3>6 DEF Sealed
  <2> QED BY <1>u, <2>1, <2>2, <2>3 DEF SegmentsStable
<1>11. CASE /\ ~OpenRecover /\ ~OpenExisting /\ ~OpenCreate /\ ~OpenMagic /\ ~RotateMagic /\ ~Write
            /\ ~RotateSync /\ ~AppendSync /\ ~SyncCall /\ ~RotateCreate /\ ~PowerLoss
  <2>1. /\ UNCHANGED content
        /\ dir' \cup dir_durable' \subseteq dir \cup dir_durable
        /\ pc' = "rotate_create" => pc = "rotate_create" /\ UNCHANGED active_segment
    BY <1>11 DEF Next, Open, Begin, Proceed, AppendSteps, Fault, OpenLoad, OpenDir,
       CreateNode, SaveRecord, SaveSnapshot, RemoveNode, BeginAppend, Sync, RotateFails, RotateDir,
       IndexReplace, IndexDir, RegistryReplace, RegistryDir, GcStart, GcDelete, GcDir, Return, Close,
       ProcessCrash, LoseIndex, NoEngine, sync_dir, vars
  <2> QED BY <1>a, <2>1
<1> QED BY <1>1, <1>2, <1>3, <1>4, <1>5, <1>6, <1>7, <1>8, <1>9, <1>10, <1>11

\* A file that is being created has no record yet, so an index entry always
\* points into a segment whose name is durable.
LEMMA EntryIsDurable ==
  ASSUME IInv, NamesStable, NEW n, NEW p \in Position, GoodEntry(n, p)
  PROVE  p.seg \in dir \cap dir_durable
<1>1. p.seg \in dir /\ p.off >= 1 /\ p.off < Len(cells[p.seg])
  BY DEF GoodEntry, validate_checkpoint_position, IsRecord
<1>2. p.seg \in SegIds /\ p.off \in Nat /\ Len(cells[p.seg]) \in Nat
  BY DEF Position, IInv, TypeOK
<1>3. Len(cells[p.seg]) # 0 /\ Len(cells[p.seg]) # 1
  <2>1. \A o, l \in Nat : o >= 1 /\ o < l => l # 0 /\ l # 1
    OBVIOUS
  <2> QED BY <1>1, <1>2, <2>1
<1>4. cells[p.seg] # <<>>
  BY <1>3
<1> HIDE DEF HeaderLen
<1>5. CASE pc \in {"open_magic", "open_dir"}
  BY <1>1, <1>3, <1>4, <1>5 DEF IInv, LenInv, NamesStable, HeaderLen
<1>6. CASE pc \in Rotating
  BY <1>1, <1>3, <1>4, <1>6 DEF IInv, LenInv, NamesStable, Rotating, HeaderLen
<1>7. CASE pc \notin {"open_magic", "open_dir"} \cup Rotating
  BY <1>1, <1>7 DEF NamesStable
<1> QED BY <1>5, <1>6, <1>7

\* Both versions of both JSON files agree, and both versions of the index
\* point at synchronized checkpoints of every node that is, or after a power
\* loss may be, active.
LEMMA FilesStep ==
  ASSUME "process" \notin Faults, IInv, IInv', NamesStable, FilesStable, [Next]_vars
  PROVE  FilesStable'
<1> USE DEF content, segments, metadata, memory, writer, call
<1>i. TypeOK /\ LenInv /\ DirInv /\ OpInv /\ RecordInv /\ AgreeInv /\ IndexInv /\ GcInv /\ TypeOK' /\ LenInv'
  BY DEF IInv
<1>t. \A n \in Nodes : \A p \in {checkpoints_json[n], checkpoints_json_durable[n]} : p # None => p \in Position
  BY <1>i DEF TypeOK, CheckpointIndex
<1> DEFINE Entry(n) == {checkpoints_json[n], checkpoints_json_durable[n]}
           Either == ActiveNodes(nodes_json) \cup ActiveNodes(nodes_json_durable)
           Good == \A n \in Either : \A p \in Entry(n) : p # None => GoodEntry(n, p)
<1>e. Either \subseteq Nodes
  BY DEF ActiveNodes
<1>g. Good
  BY DEF FilesStable
<1>s. ASSUME NEW n \in Nodes, NEW p \in Position, GoodEntry(n, p), p.seg \in dir'
      PROVE  GoodEntry(n, p)'
  BY <1>i, <1>s, GoodEntryStable
<1>f. pc # "registry_dir" => nodes_json_durable = nodes_json
  BY DEF FilesStable
<1>1. (pc # "registry_dir" => nodes_json_durable = nodes_json)'
  BY <1>f DEF Next, Open, Begin, Proceed, AppendSteps, Fault, OpenRecover, OpenLoad, OpenExisting,
     OpenCreate, OpenMagic, OpenDir, CreateNode, SaveRecord, SaveSnapshot, RemoveNode, BeginAppend, Sync,
     RotateSync, RotateFails, RotateCreate, RotateMagic, RotateDir, Write, AppendSync, SyncCall, WriterSync,
     IndexReplace, IndexDir, RegistryReplace, RegistryDir, GcStart, GcDelete, GcDir, Return, Close, ProcessCrash,
     PowerLoss, LoseIndex, NoEngine, sync_dir, vars
<1>2. (pc \in Collecting \/ (op.kind = "create_node" /\ pc \in {"registry_replace", "registry_dir"}) =>
         checkpoints_json_durable = checkpoints_json)'
  BY <1>i DEF FilesStable, Collecting, Next, Open, Begin, Proceed, AppendSteps, Fault, OpenRecover, OpenLoad,
     OpenExisting, OpenCreate, OpenMagic, OpenDir, CreateNode, SaveRecord, SaveSnapshot, RemoveNode, BeginAppend,
     Sync, RotateSync, RotateFails, RotateCreate, RotateMagic, RotateDir, Write, AppendSync, SyncCall, WriterSync,
     IndexReplace, IndexDir, RegistryReplace, RegistryDir, GcStart, GcDelete, GcDir, Return, Close, ProcessCrash,
     PowerLoss, LoseIndex, NoEngine, sync_dir, vars
<1>3. Good'
  <2>1. CASE IndexReplace
    <3>1. /\ UNCHANGED <<nodes_json, nodes_json_durable, checkpoints_json_durable, dir, registry>>
          /\ checkpoints_json' = NewIndex /\ pc = "index_replace"
      BY <2>1 DEF IndexReplace
    <3>2. nodes_json_durable = nodes_json /\ nodes_json = registry
      BY <1>i, <3>1 DEF FilesStable, AgreeInv, Loaded, Recovered, Locations
    <3>3. ASSUME NEW n \in Nodes, registry[n] = "active", NewIndex[n] # None
          PROVE  GoodEntry(n, NewIndex[n])'
      <4>1. GoodEntry(n, NewIndex[n])
        BY <1>i, <3>1, <3>3, NewIndexGood
      <4>2. UNCHANGED <<cells, synced, dir>>
        BY <2>1 DEF IndexReplace
      <4>3. UNCHANGED NewIndex
        BY <2>1 DEF IndexReplace, NewIndex
      <4> QED BY <4>1, <4>2, <4>3 DEF GoodEntry
    <3>4. UNCHANGED NewIndex /\ UNCHANGED <<cells, synced, dir>>
      BY <2>1 DEF IndexReplace, NewIndex
    <3>5. ASSUME NEW n \in Either', NEW p \in Entry(n)', p # None
          PROVE  GoodEntry(n, p)'
      <4>1. n \in Nodes /\ registry[n] = "active" /\ n \in Either
        BY <3>1, <3>2 DEF ActiveNodes
      <4>2. CASE p = NewIndex[n]
        BY <3>3, <3>4, <3>5, <4>1, <4>2
      <4>3. CASE p = checkpoints_json_durable[n]
        <5>1. GoodEntry(n, p)
          BY <1>g, <3>5, <4>1, <4>3
        <5> QED BY <3>4, <5>1 DEF GoodEntry
      <4> QED BY <3>1, <3>5, <4>2, <4>3
    <3> QED BY <3>5
  <2>2. CASE RegistryReplace
    <3>1. /\ UNCHANGED <<nodes_json_durable, checkpoints_json, checkpoints_json_durable, cells, synced, dir, registry>>
          /\ nodes_json' = NewRegistry /\ pc = "registry_replace"
      BY <2>2 DEF RegistryReplace
    <3>2. nodes_json_durable = nodes_json /\ nodes_json = registry /\ op.node \in Nodes
      BY <1>i, <3>1 DEF FilesStable, AgreeInv, OpInv, Loaded, Recovered, Locations
    <3>3. ASSUME NEW n \in Either', NEW p \in Entry(n)', p # None
          PROVE  GoodEntry(n, p)
      <4>1. n \in Nodes /\ p \in Entry(n)
        BY <3>1 DEF ActiveNodes
      <4>2. CASE n \in Either
        BY <1>g, <3>3, <4>1, <4>2
      <4>3. CASE n \notin Either
        <5>1. registry[n] # "active" /\ NewRegistry[n] = "active"
          BY <3>1, <3>2, <4>1, <4>3 DEF ActiveNodes
        <5>2. n = op.node /\ op.kind # "remove_node"
          BY <1>i, <4>1, <5>1 DEF NewRegistry, TypeOK, Registry
        <5>3. op.kind = "create_node"
          BY <1>i, <3>1, <5>2 DEF OpInv
        <5>4. checkpoints_json[n] = record_position /\ checkpoints_json_durable = checkpoints_json
          BY <1>i, <3>1, <5>2, <5>3 DEF RecordInv, FilesStable
        <5>5. GoodEntry(op.node, record_position)
          BY <1>i, <3>1, <5>3, RecordIsGood
        <5> QED BY <4>1, <5>2, <5>4, <5>5
      <4> QED BY <4>2, <4>3
    <3> QED BY <3>1, <3>3 DEF GoodEntry
  <2>3. ASSUME ~IndexReplace, ~RegistryReplace,
               \A n \in Either : \A p \in Position : GoodEntry(n, p) /\ p \in Entry(n) => p.seg \in dir'
        PROVE  Good'
    <3>1. Either' \subseteq Either
      BY <2>3, ActiveIsOld
    <3>2. checkpoints_json' \in {checkpoints_json, checkpoints_json_durable, NoIndex}
          /\ checkpoints_json_durable' \in {checkpoints_json, checkpoints_json_durable}
      BY <2>3 DEF Next, Open, Begin, Proceed, AppendSteps, Fault, OpenRecover, OpenLoad, OpenExisting,
         OpenCreate, OpenMagic, OpenDir, CreateNode, SaveRecord, SaveSnapshot, RemoveNode, BeginAppend, Sync,
         RotateSync, RotateFails, RotateCreate, RotateMagic, RotateDir, Write, AppendSync, SyncCall, WriterSync,
         IndexDir, RegistryDir, GcStart, GcDelete, GcDir, Return, Close, ProcessCrash,
         PowerLoss, LoseIndex, NoEngine, sync_dir, vars
    <3>3. ASSUME NEW n \in Either', NEW p \in Entry(n)', p # None
          PROVE  GoodEntry(n, p)'
      <4>1. n \in Either /\ n \in Nodes
        BY <1>e, <3>1
      <4>2. p \in Entry(n)
        BY <3>2, <3>3, <4>1 DEF NoIndex
      <4>3. GoodEntry(n, p) /\ p \in Position
        BY <1>g, <1>t, <3>3, <4>1, <4>2
      <4> QED BY <1>s, <2>3, <4>1, <4>2, <4>3
    <3> QED BY <3>3
  <2>4. CASE PowerLoss
    <3>1. dir \cap dir_durable \subseteq dir'
      BY <2>4 DEF PowerLoss
    <3>2. ~IndexReplace /\ ~RegistryReplace
      BY <2>4 DEF PowerLoss, NoEngine, IndexReplace, RegistryReplace
    <3> QED BY <2>3, <3>1, <3>2, EntryIsDurable
  <2>5. CASE GcDelete
    <3>1. PICK s \in gc_segments : dir' = dir \ {s}
      BY <2>5 DEF GcDelete
    <3>2. pc = "gc_delete"
      BY <2>5 DEF GcDelete
    <3>3. /\ checkpoints_json = checkpoint_index /\ checkpoints_json_durable = checkpoints_json
          /\ nodes_json_durable = nodes_json /\ nodes_json = registry
      BY <1>i, <3>2 DEF AgreeInv, FilesStable, Collecting, Loaded, Recovered, Locations
    <3>4. ASSUME NEW n \in Either, NEW p \in Position, GoodEntry(n, p), p \in Entry(n)
          PROVE  p.seg \in dir'
      <4>1. p = checkpoint_index[n] /\ n \in ActiveNodes(registry)
        BY <3>3, <3>4
      <4>2. s < p.seg
        BY <1>i, <4>1 DEF GcInv, allows_delete
      <4>t. s \in Nat
        BY <1>i, SegmentIdAssumption DEF TypeOK, SegIds
      <4>3. p.seg # s
        BY <4>2, <4>t
      <4> QED BY <3>1, <3>4, <4>3 DEF GoodEntry, validate_checkpoint_position
    <3> QED BY <2>3, <2>5, <3>4 DEF GcDelete, IndexReplace, RegistryReplace
  <2>6. CASE ~IndexReplace /\ ~RegistryReplace /\ ~PowerLoss /\ ~GcDelete
    <3>1. dir \subseteq dir'
      BY <2>6 DEF Next, Open, Begin, Proceed, AppendSteps, Fault, OpenRecover, OpenLoad, OpenExisting,
         OpenCreate, OpenMagic, OpenDir, CreateNode, SaveRecord, SaveSnapshot, RemoveNode, BeginAppend, Sync,
         RotateSync, RotateFails, RotateCreate, RotateMagic, RotateDir, Write, AppendSync, SyncCall, WriterSync,
         IndexDir, RegistryDir, GcStart, GcDir, Return, Close, ProcessCrash, LoseIndex, NoEngine, sync_dir, vars
    <3> QED BY <2>3, <2>6, <3>1 DEF GoodEntry, validate_checkpoint_position
  <2> QED BY <2>1, <2>2, <2>4, <2>5, <2>6
<1> QED BY <1>1, <1>2, <1>3 DEF FilesStable

\* A directory in this state is never refused.
LEMMA StableIsOpenable ==
  ASSUME IInv, StableInv, [Next]_vars
  PROVE  pc' # "refused"
<1>t. dir \subseteq SegIds /\ SegIds \subseteq Nat
  BY SegmentIdAssumption DEF IInv, TypeOK, SegIds
<1>1. CASE OpenRecover
  <2>1. /\ select_active_append_segment \in SegIds
        /\ dir # {} => select_active_append_segment \in dir
        /\ \A s \in dir : s <= select_active_append_segment
    BY <1>t, SelectActive
  <2>2. \A s \in dir \ {select_active_append_segment} : Sealed(s)
    BY <1>t, <2>1 DEF StableInv, SegmentsStable
  <2> QED BY <1>1, <2>2 DEF OpenRecover, Sealed, Complete
<1>2. CASE OpenLoad
  BY <1>2 DEF OpenLoad, StableInv, FilesStable, ActiveNodes, GoodEntry
<1>3. CASE ~OpenRecover /\ ~OpenLoad
  <2>1. pc # "refused"
    BY DEF StableInv
  <2> QED
    BY <1>3, <2>1 DEF Next, Open, Begin, Proceed, AppendSteps, Fault, OpenExisting, OpenCreate, OpenMagic,
       OpenDir, CreateNode, SaveRecord, SaveSnapshot, RemoveNode, BeginAppend, Sync, RotateSync, RotateFails,
       RotateCreate, RotateMagic, RotateDir, Write, AppendSync, SyncCall, IndexReplace, IndexDir, RegistryReplace,
       RegistryDir, GcStart, GcDelete, GcDir, Return, Close, ProcessCrash, PowerLoss, LoseIndex, NoEngine, vars
<1> QED BY <1>1, <1>2, <1>3

LEMMA InitStable == Init => StableInv
<1> SUFFICES ASSUME Init
             PROVE  StableInv
  OBVIOUS
<1>1. pc # "refused" /\ NamesStable /\ SegmentsStable
  BY DEF Init, NamesStable, SegmentsStable, Rotating
<1>2. FilesStable
  BY DEF Init, FilesStable, Collecting, NoOp, NoRegistry, ActiveNodes
<1> QED BY <1>1, <1>2 DEF StableInv

LEMMA StableInvariance == "process" \notin Faults => (Spec => []StableInv)
<1> SUFFICES ASSUME "process" \notin Faults
             PROVE  Spec => []StableInv
  OBVIOUS
<1>1. IInv /\ IInv' /\ StableInv /\ [Next]_vars => StableInv'
  <2> SUFFICES ASSUME IInv, IInv', StableInv, [Next]_vars
               PROVE  StableInv'
    OBVIOUS
  <2>1. NamesStable /\ SegmentsStable /\ FilesStable
    BY DEF StableInv
  <2>2. NamesStable'
    BY <2>1, NamesStep
  <2>3. SegmentsStable'
    BY <2>1, SegmentsStep
  <2>4. FilesStable'
    BY <2>1, FilesStep
  <2> QED BY <2>2, <2>3, <2>4, StableIsOpenable DEF StableInv
<1> QED BY <1>1, InitStable, Invariance, PTL DEF Spec

\* Opening succeeds after any number of faults of one kind: process crashes
\* or power losses, at any system call, and with checkpoints.json deleted or
\* not.  (Both kinds together can leave a directory that
\* with_max_segment_len refuses: the run UnsyncedSegmentName.)
THEOREM OpeningSucceeds ==
  "process" \notin Faults \/ "power" \notin Faults => (Spec => []NeverRefused)
<1>1. OpenableInv => NeverRefused
  BY DEF OpenableInv, NeverRefused
<1>2. StableInv => NeverRefused
  BY DEF StableInv, NeverRefused
<1>3. CASE "process" \notin Faults
  <2>1. Spec => []StableInv
    BY <1>3, StableInvariance
  <2> QED BY <1>2, <2>1, PTL
<1>4. CASE "power" \notin Faults
  <2>1. Spec => []OpenableInv
    BY <1>4, OpenableInvariance
  <2> QED BY <1>1, <2>1, PTL
<1> QED BY <1>3, <1>4

\* Without process crashes an index entry of an active node points at a
\* checkpoint that power loss cannot take away: its record is synchronized
\* and the name of its segment is durable.
THEOREM IndexIsDurable == "process" \notin Faults => (Spec => []IndexPointsAtDurableRecord)
<1> SUFFICES ASSUME "process" \notin Faults
             PROVE  Spec => []IndexPointsAtDurableRecord
  OBVIOUS
<1>1. IInv /\ StableInv => IndexPointsAtDurableRecord
  <2> SUFFICES ASSUME IInv, StableInv, NEW n \in ActiveNodes(nodes_json), checkpoints_json[n] # None
               PROVE  Durable(checkpoints_json[n])
    BY DEF IndexPointsAtDurableRecord
  <2>1. checkpoints_json[n] \in Position
    BY DEF IInv, TypeOK, CheckpointIndex, ActiveNodes
  <2>2. GoodEntry(n, checkpoints_json[n])
    BY DEF StableInv, FilesStable
  <2>3. checkpoints_json[n].seg \in dir \cap dir_durable
    BY <2>1, <2>2, EntryIsDurable DEF StableInv
  <2> QED BY <2>2, <2>3 DEF Durable, GoodEntry
<1>2. Spec => []StableInv
  BY StableInvariance
<1> QED BY <1>1, <1>2, Invariance, PTL

-------------------------------------------------------------------------------
(***************************************************************************)
(* The count of unsynchronized records.                                    *)
(***************************************************************************)

\* unsynced_records is 0 only when what this instance appended to the active
\* segment is synchronized; a rotation synchronizes before it switches.
LEMMA PendingStep ==
  ASSUME IInv, PendingInv, [Next]_vars
  PROVE  PendingInv'
<1> USE DEF PendingInv, Ready, Loaded, Recovered, Locations, content, segments, metadata, memory, writer, call
<1>i. TypeOK /\ LenInv /\ active_segment \in SegIds /\ unsynced_records \in Nat
  BY DEF IInv, TypeOK
<1>1. CASE Open
  BY <1>1 DEF Open, OpenRecover, OpenLoad, OpenExisting, OpenCreate, OpenMagic, OpenDir
<1>2. CASE RotateMagic
  <2>1. active_segment + 1 \in SegIds /\ active_segment + 1 # active_segment
    BY <1>2, <1>i, SegmentIdAssumption DEF IInv, TypeOK, DirInv, RotateMagic, Rotating, SegIds
  <2>2. cells'[active_segment] = cells[active_segment]
    BY <1>2, <1>i, <2>1, WriteAllEffect, HeaderType DEF RotateMagic
  <2> QED BY <1>2, <2>2 DEF RotateMagic, write_all
<1>3. CASE Write
  BY <1>3, <1>i DEF Write
<1>4. CASE RotateSync
  BY <1>4, <1>i, SyncDataEffect DEF RotateSync
<1>5. CASE AppendSync \/ SyncCall
  <2>1. /\ cells' = cells
        /\ unsynced_records # 0 => synced'[active_segment] = Len(cells[active_segment])
        /\ unsynced_records = 0 => UNCHANGED synced
    BY <1>5, <1>i, WriterSyncEffect DEF AppendSync, SyncCall, WriterSync
  <2> QED BY <1>5, <2>1 DEF AppendSync, SyncCall, WriterSync
<1>6. CASE RotateDir
  BY <1>6 DEF RotateDir
<1>7. CASE Close \/ Fault
  BY <1>7 DEF Close, Fault, ProcessCrash, PowerLoss, LoseIndex, NoEngine
<1>8. CASE /\ ~Open /\ ~RotateMagic /\ ~Write /\ ~RotateSync /\ ~AppendSync /\ ~SyncCall /\ ~RotateDir
           /\ ~Close /\ ~Fault
  <2>1. UNCHANGED <<content, active_segment, unsynced_records, appended>>
    BY <1>8 DEF Next, Begin, Proceed, AppendSteps, CreateNode, SaveRecord, SaveSnapshot, RemoveNode, BeginAppend,
       Sync, RotateFails, RotateCreate, IndexReplace, IndexDir, RegistryReplace, RegistryDir, GcStart, GcDelete,
       GcDir, Return, vars
  <2>2. (pc' \in Ready <=> pc \in Ready) /\ (pc = "write" => pc' = "write")
    BY <1>8 DEF Next, Begin, Proceed, AppendSteps, CreateNode, SaveRecord, SaveSnapshot, RemoveNode, BeginAppend,
       Sync, RotateFails, RotateCreate, IndexReplace, IndexDir, RegistryReplace, RegistryDir, GcStart, GcDelete,
       GcDir, Return, vars
  <2> QED BY <2>1, <2>2
<1> QED BY <1>1, <1>2, <1>3, <1>4, <1>5, <1>6, <1>7, <1>8

LEMMA PendingInvariance == Spec => []PendingInv
<1>1. Init => PendingInv
  BY DEF Init, PendingInv, Ready, Loaded, Recovered
<1>2. IInv /\ PendingInv /\ [Next]_vars => PendingInv'
  BY PendingStep
<1> QED BY <1>1, <1>2, Invariance, PTL DEF Spec

\* Without process crashes, when SegmentWriter::sync may skip fdatasync,
\* everything the instance appended is on stable storage, in a file whose
\* name is.
THEOREM SkippedSyncIsDurable == "process" \notin Faults => (Spec => []SyncIsDurable)
<1> SUFFICES ASSUME "process" \notin Faults
             PROVE  Spec => []SyncIsDurable
  OBVIOUS
<1>1. IInv /\ StableInv /\ PendingInv => SyncIsDurable
  <2> SUFFICES ASSUME IInv, StableInv, PendingInv, pc = "idle", appended, unsynced_records = 0
               PROVE  synced[active_segment] = Len(cells[active_segment]) /\ active_segment \in dir_durable
    BY DEF SyncIsDurable
  <2>1. active_segment \in dir /\ dir_durable = dir
    BY DEF IInv, DirInv, StableInv, NamesStable, Rotating, Ready, Loaded, Recovered, Locations
  <2>2. synced[active_segment] = Len(cells[active_segment])
    BY DEF PendingInv, Ready, Loaded, Recovered, Locations
  <2> QED BY <2>1, <2>2
<1>2. Spec => []StableInv
  BY StableInvariance
<1> QED BY <1>1, <1>2, Invariance, PendingInvariance, PTL

-------------------------------------------------------------------------------
(***************************************************************************)
(* Calls, whatever the faults.                                             *)
(***************************************************************************)

LEMMA CallStep ==
  ASSUME IInv, CallInv, [Next]_vars
  PROVE  CallInv'
<1> USE DEF CallInv, Collects, Collecting, content, segments, metadata, memory, writer, call
<1>i. OpInv
  BY DEF IInv
<1>1. CASE Open
  BY <1>1 DEF Open, OpenRecover, OpenLoad, OpenExisting, OpenCreate, OpenMagic, OpenDir
<1>2. CASE Begin
  BY <1>2 DEF Begin, CreateNode, SaveRecord, SaveSnapshot, RemoveNode, BeginAppend, Sync
<1>3. CASE AppendSteps
  <2>1. CASE Write
    BY <2>1, <1>i DEF Write, OpInv
  <2>2. CASE ~Write
    BY <1>3, <2>2 DEF AppendSteps, RotateSync, RotateFails, RotateCreate, RotateMagic, RotateDir, AppendSync, WriterSync
  <2> QED BY <2>1, <2>2
<1>4. CASE SyncCall
  BY <1>4 DEF SyncCall, WriterSync
<1>5. CASE IndexReplace \/ RegistryReplace
  BY <1>5 DEF IndexReplace, RegistryReplace
<1>6. CASE IndexDir
  BY <1>6, <1>i DEF IndexDir, OpInv
<1>7. CASE RegistryDir
  BY <1>7, <1>i DEF RegistryDir, OpInv
<1>8. CASE GcStart \/ GcDelete \/ GcDir
  BY <1>8 DEF GcStart, GcDelete, GcDir
<1>9. CASE Return \/ Close \/ Fault
  BY <1>9 DEF Return, Close, Fault, ProcessCrash, PowerLoss, LoseIndex, NoEngine
<1>10. CASE UNCHANGED vars
  BY <1>10 DEF vars
<1> QED BY <1>1, <1>2, <1>3, <1>4, <1>5, <1>6, <1>7, <1>8, <1>9, <1>10 DEF Next, Proceed

\* The checkpoint of create_node and save_snapshot.  Until the index is
\* synchronized RecordInv says what is needed.
LEMMA CheckpointStep ==
  ASSUME IInv, IInv', CallInv, CheckpointInv, [Next]_vars
  PROVE  CheckpointInv'
<1> USE DEF content, segments, metadata, memory, writer, call
<1>i. /\ TypeOK /\ DirInv /\ LenInv /\ OpInv /\ RecordInv /\ AgreeInv /\ GcInv /\ RecordInv' /\ DirInv'
  BY DEF IInv
<1> DEFINE Appended == {"append_sync", "index_replace", "index_dir", "registry_replace", "registry_dir"}
           Indexed == {"return"} \cup Collecting
<1>w. ASSUME op'.kind \in {"create_node", "save_snapshot"}, pc' \in Appended,
             record_position' = [seg |-> active_segment', off |-> segment_len' - 1],
             pc' \in {"registry_replace", "registry_dir"} =>
               checkpoints_json_durable'[op'.node] = record_position'
      PROVE  CheckpointInv'
  BY <1>w, <1>i DEF CheckpointInv, RecordInv, Collecting
<1>1. CASE Write
  <2>1. CASE op.kind = "save_record"
    BY <1>1, <2>1 DEF Write, CheckpointInv
  <2>2. CASE op.kind # "save_record"
    <3>1. pc' = "append_sync" /\ op' = op /\ op.kind \in {"create_node", "save_snapshot"}
      BY <1>1, <1>i, <2>2 DEF Write, OpInv
    <3>2. segment_len' - 1 = segment_len
      BY <1>1, <1>i DEF Write, TypeOK
    <3>3. record_position' = [seg |-> active_segment', off |-> segment_len' - 1]
      BY <1>1, <3>2 DEF Write
    <3> QED BY <1>w, <3>1, <3>3
  <2> QED BY <2>1, <2>2
<1>2. CASE AppendSync
  BY <1>2, <1>w DEF AppendSync, WriterSync, CheckpointInv
<1>3. CASE IndexReplace \/ RegistryReplace
  BY <1>3, <1>w DEF IndexReplace, RegistryReplace, CheckpointInv
<1>4. CASE IndexDir
  <2> SUFFICES ASSUME op.kind \in {"create_node", "save_snapshot"}
               PROVE  CheckpointInv'
    BY <1>4 DEF IndexDir, CheckpointInv
  <2>1. /\ UNCHANGED <<cells, synced, dir, active_segment, segment_len, record_position, op>>
        /\ checkpoints_json' = checkpoints_json /\ checkpoints_json_durable' = checkpoints_json
        /\ dir_durable' = dir /\ pc = "index_dir"
    BY <1>4 DEF IndexDir, sync_dir
  <2>2. op.node \in Nodes /\ checkpoints_json = NewIndex
    BY <1>i, <2>1 DEF OpInv, AgreeInv
  <2>3. checkpoints_json[op.node] = record_position
    BY <1>i, <2>2 DEF NewIndex, TypeOK, CheckpointIndex
  <2>4. active_segment \in dir
    BY <1>i, <2>1 DEF DirInv, Ready, Loaded, Recovered, Locations
  <2> QED BY <2>1, <2>3, <2>4 DEF CheckpointInv
<1>5. CASE RegistryDir
  <2> SUFFICES ASSUME op.kind \in {"create_node", "save_snapshot"}
               PROVE  CheckpointInv'
    BY <1>5 DEF RegistryDir, CheckpointInv
  <2>1. /\ UNCHANGED <<cells, synced, dir, active_segment, segment_len, record_position, op>>
        /\ checkpoints_json' = checkpoints_json /\ checkpoints_json_durable' = checkpoints_json
        /\ dir_durable' = dir /\ pc = "registry_dir"
    BY <1>5 DEF RegistryDir, sync_dir
  <2>2. active_segment \in dir
    BY <1>i, <2>1 DEF DirInv, Ready, Loaded, Recovered, Locations
  <2> QED BY <2>1, <2>2 DEF CheckpointInv
<1>6. CASE GcStart
  BY <1>6 DEF GcStart, CheckpointInv, Collecting
<1>7. CASE GcDelete
  <2>1. PICK s \in gc_segments : dir' = dir \ {s}
    BY <1>7 DEF GcDelete
  <2>2. s # active_segment
    BY <1>i DEF GcInv
  <2>3. /\ UNCHANGED <<cells, synced, dir_durable, active_segment, segment_len, record_position, op,
                       checkpoints_json, checkpoints_json_durable>>
        /\ pc = "gc_delete" /\ pc' \in {"gc_delete", "gc_dir"}
    BY <1>7 DEF GcDelete
  <2> QED BY <2>1, <2>2, <2>3 DEF CheckpointInv, Collecting, validate_checkpoint_position
<1>8. CASE GcDir
  <2>1. /\ UNCHANGED <<cells, synced, dir, active_segment, segment_len, record_position, op>>
        /\ checkpoints_json' = checkpoints_json /\ checkpoints_json_durable' = checkpoints_json
        /\ dir_durable' = dir /\ pc = "gc_dir" /\ pc' = "return"
    BY <1>8 DEF GcDir, sync_dir
  <2>2. active_segment \in dir
    BY <1>i, <2>1 DEF DirInv, Ready, Loaded, Recovered, Locations
  <2> QED BY <2>1, <2>2 DEF CheckpointInv, Collecting
<1>9. CASE SyncCall
  BY <1>9 DEF SyncCall, WriterSync, CallInv, CheckpointInv
<1>10. CASE UNCHANGED vars
  BY <1>10 DEF vars, CheckpointInv
<1>11. CASE Open \/ Begin \/ Return \/ Close \/ Fault \/ RotateSync \/ RotateFails \/ RotateCreate \/ RotateMagic
            \/ RotateDir
  <2>1. pc' \notin Appended \cup Indexed \/ op'.kind = "remove_node"
    BY <1>11 DEF Collecting, Open, Begin, Fault, OpenRecover, OpenLoad, OpenExisting, OpenCreate, OpenMagic, OpenDir,
       CreateNode, SaveRecord, SaveSnapshot, RemoveNode, BeginAppend, Sync, RotateSync, RotateFails, RotateCreate,
       RotateMagic, RotateDir, Return, Close, ProcessCrash, PowerLoss, LoseIndex, NoEngine
  <2> QED BY <2>1 DEF CheckpointInv
<1> QED BY <1>1, <1>2, <1>3, <1>4, <1>5, <1>6, <1>7, <1>8, <1>9, <1>10, <1>11 DEF Next, Proceed, AppendSteps

\* The status of a node, current or durable, is a status.
LEMMA RankValues ==
  /\ Rank("unknown") = 0 /\ Rank("active") = 1 /\ Rank("removed") = 2
  /\ \A st \in Status : Rank(st) \in Nat /\ Rank(st) <= 2
  BY DEF Rank, Status

\* Every step leaves the current and the durable registry as they are or
\* replaces one of them by the other, except the renaming of nodes.json.
LEMMA RegistryVersions ==
  ASSUME [Next]_vars
  PROVE  /\ nodes_json_durable' \in {nodes_json, nodes_json_durable}
         /\ RegistryReplace \/ nodes_json' = nodes_json \/ nodes_json' = nodes_json_durable'
         /\ RegistryReplace => nodes_json_durable' = nodes_json_durable /\ nodes_json' = NewRegistry
  BY DEF Next, Open, Begin, Proceed, AppendSteps, Fault, OpenRecover, OpenLoad, OpenExisting, OpenCreate,
     OpenMagic, OpenDir, CreateNode, SaveRecord, SaveSnapshot, RemoveNode, Sync, RotateSync, RotateFails,
     RotateCreate, RotateMagic, RotateDir, Write, AppendSync, SyncCall, WriterSync, IndexReplace, IndexDir,
     RegistryReplace, RegistryDir, GcStart, GcDelete, GcDir, Return, Close, ProcessCrash, PowerLoss, LoseIndex,
     NoEngine, sync_dir, metadata, vars

\* A node only ever moves on from unknown to active to removed, and its
\* current status is never behind its durable one.
LEMMA RegistryStep ==
  ASSUME IInv, IInv', CallInv, RegistryInv, [Next]_vars
  PROVE  RegistryInv'
<1> USE DEF content, segments, metadata, memory, writer, call
<1>i. TypeOK /\ OpInv /\ AgreeInv /\ TypeOK'
  BY DEF IInv
<1>t. \A n \in Nodes : /\ nodes_json[n] \in Status /\ nodes_json_durable[n] \in Status
                       /\ nodes_json'[n] \in Status /\ nodes_json_durable'[n] \in Status
  BY <1>i DEF TypeOK, Registry
<1>1. (op.kind = "create_node" /\ pc = "return" => nodes_json_durable[op.node] = "active")'
  <2>1. CASE RegistryDir
    <3>1. op.node \in Nodes /\ nodes_json = NewRegistry /\ pc = "registry_dir"
      BY <1>i, <2>1 DEF RegistryDir, OpInv, AgreeInv, Loaded, Recovered, Locations
    <3>2. op.kind = "create_node" => NewRegistry[op.node] = "active"
      BY <1>i, <3>1 DEF NewRegistry, TypeOK, Registry
    <3> QED BY <2>1, <3>1, <3>2 DEF RegistryDir, sync_dir
  <2>2. CASE ~RegistryDir
    <3>1. (op.kind = "create_node" /\ pc = "return")' => UNCHANGED vars
      BY <1>i, <2>2 DEF CallInv, Collects, Collecting, OpInv, Next, Open, Begin, Proceed, AppendSteps, Fault,
         OpenRecover, OpenLoad, OpenExisting, OpenCreate, OpenMagic, OpenDir, CreateNode, SaveRecord, SaveSnapshot,
         RemoveNode, BeginAppend, Sync, RotateSync, RotateFails, RotateCreate, RotateMagic, RotateDir, Write,
         AppendSync, SyncCall, WriterSync, IndexReplace, IndexDir, RegistryReplace, GcStart, GcDelete, GcDir,
         Return, Close, ProcessCrash, PowerLoss, LoseIndex, NoEngine, NoOp
    <3> QED BY <3>1 DEF RegistryInv, vars
  <2> QED BY <2>1, <2>2
<1>2. (op.kind = "remove_node" /\ pc \in {"index_replace", "index_dir", "return"} \cup Collecting =>
         nodes_json[op.node] = "removed" /\ nodes_json_durable[op.node] = "removed")'
  <2>1. CASE RegistryDir
    <3>1. op.node \in Nodes /\ nodes_json = NewRegistry /\ pc = "registry_dir"
      BY <1>i, <2>1 DEF RegistryDir, OpInv, AgreeInv, Loaded, Recovered, Locations
    <3>2. op.kind = "remove_node" => NewRegistry[op.node] = "removed"
      BY <1>i, <3>1 DEF NewRegistry, TypeOK, Registry
    <3> QED BY <2>1, <3>1, <3>2 DEF RegistryDir, sync_dir
  <2>2. CASE IndexReplace \/ IndexDir \/ GcStart \/ GcDelete \/ GcDir
    BY <2>2 DEF RegistryInv, IndexReplace, IndexDir, GcStart, GcDelete, GcDir, sync_dir, Collecting
  <2>3. CASE ~RegistryDir /\ ~IndexReplace /\ ~IndexDir /\ ~GcStart /\ ~GcDelete /\ ~GcDir
    <3>1. (op.kind = "remove_node" /\ pc \in {"index_replace", "index_dir", "return"} \cup Collecting)' =>
            UNCHANGED vars
      BY <1>i, <2>3 DEF CallInv, Collects, Collecting, OpInv, Next, Open, Begin, Proceed, AppendSteps, Fault,
         OpenRecover, OpenLoad, OpenExisting, OpenCreate, OpenMagic, OpenDir, CreateNode, SaveRecord, SaveSnapshot,
         RemoveNode, BeginAppend, Sync, RotateSync, RotateFails, RotateCreate, RotateMagic, RotateDir, Write,
         AppendSync, SyncCall, WriterSync, RegistryReplace, Return, Close, ProcessCrash, PowerLoss, LoseIndex,
         NoEngine, NoOp
    <3> QED BY <3>1 DEF RegistryInv, vars, Collecting
  <2> QED BY <2>1, <2>2, <2>3
<1>3. (op.kind = "create_node" /\ pc \in Ready \ {"idle", "return"} => registry[op.node] = "unknown")'
  <2>1. CASE Begin
    BY <2>1 DEF Begin, CreateNode, SaveRecord, SaveSnapshot, RemoveNode, BeginAppend, Sync
  <2>2. CASE ~Begin
    <3>1. (op.kind = "create_node" /\ pc \in Ready \ {"idle", "return"})' =>
            /\ pc \in Ready \ {"idle", "return"}
            /\ UNCHANGED <<op, registry>>
      BY <2>2 DEF Ready, Loaded, Recovered, Locations, Next, Open, Proceed, AppendSteps, Fault,
         OpenRecover, OpenLoad, OpenExisting, OpenCreate, OpenMagic, OpenDir, RotateSync, RotateFails, RotateCreate,
         RotateMagic, RotateDir, Write, AppendSync, SyncCall, WriterSync, IndexReplace, IndexDir, RegistryReplace,
         RegistryDir, GcStart, GcDelete, GcDir, Return, Close, ProcessCrash, PowerLoss, LoseIndex, NoEngine, NoOp,
         vars
    <3> QED BY <3>1 DEF RegistryInv, Ready
  <2> QED BY <2>1, <2>2
<1>4. ASSUME NEW n \in Nodes
      PROVE  Rank(nodes_json_durable'[n]) <= Rank(nodes_json'[n])
  <2>1. Rank(nodes_json_durable[n]) <= Rank(nodes_json[n])
    BY DEF RegistryInv
  <2>t. /\ Rank(nodes_json[n]) \in Nat /\ Rank(nodes_json_durable[n]) \in Nat /\ Rank(nodes_json'[n]) \in Nat
        /\ Rank(nodes_json_durable'[n]) \in Nat /\ Rank(nodes_json_durable[n]) <= 2
    BY <1>t, RankValues
  <2>2. CASE RegistryReplace
    <3>1. /\ nodes_json' = NewRegistry /\ nodes_json_durable' = nodes_json_durable /\ pc = "registry_replace"
          /\ nodes_json = registry
      BY <1>i, <2>2 DEF RegistryReplace, AgreeInv, Loaded, Recovered, Locations
    <3>2. CASE n # op.node
      <4>1. nodes_json'[n] = nodes_json[n]
        BY <1>i, <3>1, <3>2 DEF NewRegistry, TypeOK, Registry
      <4> QED BY <2>1, <3>1, <4>1
    <3>3. CASE n = op.node /\ op.kind = "remove_node"
      <4>1. nodes_json'[n] = "removed"
        BY <1>i, <3>1, <3>3 DEF NewRegistry, TypeOK, Registry
      <4> QED BY <2>t, <3>1, <4>1, RankValues
    <3>4. CASE n = op.node /\ op.kind # "remove_node"
      <4>1. registry[n] = "unknown"
        BY <1>i, <3>1, <3>4 DEF OpInv, RegistryInv, Ready, Loaded, Recovered, Locations
      <4>2. Rank(nodes_json_durable'[n]) = 0
        BY <2>1, <2>t, <3>1, <4>1, RankValues
      <4> QED BY <2>t, <4>2
    <3> QED BY <3>2, <3>3, <3>4
  <2>3. CASE ~RegistryReplace
    BY <2>1, <2>3, <2>t, RegistryVersions
  <2> QED BY <2>2, <2>3
<1> QED BY <1>1, <1>2, <1>3, <1>4 DEF RegistryInv

\* collect_garbage works on the durable registry and index, and lists every
\* segment that it may delete.
LEMMA CollectStep ==
  ASSUME IInv, CallInv, CollectInv, [Next]_vars
  PROVE  CollectInv'
<1> USE DEF content, segments, metadata, memory, writer, call
<1>i. OpInv /\ AgreeInv
  BY DEF IInv
<1>1. CASE IndexDir
  BY <1>1, <1>i DEF IndexDir, sync_dir, AgreeInv, CollectInv, Collecting
<1>2. CASE GcStart
  <2>1. /\ UNCHANGED <<dir, dir_durable, metadata, memory, active_segment, op>> /\ pc = "gc"
        /\ gc_segments' = { s \in dir \ {active_segment} : allows_delete(s) }
        /\ pc' \in {"return", "gc_delete"}
    BY <1>2 DEF GcStart
  <2>2. \A s : allows_delete(s)' <=> allows_delete(s)
    BY <2>1 DEF allows_delete
  <2>3. dir_durable = dir
    BY <1>i, <2>1 DEF AgreeInv
  <2> QED BY <2>1, <2>2, <2>3 DEF CollectInv, Collecting, Collects
<1>3. CASE GcDelete
  <2>1. PICK s \in gc_segments : dir' = dir \ {s} /\ gc_segments' = gc_segments \ {s}
    BY <1>3 DEF GcDelete
  <2>2. /\ UNCHANGED <<dir_durable, metadata, memory, active_segment, op>> /\ pc = "gc_delete"
        /\ pc' \in {"gc_dir", "gc_delete"}
    BY <1>3 DEF GcDelete
  <2>3. \A t : allows_delete(t)' <=> allows_delete(t)
    BY <2>2 DEF allows_delete
  <2> QED BY <2>1, <2>2, <2>3 DEF CollectInv, Collecting, Collects
<1>4. CASE GcDir
  <2>1. /\ UNCHANGED <<dir, memory, active_segment, op, gc_segments, nodes_json, checkpoints_json>> /\ pc = "gc_dir"
        /\ dir_durable' = dir /\ nodes_json_durable' = nodes_json /\ checkpoints_json_durable' = checkpoints_json
        /\ pc' = "return"
    BY <1>4 DEF GcDir, sync_dir
  <2>2. \A t : allows_delete(t)' <=> allows_delete(t)
    BY <2>1 DEF allows_delete
  <2> QED BY <2>1, <2>2 DEF CollectInv, Collecting, Collects
<1>5. CASE UNCHANGED vars
  BY <1>5 DEF vars, CollectInv, Collects, allows_delete
<1>6. CASE [Next]_vars /\ ~IndexDir /\ ~GcStart /\ ~GcDelete /\ ~GcDir /\ vars' # vars
  <2>1. ~(pc \in Collecting \/ (pc = "return" /\ Collects))'
    BY <1>6, <1>i DEF CallInv, Collects, Collecting, OpInv, Next, Open, Begin, Proceed, AppendSteps, Fault,
       OpenRecover, OpenLoad, OpenExisting, OpenCreate, OpenMagic, OpenDir, CreateNode, SaveRecord, SaveSnapshot,
       RemoveNode, BeginAppend, Sync, RotateSync, RotateFails, RotateCreate, RotateMagic, RotateDir, Write,
       AppendSync, SyncCall, WriterSync, IndexReplace, RegistryReplace, RegistryDir, Return, Close, ProcessCrash,
       PowerLoss, LoseIndex, NoEngine, NoOp
  <2> QED BY <2>1 DEF CollectInv, Collecting
<1> QED BY <1>1, <1>2, <1>3, <1>4, <1>5, <1>6

LEMMA CallInvariance == Spec => []CInv
<1>1. Init => CInv
  <2> SUFFICES ASSUME Init
               PROVE  CInv
    OBVIOUS
  <2>1. CallInv /\ CheckpointInv /\ CollectInv
    BY DEF Init, CallInv, CheckpointInv, CollectInv, Collects, Collecting, NoOp
  <2>2. \A n \in Nodes : nodes_json_durable[n] = "unknown" /\ nodes_json[n] = "unknown"
    BY DEF Init, NoRegistry
  <2>3. RegistryInv
    BY <2>2, RankValues DEF Init, RegistryInv, NoOp
  <2> QED BY <2>1, <2>3 DEF CInv
<1>2. IInv /\ IInv' /\ CInv /\ [Next]_vars => CInv'
  BY CallStep, CheckpointStep, RegistryStep, CollectStep DEF CInv
<1> QED BY <1>1, <1>2, Invariance, PTL DEF Spec

\* The last record of the active segment, if it is a checkpoint of n, is the
\* newest checkpoint of n anywhere.
LEMMA LastRecordIsLatest ==
  ASSUME IInv, pc = "return", NEW n \in Nodes, NEW p,
         p = [seg |-> active_segment, off |-> segment_len - 1],
         validate_checkpoint_position(cells, dir, n, p)
  PROVE  p = Latest(CheckpointsOf(cells, SegIds, n))
<1> DEFINE C == CheckpointsOf(cells, SegIds, n)
           b == [s \in SegIds |-> Len(cells[s])]
<1>i. TypeOK /\ DirInv /\ LenInv /\ GoneInv
  BY DEF IInv
<1>1. /\ segment_len = Len(cells[active_segment]) /\ segment_len >= 1
      /\ \A s \in dir : s <= active_segment
  BY <1>i DEF LenInv, DirInv, LastSegment, Rotating, Ready, Loaded, Recovered, Locations
<1>2. /\ active_segment \in SegIds /\ segment_len \in Nat /\ dir \in SUBSET SegIds
      /\ cells \in [SegIds -> Seq(Cell)]
  BY <1>i DEF TypeOK
<1>t. SegIds \subseteq Nat
  BY SegmentIdAssumption DEF SegIds
<1>3. segment_len - 1 \in Nat
  BY <1>1, <1>2
<1>4. p \in Position /\ p.seg = active_segment /\ p.off = segment_len - 1
  BY <1>2, <1>3 DEF Position
<1>5. p \in C
  <2>1. p \in CheckpointsOf(cells, dir, n)
    BY <1>2, <1>4, ValidIsCheckpoint
  <2> QED BY <1>i, <1>2, <2>1, RecordTypes
<1>6. C \subseteq Position /\ \A q \in C : q.off <= Len(cells[q.seg]) /\ cells[q.seg] # <<>>
  BY <1>i, RecordTypes
<1>7. ASSUME NEW q \in C
      PROVE  ~Before(p, q)
  <2>1. q \in Position /\ q.seg \in Nat /\ q.off \in Nat /\ q.seg \in SegIds
    BY <1>6, <1>t DEF Position
  <2>2. ~(active_segment < q.seg)
    <3> SUFFICES ASSUME active_segment < q.seg
                 PROVE  FALSE
      OBVIOUS
    <3>1. \A t \in dir : t < q.seg
      BY <1>1, <1>2, <1>t, <2>1
    <3>2. q.seg \notin dir
      BY <2>1, <3>1
    <3> QED BY <1>6, <1>i, <2>1, <3>1, <3>2, BeyondIsEmpty
  <2>3. IsRecord(cells, q)
    BY <1>2, RecordIsPosition DEF CheckpointsOf, RecordsOf
  <2>4. q.seg = active_segment => q.off <= segment_len - 1
    BY <1>1, <1>2, <2>1, <2>3 DEF IsRecord
  <2>5. active_segment \in Nat
    BY <1>2, <1>t
  <2> QED BY <1>3, <1>4, <2>1, <2>2, <2>4, <2>5 DEF Before
<1>8. b \in [SegIds -> Nat]
  BY <1>2
<1>9. \A q \in C : q.off <= b[q.seg]
  BY <1>6 DEF Position
<1> HIDE DEF C, b
<1>10. Latest(C) \in C /\ \A q \in C : ~Before(Latest(C), q)
  BY <1>5, <1>6, <1>8, <1>9, LatestExists
<1>11. p = Latest(C)
  BY <1>4, <1>5, <1>6, <1>7, <1>10, BeforeIsOrder
<1> QED BY <1>11 DEF C

\* When create_node, save_snapshot and remove_node return Ok, what they did
\* is on stable storage, whatever faults came before: the registry names the
\* node, and the index points at the newest checkpoint of the node, in a
\* synchronized part of a file whose name is durable.
THEOREM ReturnedIsDurable == Spec => []ReturnedCallsAreDurable
<1>1. IInv /\ CInv => ReturnedCallsAreDurable
  <2> SUFFICES ASSUME IInv, CInv, pc = "return"
               PROVE  /\ op.kind = "create_node" => nodes_json_durable[op.node] = "active"
                      /\ op.kind = "remove_node" => nodes_json_durable[op.node] = "removed"
                      /\ op.kind \in {"create_node", "save_snapshot"} =>
                           LET p == checkpoints_json_durable[op.node] IN
                           /\ p # None
                           /\ validate_checkpoint_position(cells, dir, op.node, p)
                           /\ Durable(p)
                           /\ p = Latest(CheckpointsOf(cells, SegIds, op.node))
    BY DEF ReturnedCallsAreDurable
  <2>1. /\ op.kind = "create_node" => nodes_json_durable[op.node] = "active"
        /\ op.kind = "remove_node" => nodes_json_durable[op.node] = "removed"
    BY DEF CInv, RegistryInv
  <2>2. ASSUME op.kind \in {"create_node", "save_snapshot"}
        PROVE  LET p == checkpoints_json_durable[op.node] IN
               /\ p # None
               /\ validate_checkpoint_position(cells, dir, op.node, p)
               /\ Durable(p)
               /\ p = Latest(CheckpointsOf(cells, SegIds, op.node))
    <3>1. /\ checkpoints_json_durable[op.node] = record_position
          /\ record_position = [seg |-> active_segment, off |-> segment_len - 1]
          /\ validate_checkpoint_position(cells, dir, op.node, record_position)
          /\ record_position.off < synced[active_segment]
          /\ active_segment \in dir_durable
      BY <2>2 DEF CInv, CheckpointInv
    <3>2. op.node \in Nodes
      BY <2>2 DEF CInv, CallInv
    <3>3. active_segment \in dir
      BY DEF IInv, DirInv, Ready, Loaded, Recovered, Locations
    <3>4. record_position # None
      <4>1. segment_len - 1 \in Nat
        BY DEF IInv, LenInv, TypeOK, Ready, Loaded, Recovered, Locations
      <4>2. active_segment \in SegIds
        BY DEF IInv, TypeOK
      <4> QED BY <3>1, <4>1, <4>2, NoneAssumption DEF Position
    <3>5. record_position = Latest(CheckpointsOf(cells, SegIds, op.node))
      BY <3>1, <3>2, LastRecordIsLatest
    <3> QED BY <3>1, <3>3, <3>4, <3>5 DEF Durable
  <2> QED BY <2>1, <2>2
<1> QED BY <1>1, Invariance, CallInvariance, PTL

\* When save_snapshot or remove_node returns, every segment other than the
\* active one that is left, on stable storage too, is needed: some active
\* node has no index entry or has its newest indexed checkpoint no later.
THEOREM CollectionIsComplete == Spec => []GcIsComplete
<1>1. IInv /\ CInv => GcIsComplete
  <2> SUFFICES ASSUME IInv, CInv, pc = "return", Collects, NEW s \in (dir \cup dir_durable) \ {active_segment}
               PROVE  \E n \in ActiveNodes(nodes_json_durable) :
                        \/ checkpoints_json_durable[n] = None
                        \/ checkpoints_json_durable[n].seg <= s
    BY DEF GcIsComplete, Collects
  <2>1. /\ checkpoint_index = checkpoints_json_durable
        /\ nodes_json_durable = nodes_json
        /\ dir_durable = dir
        /\ s \in gc_segments \/ ~allows_delete(s)
    BY DEF CInv, CollectInv
  <2>2. registry = nodes_json_durable
    BY <2>1 DEF IInv, AgreeInv, Loaded, Recovered, Locations
  <2>3. ~allows_delete(s)
    BY <2>1 DEF IInv, GcInv
  <2>4. PICK n \in ActiveNodes(registry) : ~(checkpoint_index[n] # None /\ s < checkpoint_index[n].seg)
    BY <2>3 DEF allows_delete
  <2>5. n \in Nodes /\ s \in SegIds
    BY <2>1 DEF ActiveNodes, IInv, TypeOK
  <2>6. CASE checkpoint_index[n] = None
    BY <2>1, <2>2, <2>4, <2>6
  <2>7. CASE checkpoint_index[n] # None
    <3>1. checkpoint_index[n] \in Position
      BY <2>5, <2>7 DEF IInv, TypeOK, CheckpointIndex
    <3>2. checkpoint_index[n].seg \in Nat /\ s \in Nat
      BY <2>5, <3>1, SegmentIdAssumption DEF Position, SegIds
    <3> QED BY <2>1, <2>2, <2>4, <2>7, <3>2
  <2> QED BY <2>6, <2>7
<1> QED BY <1>1, Invariance, CallInvariance, PTL

\* A node ID is never given back: no call, crash or power loss turns a
\* durable creation or removal back.
THEOREM IdsAreNeverReused == Spec => IdsStayReserved
<1>1. IInv /\ IInv' /\ CInv /\ [Next]_vars =>
        [\A n \in Nodes : Rank(nodes_json_durable[n]) <= Rank(nodes_json_durable'[n])]_vars
  <2> SUFFICES ASSUME IInv, IInv', CInv, [Next]_vars, NEW n \in Nodes
               PROVE  Rank(nodes_json_durable[n]) <= Rank(nodes_json_durable'[n])
    OBVIOUS
  <2>1. nodes_json_durable' \in {nodes_json, nodes_json_durable}
    BY RegistryVersions
  <2>2. Rank(nodes_json_durable[n]) <= Rank(nodes_json[n])
    BY DEF CInv, RegistryInv
  <2>3. Rank(nodes_json_durable[n]) \in Nat
    BY RankValues DEF IInv, TypeOK, Registry
  <2> QED BY <2>1, <2>2, <2>3
<1> QED BY <1>1, Invariance, CallInvariance, PTL DEF Spec, IdsStayReserved

-------------------------------------------------------------------------------
(***************************************************************************)
(* Nothing durable is lost.                                                *)
(***************************************************************************)

\* Where there is a durable checkpoint of n, the newest one is not
\* superseded.
LEMMA NewestDurable ==
  TypeOK =>
    \A n \in Nodes : \A c \in CheckpointsOf(cells, SegIds, n) :
      Durable(c) => \E q \in DurableRecords(n) : CellAt(cells, q).checkpoint /\ ~Before(q, c)
<1> SUFFICES ASSUME TypeOK, NEW n \in Nodes, NEW c \in CheckpointsOf(cells, SegIds, n), Durable(c)
             PROVE  \E q \in DurableRecords(n) : CellAt(cells, q).checkpoint /\ ~Before(q, c)
  OBVIOUS
<1> DEFINE S == { q \in CheckpointsOf(cells, SegIds, n) : Durable(q) }
           b == [s \in SegIds |-> Len(cells[s])]
<1>1. /\ CheckpointsOf(cells, SegIds, n) \subseteq RecordsOf(cells, SegIds, n)
      /\ RecordsOf(cells, SegIds, n) \subseteq Position
      /\ \A q \in RecordsOf(cells, SegIds, n) : q.off <= Len(cells[q.seg])
  BY RecordTypes
<1>2. b \in [SegIds -> Nat]
  BY DEF TypeOK
<1>3. S \in SUBSET Position /\ c \in S /\ \A q \in S : q.off <= b[q.seg]
  BY <1>1 DEF Position
<1>4. Latest(S) \in S /\ \A q \in S : ~Before(Latest(S), q)
  <2> HIDE DEF S, b
  <2> QED BY <1>2, <1>3, LatestExists
<1>5. Latest(S) \in DurableRecords(n)
  BY <1>1, <1>4 DEF DurableRecords
<1>6. CellAt(cells, Latest(S)).checkpoint
  BY <1>4 DEF CheckpointsOf
<1> QED BY <1>3, <1>4, <1>5, <1>6

\* A durable segment leaves the directory, or stable storage, only when
\* collect_garbage deletes it.
LEMMA DurableNameStays ==
  ASSUME [Next]_vars, NEW s \in dir \cap dir_durable, s \notin dir' \cap dir_durable'
  PROVE  s \notin dir'
<1> USE DEF segments, content
<1>1. CASE GcDelete
  BY <1>1 DEF GcDelete
<1>2. CASE PowerLoss
  BY <1>2 DEF PowerLoss
<1>3. CASE ~GcDelete /\ ~PowerLoss
  <2>1. dir \subseteq dir' /\ dir_durable' \in {dir, dir_durable}
    BY <1>3 DEF Next, Open, Begin, Proceed, AppendSteps, Fault, OpenRecover, OpenLoad, OpenExisting, OpenCreate,
       OpenMagic, OpenDir, CreateNode, SaveRecord, SaveSnapshot, RemoveNode, Sync, RotateSync, RotateFails,
       RotateCreate, RotateMagic, RotateDir, Write, AppendSync, SyncCall, WriterSync, IndexReplace, IndexDir,
       RegistryReplace, RegistryDir, GcStart, GcDir, Return, Close, ProcessCrash, LoseIndex, sync_dir, vars
  <2> QED BY <2>1
<1> QED BY <1>1, <1>2, <1>3

\* The records of a segment keep being there while they are synchronized and
\* the segment is in the directory; when collect_garbage deletes it, they
\* stay in its (unreachable) file.
LEMMA SyncedRecordStays ==
  ASSUME IInv, IInv', [Next]_vars, NEW n, NEW p \in RecordsOf(cells, SegIds, n), Durable(p)
  PROVE  /\ p \in RecordsOf(cells', SegIds, n)
         /\ p.off < synced'[p.seg]
         /\ cells'[p.seg] # <<>>
<1>i. TypeOK /\ DirInv /\ LenInv /\ TypeOK' /\ LenInv'
  BY DEF IInv
<1>1. p \in Position /\ p.seg \in SegIds /\ p.off \in Nat /\ IsRecord(cells, p) /\ CellAt(cells, p).node = n
  BY <1>i, RecordIsPosition DEF RecordsOf, TypeOK, Position
<1>2. p.off >= 1 /\ p.off < synced[p.seg]
  BY <1>1 DEF IsRecord, Durable
<1>3. KeepsSynced(p.seg)
  <2>1. CASE p.seg \in dir'
    BY <1>1, <1>i, <2>1, KeepsSyncedStep
  <2>2. CASE p.seg \notin dir'
    <3>1. GcDelete
      <4>1. ~PowerLoss
        BY <2>2 DEF PowerLoss, Durable
      <4>2. p.seg \in dir
        BY DEF Durable
      <4> QED
        BY <2>2, <4>1, <4>2
        DEF Next, Open, Begin, Proceed, AppendSteps, Fault, OpenRecover, OpenLoad, OpenExisting, OpenCreate,
            OpenMagic, OpenDir, CreateNode, SaveRecord, SaveSnapshot, RemoveNode, Sync, RotateSync, RotateFails,
            RotateCreate, RotateMagic, RotateDir, Write, AppendSync, SyncCall, WriterSync, IndexReplace, IndexDir,
            RegistryReplace, RegistryDir, GcStart, GcDir, Return, Close, ProcessCrash, LoseIndex, vars, segments
    <3>2. UNCHANGED <<cells, synced>>
      BY <3>1 DEF GcDelete, content
    <3>3. synced[p.seg] \in Nat
      BY <1>1, <1>i DEF TypeOK
    <3> QED BY <3>2, <3>3 DEF KeepsSynced
  <2> QED BY <2>1, <2>2
<1>4. synced[p.seg] \in Nat /\ synced'[p.seg] \in Nat /\ Len(cells'[p.seg]) \in Nat /\ cells'[p.seg] \in Seq(Cell)
      /\ synced'[p.seg] <= Len(cells'[p.seg])
  <2>1. cells'[p.seg] \in Seq(Cell) /\ Len(cells'[p.seg]) \in Nat
    BY <1>1, <1>i DEF TypeOK
  <2> QED BY <1>1, <1>i, <2>1 DEF TypeOK, LenInv
<1>5. p.off < synced'[p.seg] /\ cells'[p.seg][p.off + 1] = cells[p.seg][p.off + 1]
  BY <1>1, <1>2, <1>3, <1>4 DEF KeepsSynced
<1>6. p.off < Len(cells'[p.seg]) /\ Len(cells'[p.seg]) # 0
  BY <1>1, <1>2, <1>4, <1>5
<1>7. IsRecord(cells', p) /\ CellAt(cells', p).node = n
  BY <1>1, <1>2, <1>5, <1>6 DEF IsRecord, CellAt
<1>8. p \in RecordsIn(cells', SegIds)
  BY <1>1, <1>i, <1>7, RecordIsPosition DEF TypeOK
<1>9. cells'[p.seg] # <<>>
  BY <1>4, <1>6
<1> QED BY <1>5, <1>7, <1>8, <1>9 DEF RecordsOf

\* No step, garbage collection, recovery or fault, takes a durable record
\* from a node that stays active, unless a newer durable checkpoint of the
\* node makes it superfluous.
THEOREM DurableRecordsAreKept == Spec => NoDurableRecordLost
<1> DEFINE Kept ==
      \A n \in ActiveNodes(nodes_json) \cap ActiveNodes(nodes_json') :
        \A p \in DurableRecords(n) :
          \/ p \in DurableRecords(n)'
          \/ \E q \in DurableRecords(n)' : Before(p, q) /\ CellAt(cells', q).checkpoint
<1>0. (TypeOK =>
         \A n \in Nodes : \A c \in CheckpointsOf(cells, SegIds, n) :
           Durable(c) => \E q \in DurableRecords(n) : CellAt(cells, q).checkpoint /\ ~Before(q, c))'
  BY NewestDurable, PTL
<1>1. IInv /\ IInv' /\ [Next]_vars => [Kept]_vars
  <2> SUFFICES ASSUME IInv, IInv', [Next]_vars,
                      NEW n \in ActiveNodes(nodes_json) \cap ActiveNodes(nodes_json'),
                      NEW p \in DurableRecords(n)
               PROVE  \/ p \in DurableRecords(n)'
                      \/ \E q \in DurableRecords(n)' : Before(p, q) /\ CellAt(cells', q).checkpoint
    OBVIOUS
  <2>i. TypeOK /\ TypeOK' /\ GoneInv'
    BY DEF IInv
  <2>n. n \in Nodes
    BY DEF ActiveNodes
  <2>1. p \in RecordsOf(cells, SegIds, n) /\ Durable(p)
    BY DEF DurableRecords
  <2>2. p \in RecordsOf(cells', SegIds, n) /\ p.off < synced'[p.seg] /\ cells'[p.seg] # <<>>
    BY <2>1, SyncedRecordStays
  <2>3. p \in Position /\ p.seg \in SegIds
    BY <2>i, <2>1, RecordTypes DEF Position
  <2>4. CASE \E c \in CheckpointsOf(cells', SegIds, n) : Durable(c)' /\ Before(p, c)
    <3>1. PICK c \in CheckpointsOf(cells', SegIds, n) : Durable(c)' /\ Before(p, c)
      BY <2>4
    <3>3. PICK q \in DurableRecords(n)' : CellAt(cells', q).checkpoint /\ ~Before(q, c)
      BY <1>0, <2>i, <2>n, <3>1
    <3>4. c \in Position /\ q \in Position
      <4>1. c \in RecordsIn(cells', SegIds) /\ q \in RecordsIn(cells', SegIds)
        BY <3>1, <3>3 DEF CheckpointsOf, RecordsOf, DurableRecords
      <4>2. cells' \in [SegIds -> Seq(Cell)]
        BY <2>i DEF TypeOK
      <4> QED BY <4>1, <4>2, RecordIsPosition
    <3>5. Before(p, q)
      BY <2>3, <3>1, <3>3, <3>4, BeforeIsOrder
    <3> QED BY <3>3, <3>5
  <2>5. CASE ~\E c \in CheckpointsOf(cells', SegIds, n) : Durable(c)' /\ Before(p, c)
    <3>1. p.seg \in dir' \cap dir_durable'
      <4> SUFFICES ASSUME p.seg \notin dir' \cap dir_durable'
                   PROVE  FALSE
        OBVIOUS
      <4>1. p.seg \notin dir'
        BY <2>1, DurableNameStays DEF Durable
      <4>2. Gone(p.seg)'
        BY <2>2, <4>1 DEF Gone
      <4>3. Anchored(n, p.seg)'
        BY <2>3, <2>i, <4>2 DEF GoneInv
      <4>4. PICK c \in CheckpointsOf(cells', dir', n) : Durable(c)' /\ p.seg < c.seg
        BY <4>3 DEF Anchored
      <4>5. c \in CheckpointsOf(cells', SegIds, n)
        <5>1. dir' \subseteq SegIds
          BY <2>i DEF TypeOK
        <5> QED BY <4>4, <5>1 DEF CheckpointsOf, RecordsOf, RecordsIn
      <4> QED BY <2>5, <4>4, <4>5 DEF Before
    <3>2. Durable(p)'
      BY <2>2, <3>1 DEF Durable
    <3> QED BY <2>2, <2>5, <3>2 DEF DurableRecords
  <2> QED BY <2>4, <2>5
<1> QED BY <1>1, Invariance, PTL DEF Spec, NoDurableRecordLost
-------------------------------------------------------------------------------
(***************************************************************************)
(* An active node always has a checkpoint to start from.                   *)
(***************************************************************************)

\* RootedInv is inductive.  create_node makes the checkpoint durable before
\* the node becomes active; a collection that takes the segment of one
\* checkpoint has compared it with an index entry that points at another.
LEMMA RootedStep ==
  ASSUME IInv, IInv', RootedInv, [Next]_vars
  PROVE  RootedInv'
<1> USE DEF segments, content, metadata, memory, writer, call
<1>i. /\ TypeOK /\ DirInv /\ LenInv /\ OpInv /\ RecordInv /\ AgreeInv /\ IndexInv /\ GcInv
      /\ TypeOK' /\ LenInv'
  BY DEF IInv
<1> SUFFICES ASSUME NEW n \in ActiveNodes(nodes_json') \cup ActiveNodes(nodes_json_durable')
             PROVE  Rooted(n)'
  BY DEF RootedInv
<1>n. n \in Nodes
  BY DEF ActiveNodes
<1>a. ASSUME ~GcStart, Rooted(n)
      PROVE  Rooted(n)'
  <2>1. PICK q \in Position : GoodEntry(n, q) /\ q.seg \in dir_durable \ gc_segments
    BY <1>a DEF Rooted
  <2>2. q.seg \in (dir' \cap dir_durable') \ gc_segments'
    BY <1>a, <2>1, DurableStays DEF GoodEntry, validate_checkpoint_position
  <2>3. GoodEntry(n, q)'
    BY <1>i, <2>1, <2>2, GoodEntryStable
  <2> QED BY <2>2, <2>3 DEF Rooted
<1>1. CASE ~GcStart /\ ~RegistryReplace
  <2>1. Rooted(n)
    BY <1>1, ActiveIsOld DEF RootedInv
  <2> QED BY <1>1, <1>a, <2>1
<1>2. CASE RegistryReplace
  <2>0. ~GcStart
    BY <1>2 DEF RegistryReplace, GcStart
  <2>1. UNCHANGED <<nodes_json_durable, gc_segments>> /\ nodes_json' = NewRegistry
    BY <1>2 DEF RegistryReplace
  <2>2. nodes_json = registry /\ op.node \in Nodes /\ gc_segments = {}
    BY <1>i, <1>2 DEF RegistryReplace, AgreeInv, OpInv, GcInv, Loaded, Recovered, Locations
  <2>3. CASE n \in ActiveNodes(nodes_json) \cup ActiveNodes(nodes_json_durable)
    BY <1>a, <2>0, <2>3 DEF RootedInv
  <2>4. CASE n \notin ActiveNodes(nodes_json) \cup ActiveNodes(nodes_json_durable)
    <3>1. n = op.node /\ op.kind # "remove_node"
      BY <1>i, <1>n, <2>1, <2>2, <2>4 DEF ActiveNodes, NewRegistry, TypeOK, Registry
    <3>2. op.kind = "create_node"
      BY <1>i, <1>2, <3>1 DEF RegistryReplace, OpInv
    <3>3. record_position \in Position /\ GoodEntry(op.node, record_position)
      BY <1>i, <1>2, <3>2, RecordIsGood DEF RegistryReplace
    <3>4. record_position.seg \in dir_durable
      BY <1>i, <1>2, <3>2 DEF RegistryReplace, RecordInv
    <3>5. Rooted(n)
      BY <2>2, <3>1, <3>3, <3>4 DEF Rooted
    <3> QED BY <1>a, <2>0, <3>5
  <2> QED BY <2>3, <2>4
<1>3. CASE GcStart
  <2>1. /\ UNCHANGED <<cells, synced, dir, dir_durable, nodes_json, nodes_json_durable>>
        /\ gc_segments' = { s \in dir \ {active_segment} : allows_delete(s) }
    BY <1>3 DEF GcStart
  <2>2. dir_durable = dir /\ nodes_json_durable = registry /\ nodes_json = registry
    BY <1>i, <1>3 DEF GcStart, AgreeInv, Collecting, Loaded, Recovered, Locations
  <2>3. n \in ActiveNodes(registry) /\ registry[n] = "active"
    BY <2>1, <2>2 DEF ActiveNodes
  <2>4. PICK q \in Position : GoodEntry(n, q) /\ q.seg \in dir_durable
    BY <2>2, <2>3 DEF RootedInv, Rooted
  <2>5. CASE q.seg \notin gc_segments'
    BY <2>1, <2>4, <2>5 DEF Rooted, GoodEntry
  <2>6. CASE q.seg \in gc_segments'
    <3>1. checkpoint_index[n] # None
      BY <2>1, <2>3, <2>6 DEF allows_delete
    <3>2. checkpoint_index[n] \in Position
      BY <1>i, <1>n, <3>1 DEF TypeOK, CheckpointIndex
    <3>3. GoodEntry(n, checkpoint_index[n])
      BY <1>i, <1>3, <1>n, <2>3, <3>1 DEF GcStart, IndexInv, Loaded, Recovered, Locations
    <3>4. checkpoint_index[n].seg \in dir
      BY <3>3 DEF GoodEntry, validate_checkpoint_position
    <3>5. ~(checkpoint_index[n].seg < checkpoint_index[n].seg)
      BY <3>2, SegmentIdAssumption DEF Position, SegIds
    <3>6. checkpoint_index[n].seg \notin gc_segments'
      BY <2>1, <2>3, <3>5 DEF allows_delete
    <3> QED BY <2>1, <2>2, <3>2, <3>3, <3>4, <3>6 DEF Rooted, GoodEntry
  <2> QED BY <2>5, <2>6
<1> QED BY <1>1, <1>2, <1>3

\* Whatever the faults, and at every moment of a call, each node that is
\* active or after a power loss may be has a synchronized checkpoint record in
\* a segment with a durable name that no collection is about to delete: load
\* never runs out of a state to start from.
THEOREM ActiveNodesAreRooted == Spec => []RootedInv
<1>1. Init => RootedInv
  BY DEF Init, RootedInv, ActiveNodes, NoRegistry
<1>2. RootedInv /\ IInv /\ IInv' /\ [Next]_vars => RootedInv'
  BY RootedStep
<1> QED BY <1>1, <1>2, Invariance, PTL DEF Spec
===============================================================================
