------------------------------ MODULE ReaderProofs ------------------------------
(***************************************************************************)
(* The read-only functions beside a running writer, for every set of       *)
(* nodes, every segment length and every largest segment ID, and whether   *)
(* or not a listing of the directory is atomic.                            *)
(***************************************************************************)
EXTENDS Reader, DurabilityProofs

-------------------------------------------------------------------------------
(***************************************************************************)
(* The inductive invariant.                                                *)
(***************************************************************************)

ReaderRecord ==
  [pc        : ReaderPcs,
   all       : BOOLEAN,
   targets   : SUBSET Nodes,
   indexed   : SUBSET Nodes,
   hints     : CheckpointIndex,
   unseen    : SUBSET SegIds,
   todo      : SUBSET SegIds,
   last      : SegIds,
   file_len  : Nat \cup {None},
   positions : CheckpointIndex,
   state     : [Nodes -> SUBSET Position],
   floor     : [Nodes -> Position \cup {None}],
   seen      : SUBSET {"collected", "cut", "mixed"}]

ReaderTypeOK == reader \in ReaderRecord

\* The locations of the loops over the listed segments.
Looping == {"scan", "replay"}

\* Everything ever written for n that no power loss took; its checkpoints.
AllOf(cs, n) == RecordsOf(cs, SegIds, n)

RootsOf(cs, n) == CheckpointsOf(cs, SegIds, n)

\* A read is for nodes that were active when it began; each had a record.
TargetInv ==
  reader.pc # "none" =>
    /\ reader.targets # {}
    /\ ~reader.all => \E n \in Nodes : reader.targets = {n}
    /\ \A n \in reader.targets : nodes_json[n] # "unknown"
    /\ \A n \in reader.targets : reader.floor[n] \in AllOf(cells, n)

\* What is listed and still to be read.  A listing that saw one state of the
\* directory has the names in it; the writer has not gone back behind the last
\* segment listed, which is read last.
ListInv ==
  /\ reader.pc \in {"none", "index", "validate"} => reader.todo = {}
  /\ reader.pc \notin Looping => reader.file_len = None
  /\ reader.pc \in Listing /\ "mixed" \notin reader.seen => reader.todo = dir \ reader.unseen
  /\ reader.pc \in Looping =>
       /\ reader.last \in reader.todo
       /\ \A s \in reader.todo : s <= reader.last
       /\ "mixed" \notin reader.seen => \E t \in dir : reader.last <= t

\* Validated hints and found positions are checkpoints of their nodes, the
\* latter none before the place where load_all starts to replay.
HintInv ==
  /\ reader.pc \in Listing \cup Looping => reader.indexed = {}
  /\ reader.pc = "validate" => \A n \in reader.indexed : reader.hints[n] # None
  /\ \A n \in Nodes \ reader.indexed :
       reader.hints[n] # None => reader.hints[n] \in RootsOf(cells, n)
  /\ \A n \in Nodes :
       reader.positions[n] # None => reader.positions[n] \in RootsOf(cells, n)
  /\ reader.pc \in Listing \cup Looping /\ reader.all /\ StartPosition(reader) # None =>
       \A n \in reader.targets :
         /\ reader.positions[n] # None
         /\ ~Before(reader.positions[n], StartPosition(reader))

\* No record is applied before the replay.
StateInv ==
  reader.pc \notin {"replay", "ok", "error"} => \A n \in Nodes : reader.state[n] = {}

\* Everything of n from q on is in segments still to be read ...
Pending(cs, todo, last, n, q) ==
  /\ q.seg \in todo
  /\ \A p \in AllOf(cs, n) : ~Before(p, q) /\ p.seg <= last => p.seg \in todo

\* ... or there and in the state S, which begins with q.
Applied(cs, S, todo, last, n, q) ==
  /\ q \in S
  /\ S \subseteq AllOf(cs, n)
  /\ \A p \in S : ~Before(p, q) /\ p.seg <= last
  /\ \A p \in S : \A s \in todo : p.seg < s
  /\ \A p \in AllOf(cs, n) : ~Before(p, q) /\ p.seg <= last => p.seg \in todo \/ p \in S

\* A replay that comes to its end will have applied n from a checkpoint on.
OnCourse(n) ==
  /\ reader.floor[n].seg <= reader.last
  /\ \E q \in RootsOf(cells, n) :
       /\ q.seg <= reader.last
       /\ reader.positions[n] # None => ~Before(q, reader.positions[n])
       /\ \/ Pending(cells, reader.todo, reader.last, n, q)
          \/ Applied(cells, reader.state[n], reader.todo, reader.last, n, q)

ReplayInv ==
  reader.pc = "replay" /\ "mixed" \notin reader.seen =>
    \A n \in reader.targets \cap ActiveNodes(nodes_json) : OnCourse(n)

ReaderInv ==
  ReaderTypeOK /\ TargetInv /\ ListInv /\ HintInv /\ StateInv /\ ReplayInv /\ ReadIsConsistent

-------------------------------------------------------------------------------
(***************************************************************************)
(* The writer, as a reader sees it.                                        *)
(***************************************************************************)

\* Segments only grow, and only the last one does; the end of the directory
\* does not go back.
Grows ==
  /\ \A s \in SegIds :
       /\ Len(cells[s]) <= Len(cells'[s])
       /\ \A i \in 1 .. Len(cells[s]) : cells'[s][i] = cells[s][i]
       /\ cells'[s] # cells[s] => s \in dir \cap dir' /\ \A t \in dir : t <= s
  /\ \A t \in dir : \E u \in dir' : t <= u

LEMMA WriteGrows ==
  ASSUME TypeOK, NEW s \in dir, NEW c \in Cell, write_all(s, c), dir' = dir, \A t \in dir : t <= s
  PROVE  Grows
<1>1. s \in SegIds /\ dir \subseteq Nat
  BY SegmentIdAssumption DEF TypeOK, SegIds
<1>2. /\ \A t \in SegIds : t # s => cells'[t] = cells[t]
      /\ \A t \in SegIds : Len(cells[t]) <= Len(cells'[t])
      /\ \A t \in SegIds : \A i \in 1 .. Len(cells[t]) : cells'[t][i] = cells[t][i]
  BY <1>1, WriteAllEffect
<1> QED BY <1>1, <1>2 DEF Grows

LEMMA WriterGrows ==
  ASSUME IInv, [Next]_vars, ~PowerLoss
  PROVE  Grows
<1> USE DEF content, segments, metadata, memory, writer, call, Recovered, Loaded, Ready, Locations
<1>i. TypeOK /\ DirInv /\ GcInv
  BY DEF IInv
<1>t. /\ dir \subseteq Nat /\ active_segment \in SegIds /\ SegIds \subseteq Nat
      /\ \A s \in SegIds : Len(cells[s]) \in Nat
  BY <1>i, SegmentIdAssumption DEF TypeOK, SegIds
<1>0. ASSUME cells' = cells, dir \subseteq dir'
      PROVE  Grows
  BY <1>0, <1>t DEF Grows
<1>1. CASE OpenExisting
  <2>1. \A t \in dir : t <= active_segment
    BY <1>1, <1>i DEF OpenExisting, DirInv, LastSegment, Rotating
  <2>2. CASE cells[active_segment] = <<>>
    BY <1>1, <1>i, <2>1, <2>2, HeaderType, WriteGrows DEF OpenExisting
  <2>3. CASE cells[active_segment] # <<>>
    BY <1>0, <1>1, <2>3 DEF OpenExisting
  <2> QED BY <2>2, <2>3
<1>2. CASE OpenMagic
  <2>1. active_segment \in dir /\ \A t \in dir : t <= active_segment
    BY <1>2, <1>i DEF OpenMagic, DirInv, LastSegment, Rotating
  <2> QED BY <1>2, <1>i, <2>1, HeaderType, WriteGrows DEF OpenMagic
<1>3. CASE RotateMagic
  <2>1. active_segment + 1 \in dir /\ \A t \in dir : t <= active_segment + 1
    BY <1>3, <1>i DEF RotateMagic, DirInv, LastSegment, Rotating
  <2> QED BY <1>3, <1>i, <2>1, HeaderType, WriteGrows DEF RotateMagic
<1>4. CASE Write
  <2>1. active_segment \in dir /\ \A t \in dir : t <= active_segment
    BY <1>4, <1>i DEF Write, DirInv, LastSegment, Rotating
  <2>2. [node |-> op.node, checkpoint |-> op.kind # "save_record"] \in Cell
    BY <1>i DEF Cell, TypeOK
  <2> QED BY <1>4, <1>i, <2>1, <2>2, WriteGrows DEF Write
<1>5. CASE GcDelete
  <2>1. PICK s \in gc_segments : dir' = dir \ {s}
    BY <1>5 DEF GcDelete
  <2>2. cells' = cells
    BY <1>5 DEF GcDelete
  <2>3. active_segment \in dir /\ s # active_segment /\ \A t \in dir : t <= active_segment
    BY <1>5, <1>i DEF GcDelete, DirInv, GcInv, LastSegment, Rotating
  <2> QED BY <1>t, <2>1, <2>2, <2>3 DEF Grows
<1>6. CASE ~OpenExisting /\ ~OpenMagic /\ ~RotateMagic /\ ~Write /\ ~GcDelete
  <2>1. cells' = cells /\ dir \subseteq dir'
    BY <1>6 DEF Next, Open, Begin, Proceed, AppendSteps, Fault, OpenRecover, OpenLoad, OpenCreate, OpenDir,
       CreateNode, SaveRecord, SaveSnapshot, RemoveNode, Sync, RotateSync, RotateFails, RotateCreate, RotateDir,
       AppendSync, SyncCall, WriterSync, sync_data, IndexReplace, IndexDir, RegistryReplace, RegistryDir, GcStart,
       GcDir, Return, Close, ProcessCrash, LoseIndex, vars
  <2> QED BY <1>0, <2>1
<1> QED BY <1>1, <1>2, <1>3, <1>4, <1>5, <1>6

\* A record of n in cs.
LEMMA RecordFacts ==
  ASSUME NEW cs \in [SegIds -> Seq(Cell)], NEW n, NEW p
  PROVE  /\ p \in AllOf(cs, n) <=>
              /\ p \in Position
              /\ p.off >= 1
              /\ p.off < Len(cs[p.seg])
              /\ CellAt(cs, p).node = n
         /\ p \in RootsOf(cs, n) <=> p \in AllOf(cs, n) /\ CellAt(cs, p).checkpoint
         /\ p \in AllOf(cs, n) =>
              /\ p.seg \in SegIds /\ p.seg \in Nat /\ p.off \in Nat
              /\ p.off <= Len(cs[p.seg])
              /\ cs[p.seg] # <<>>
<1>1. p \in RecordsIn(cs, SegIds) <=> p \in Position /\ p.seg \in SegIds /\ IsRecord(cs, p)
  BY RecordIsPosition
<1>2. p \in Position => p.seg \in SegIds /\ p.seg \in Nat /\ p.off \in Nat
  BY SegmentIdAssumption DEF Position, SegIds
<1>3. p \in AllOf(cs, n) <=>
        p \in Position /\ p.off >= 1 /\ p.off < Len(cs[p.seg]) /\ CellAt(cs, p).node = n
  BY <1>1, <1>2 DEF AllOf, RecordsOf, IsRecord, HeaderLen
<1>4. p \in AllOf(cs, n) => p.off <= Len(cs[p.seg]) /\ cs[p.seg] # <<>>
  <2> SUFFICES ASSUME p \in AllOf(cs, n)
               PROVE  p.off <= Len(cs[p.seg]) /\ cs[p.seg] # <<>>
    OBVIOUS
  <2>1. cs[p.seg] \in Seq(Cell) /\ Len(cs[p.seg]) \in Nat /\ p.off \in Nat /\ Len(cs[p.seg]) # 0
    BY <1>2, <1>3
  <2> QED BY <1>3, <2>1
<1>5. p \in RootsOf(cs, n) <=> p \in AllOf(cs, n) /\ CellAt(cs, p).checkpoint
  BY DEF RootsOf, CheckpointsOf, AllOf
<1> QED BY <1>2, <1>3, <1>4, <1>5

\* An index entry that passes validation is a checkpoint of its node.
LEMMA ValidIsRoot ==
  ASSUME TypeOK, NEW n, NEW p \in Position, validate_checkpoint_position(cells, dir, n, p)
  PROVE  p \in RootsOf(cells, n)
<1>1. p \in CheckpointsOf(cells, dir, n)
  BY ValidIsCheckpoint DEF TypeOK
<1>2. dir \in SUBSET SegIds
  BY DEF TypeOK
<1>3. CheckpointsOf(cells, dir, n) = { r \in CheckpointsOf(cells, SegIds, n) : r.seg \in dir }
  BY <1>2, RecordTypes
<1> QED BY <1>1, <1>3 DEF RootsOf

\* What the writer adds comes after all there was, in the last segment.
LEMMA RecordsGrow ==
  ASSUME IInv, TypeOK', Grows, NEW n
  PROVE  /\ AllOf(cells, n) \subseteq AllOf(cells', n)
         /\ RootsOf(cells, n) \subseteq RootsOf(cells', n)
         /\ \A p \in AllOf(cells, n) : CellAt(cells', p) = CellAt(cells, p)
         /\ \A p \in AllOf(cells', n) \ AllOf(cells, n) :
              /\ p.seg \in dir \cap dir'
              /\ \A t \in dir : t <= p.seg
              /\ \A r \in AllOf(cells, n) : Before(r, p)
<1>i. TypeOK /\ DirInv /\ GoneInv
  BY DEF IInv
<1>c. cells \in [SegIds -> Seq(Cell)] /\ cells' \in [SegIds -> Seq(Cell)] /\ dir \subseteq SegIds
  BY <1>i DEF TypeOK
<1>t. /\ cells \in [SegIds -> Seq(Cell)] /\ cells' \in [SegIds -> Seq(Cell)]
      /\ \A s \in SegIds : Len(cells[s]) \in Nat /\ Len(cells'[s]) \in Nat
      /\ dir \subseteq SegIds /\ SegIds \subseteq Nat
  BY <1>c, SegmentIdAssumption DEF SegIds
<1>1. ASSUME NEW p \in Position, p.off < Len(cells[p.seg])
      PROVE  p.off < Len(cells'[p.seg]) /\ CellAt(cells', p) = CellAt(cells, p)
  <2>1. p.seg \in SegIds /\ p.off \in Nat
    BY DEF Position
  <2>2. p.off + 1 \in 1 .. Len(cells[p.seg])
    BY <1>1, <1>t, <2>1
  <2> QED BY <1>1, <1>t, <2>1, <2>2 DEF Grows, CellAt
<1>2. AllOf(cells, n) \subseteq AllOf(cells', n) /\ \A p \in AllOf(cells, n) : CellAt(cells', p) = CellAt(cells, p)
  BY <1>1, <1>t, RecordFacts
<1>3. RootsOf(cells, n) \subseteq RootsOf(cells', n)
  BY <1>2, <1>t, RecordFacts
<1>4. ASSUME NEW p \in AllOf(cells', n), p \notin AllOf(cells, n)
      PROVE  /\ p.seg \in dir \cap dir'
             /\ \A t \in dir : t <= p.seg
             /\ \A r \in AllOf(cells, n) : Before(r, p)
  <2>1. /\ p \in Position /\ p.seg \in SegIds /\ p.off \in Nat /\ p.seg \in Nat
        /\ p.off >= 1 /\ p.off < Len(cells'[p.seg]) /\ CellAt(cells', p).node = n
    BY <1>t, RecordFacts
  <2>2. ~(p.off < Len(cells[p.seg]))
    BY <1>1, <1>4, <1>t, <2>1, RecordFacts
  <2>3. cells'[p.seg] # cells[p.seg]
    BY <2>1, <2>2
  <2>4. p.seg \in dir \cap dir' /\ \A t \in dir : t <= p.seg
    BY <2>1, <2>3 DEF Grows
  <2>5. ASSUME NEW r \in AllOf(cells, n)
        PROVE  Before(r, p)
    <3>1. /\ r.seg \in SegIds /\ r.seg \in Nat /\ r.off \in Nat
          /\ r.off < Len(cells[r.seg]) /\ cells[r.seg] # <<>>
      BY <1>t, RecordFacts
    <3>2. ~(p.seg < r.seg)
      <4> SUFFICES ASSUME p.seg < r.seg
                   PROVE  FALSE
        OBVIOUS
      <4>1. r.seg \notin dir /\ \A t \in dir : t < r.seg
        BY <1>t, <2>1, <2>4, <3>1
      <4> QED BY <1>i, <3>1, <4>1, BeyondIsEmpty
    <3>3. r.seg = p.seg => r.off < p.off
      BY <1>t, <2>1, <2>2, <3>1
    <3> QED BY <2>1, <3>1, <3>2, <3>3 DEF Before
  <2> QED BY <2>4, <2>5
<1> QED BY <1>2, <1>3, <1>4

\* A node that a read is for does not become active again once it is not.
LEMMA NodesStay ==
  ASSUME IInv, CInv, [Next]_vars, ~PowerLoss, NEW n \in Nodes, nodes_json[n] # "unknown"
  PROVE  /\ nodes_json'[n] # "unknown"
         /\ nodes_json'[n] = "active" => nodes_json[n] = "active"
<1> USE DEF content, segments, metadata, memory, writer, call
<1>1. CASE RegistryReplace
  <2>1. pc = "registry_replace" /\ nodes_json' = NewRegistry
    BY <1>1 DEF RegistryReplace
  <2>2. nodes_json = registry /\ registry \in Registry /\ op.kind \in {"create_node", "remove_node"}
    BY <2>1 DEF IInv, AgreeInv, OpInv, TypeOK, Loaded, Recovered, Locations
  <2>3. op.kind = "create_node" => registry[op.node] = "unknown"
    BY <2>1 DEF CInv, RegistryInv, Ready, Loaded, Recovered, Locations
  <2> QED BY <2>1, <2>2, <2>3 DEF NewRegistry, Registry
<1>2. CASE ~RegistryReplace
  <2>1. nodes_json' = nodes_json
    BY <1>2 DEF Next, Open, Begin, Proceed, AppendSteps, Fault, OpenRecover, OpenLoad, OpenExisting, OpenCreate,
       OpenMagic, OpenDir, CreateNode, SaveRecord, SaveSnapshot, RemoveNode, Sync, RotateSync, RotateFails,
       RotateCreate, RotateMagic, RotateDir, Write, AppendSync, SyncCall, WriterSync, IndexReplace, IndexDir,
       RegistryDir, GcStart, GcDelete, GcDir, Return, Close, ProcessCrash, LoseIndex, vars
  <2> QED BY <2>1
<1> QED BY <1>1, <1>2

\* Every record of n from q on is in a segment of d.
Kept(cs, d, n, q) == \A p \in AllOf(cs, n) : ~Before(p, q) => p.seg \in d

\* The newest checkpoint of an active node is in the directory, with
\* everything of the node that follows it.
LEMMA NewestIsKept ==
  ASSUME IInv, RootedInv, NEW n \in ActiveNodes(nodes_json)
  PROVE  \E q \in RootsOf(cells, n) :
           /\ q.seg \in dir
           /\ \A r \in RootsOf(cells, n) : ~Before(q, r)
           /\ Kept(cells, dir, n, q)
<1> DEFINE C == RootsOf(cells, n)
           b == [s \in SegIds |-> Len(cells[s])]
           q == Latest(C)
<1>i. TypeOK
  BY DEF IInv
<1>c. cells \in [SegIds -> Seq(Cell)] /\ dir \in SUBSET SegIds
  BY <1>i DEF TypeOK
<1>1. /\ C \subseteq AllOf(cells, n) /\ AllOf(cells, n) \subseteq Position
      /\ \A p \in AllOf(cells, n) : p.off <= Len(cells[p.seg]) /\ p.seg \in SegIds
  BY <1>c, RecordFacts
<1>2. PICK g \in Position : GoodEntry(n, g)
  BY DEF RootedInv, Rooted
<1>3. g \in CheckpointsOf(cells, dir, n)
  BY <1>2, <1>c, ValidIsCheckpoint DEF GoodEntry
<1>4. g \in C
  BY <1>3, <1>i, <1>c, RecordTypes DEF RootsOf
<1>5. b \in [SegIds -> Nat] /\ \A p \in C : p.off <= b[p.seg]
  BY <1>1, <1>c
<1>6. q \in C /\ \A r \in C : ~Before(q, r)
  <2>1. C \in SUBSET Position /\ C # {}
    BY <1>1, <1>4
  <2> HIDE DEF C, b
  <2> QED BY <1>5, <2>1, LatestExists
<1>7. ASSUME NEW p \in AllOf(cells, n), ~Before(p, q)
      PROVE  p.seg \in dir
  <2> SUFFICES ASSUME p.seg \notin dir
               PROVE  FALSE
    OBVIOUS
  <2>1. PICK r \in CheckpointsOf(cells, dir, n) : Before(p, r)
    BY LostIsSuperseded DEF AllOf
  <2>2. r \in C
    BY <1>i, <1>c, RecordTypes DEF RootsOf
  <2>3. p \in Position /\ q \in Position /\ r \in Position /\ ~Before(q, r)
    BY <1>1, <1>6, <2>2
  <2> QED BY <1>7, <2>1, <2>3, NotBeforeTransitive
<1>8. ~Before(q, q)
  BY <1>1, <1>6, BeforeIsOrder
<1> QED BY <1>1, <1>6, <1>7, <1>8 DEF Kept

\* The locations of a snapshot until it is indexed.
Snapshotting ==
  {"rotate_sync", "rotate_create", "rotate_magic", "rotate_dir", "write", "append_sync",
   "index_replace", "index_dir"}

\* The index in memory has entries of active nodes only, except that of a
\* node that remove_node is removing; a snapshot is of an active node.
RetainInv ==
  /\ pc \in Loaded =>
       \A n \in Nodes :
         registry[n] # "active" /\ checkpoint_index[n] # None =>
           n = op.node /\ op.kind = "remove_node" /\ pc \in {"index_replace", "index_dir"}
  /\ op.kind = "save_snapshot" /\ pc \in Snapshotting => registry[op.node] = "active"

LEMMA RetainStep ==
  ASSUME IInv, CInv, RetainInv, [Next]_vars
  PROVE  RetainInv'
<1> USE DEF content, segments, metadata, memory, writer, call, Loaded, Recovered, Locations, Snapshotting
<1>i. TypeOK /\ OpInv
  BY DEF IInv
<1>t. registry \in Registry /\ checkpoint_index \in CheckpointIndex /\ nodes_json \in Registry
  BY <1>i DEF TypeOK
<1>1. CASE OpenLoad
  <2>1. \A n \in Nodes : nodes_json[n] # "active" => checkpoint_index'[n] = None
    BY <1>1 DEF OpenLoad
  <2> QED BY <1>1, <2>1 DEF OpenLoad, RetainInv
<1>2. CASE IndexDir
  <2>1. pc = "index_dir" /\ op' = op /\ registry' = registry
    BY <1>2 DEF IndexDir
  <2>2. op.node \in Nodes
    BY <1>i, <2>1 DEF OpInv
  <2>3. CASE op.kind = "create_node"
    BY <1>2, <2>1, <2>3 DEF IndexDir, RetainInv
  <2>4. CASE op.kind = "remove_node"
    <3>1. checkpoint_index' = NewIndex /\ NewIndex[op.node] = None
      BY <1>2, <1>t, <2>2, <2>4 DEF IndexDir, NewIndex, CheckpointIndex
    <3>2. \A n \in Nodes : n # op.node => NewIndex[n] = checkpoint_index[n]
      BY <1>t DEF NewIndex, CheckpointIndex
    <3> QED BY <2>1, <3>1, <3>2 DEF RetainInv
  <2>5. CASE op.kind = "save_snapshot"
    <3>1. registry[op.node] = "active"
      BY <2>1, <2>5 DEF RetainInv
    <3> QED BY <1>2, <1>t, <2>1, <2>5, <3>1 DEF IndexDir, RetainInv, NewIndex, CheckpointIndex
  <2> QED BY <1>i, <2>1, <2>3, <2>4, <2>5 DEF OpInv
<1>3. CASE RegistryDir
  <2>1. pc = "registry_dir" /\ op' = op /\ registry' = NewRegistry /\ op.node \in Nodes
    BY <1>3, <1>i DEF RegistryDir, OpInv
  <2>2. /\ \A n \in Nodes : n # op.node => NewRegistry[n] = registry[n]
        /\ \A n \in Nodes : n # op.node => NewIndex[n] = checkpoint_index[n]
    BY <1>t DEF NewRegistry, NewIndex, Registry, CheckpointIndex
  <2>3. CASE op.kind = "create_node"
    <3>1. NewRegistry[op.node] = "active"
      BY <1>t, <2>1, <2>3 DEF NewRegistry, Registry
    <3> QED BY <1>3, <2>1, <2>2, <2>3, <3>1 DEF RegistryDir, RetainInv
  <2>4. CASE op.kind = "remove_node"
    BY <1>3, <2>1, <2>2, <2>4 DEF RegistryDir, RetainInv
  <2> QED BY <1>i, <2>1, <2>3, <2>4 DEF OpInv
<1>4. CASE IndexReplace
  BY <1>4 DEF IndexReplace, RetainInv
<1>5. CASE pc' \notin Loaded
  BY <1>5 DEF RetainInv
<1>6. CASE ~OpenLoad /\ ~IndexDir /\ ~RegistryDir /\ ~IndexReplace /\ pc' \in Loaded
  <2>1. UNCHANGED <<registry, checkpoint_index>> /\ pc \in Loaded
    BY <1>6 DEF Next, Open, Begin, Proceed, AppendSteps, Fault, OpenRecover, OpenExisting, OpenCreate, OpenMagic,
       OpenDir, CreateNode, SaveRecord, SaveSnapshot, RemoveNode, BeginAppend, Sync, RotateSync, RotateFails,
       RotateCreate, RotateMagic, RotateDir, Write, AppendSync, SyncCall, WriterSync, RegistryReplace, GcStart,
       GcDelete, GcDir, Return, Close, ProcessCrash, PowerLoss, LoseIndex, NoEngine, vars
  <2>2. UNCHANGED <<op, pc>> \/ pc \notin {"index_replace", "index_dir"}
    BY <1>6 DEF Next, Open, Begin, Proceed, AppendSteps, Fault, OpenRecover, OpenExisting, OpenCreate, OpenMagic,
       OpenDir, CreateNode, SaveRecord, SaveSnapshot, RemoveNode, BeginAppend, Sync, RotateSync, RotateFails,
       RotateCreate, RotateMagic, RotateDir, Write, AppendSync, SyncCall, WriterSync, RegistryReplace, GcStart,
       GcDelete, GcDir, Return, Close, ProcessCrash, PowerLoss, LoseIndex, NoEngine, vars
  <2>3. \/ UNCHANGED op /\ (op.kind = "save_snapshot" /\ pc' \in Snapshotting => pc \in Snapshotting)
        \/ op'.kind # "save_snapshot"
        \/ registry[op'.node] = "active"
        \/ pc' \in {"idle", "return"}
    BY <1>6 DEF Next, Open, Begin, Proceed, AppendSteps, Fault, OpenRecover, OpenExisting, OpenCreate, OpenMagic,
       OpenDir, CreateNode, SaveRecord, SaveSnapshot, RemoveNode, BeginAppend, Sync, RotateSync, RotateFails,
       RotateCreate, RotateMagic, RotateDir, Write, AppendSync, SyncCall, WriterSync, RegistryReplace, GcStart,
       GcDelete, GcDir, Return, Close, ProcessCrash, PowerLoss, LoseIndex, NoEngine, vars
  <2> QED BY <2>1, <2>2, <2>3 DEF RetainInv
<1> QED BY <1>1, <1>2, <1>3, <1>4, <1>5, <1>6

LEMMA RetainInvariance == Spec => []RetainInv
<1>1. Init => RetainInv
  BY DEF Init, RetainInv, NoOp, Loaded, Recovered, Snapshotting
<1>2. IInv /\ CInv /\ RetainInv /\ [Next]_vars => RetainInv'
  BY RetainStep
<1> QED BY <1>1, <1>2, Invariance, CallInvariance, PTL DEF Spec

\* What a read finds when nothing has been disturbed: only the last segment
\* may be incomplete, and the index entries of active nodes are valid.
Sound ==
  /\ \A s, t \in dir : s < t => Complete(cells, tail, s)
  /\ \A n \in ActiveNodes(nodes_json) :
       checkpoints_json[n] # None => validate_checkpoint_position(cells, dir, n, checkpoints_json[n])

\* Faults of one kind.
OneFault == "process" \notin Faults \/ "power" \notin Faults

LEMMA SoundInvariance == OneFault => (Spec => []Sound)
<1>1. OpenableInv => Sound
  BY DEF OpenableInv, Sound
<1>2. StableInv => Sound
  BY DEF StableInv, SegmentsStable, FilesStable, Sealed, GoodEntry, Complete, Sound
<1>3. CASE "process" \notin Faults
  <2>1. Spec => []StableInv
    BY <1>3, StableInvariance
  <2> QED BY <1>2, <2>1, PTL
<1>4. CASE "power" \notin Faults
  <2>1. Spec => []OpenableInv
    BY <1>4, OpenableInvariance
  <2> QED BY <1>1, <2>1, PTL
<1> QED BY <1>3, <1>4 DEF OneFault

\* The writer of a ReaderSpec behaves as in Spec.
LEMMA WriterIsSpec == ReaderSpec => Spec
<1>1. ReaderInit => Init
  BY DEF ReaderInit
<1>2. [ReaderNext]_rvars => [Next]_vars
  BY DEF ReaderNext, WriterStep, Read, ReadRegistry, ReadIndex, Validate, List, OpenSegment, ScanSegment,
     ReplaySegment, Drop, rvars
<1> QED BY <1>1, <1>2, PTL DEF ReaderSpec, Spec

-------------------------------------------------------------------------------
(***************************************************************************)
(* What the steps of a reader do to the fields of its record.              *)
(***************************************************************************)

SameCall ==
  /\ reader'.all = reader.all
  /\ reader'.targets = reader.targets
  /\ reader'.floor = reader.floor
  /\ reader'.seen = reader.seen

SameHints ==
  /\ reader'.indexed = reader.indexed
  /\ reader'.hints = reader.hints

SameLoop ==
  /\ reader'.unseen = reader.unseen
  /\ reader'.todo = reader.todo
  /\ reader'.last = reader.last

SameResult ==
  /\ reader'.positions = reader.positions
  /\ reader'.state = reader.state

\* The listing of a directory is over, or the segment at hand has been read.
Continues ==
  /\ reader'.todo # {} => reader'.pc = reader.pc /\ reader'.unseen = reader.unseen
  /\ reader'.todo = {} /\ reader.pc = "scan" => reader'.pc = "replay_list" /\ reader'.unseen = SegIds
  /\ reader'.todo = {} /\ reader.pc # "scan" => reader'.pc = "ok" /\ reader'.unseen = reader.unseen

LEMMA SameStart ==
  ASSUME SameHints, SameCall
  PROVE  StartPosition(reader') = StartPosition(reader)
BY DEF SameHints, SameCall, StartPosition, Oldest

LEMMA AdvanceFields ==
  ASSUME NEW r \in ReaderRecord
  PROVE  /\ Advance(r) \in ReaderRecord
         /\ Advance(r).all = r.all /\ Advance(r).targets = r.targets /\ Advance(r).floor = r.floor
         /\ Advance(r).seen = r.seen /\ Advance(r).indexed = r.indexed /\ Advance(r).hints = r.hints
         /\ Advance(r).todo = r.todo /\ Advance(r).last = r.last /\ Advance(r).file_len = r.file_len
         /\ Advance(r).positions = r.positions /\ Advance(r).state = r.state
         /\ r.todo # {} => Advance(r).pc = r.pc /\ Advance(r).unseen = r.unseen
         /\ r.todo = {} /\ r.pc = "scan" => Advance(r).pc = "replay_list" /\ Advance(r).unseen = SegIds
         /\ r.todo = {} /\ r.pc # "scan" => Advance(r).pc = "ok" /\ Advance(r).unseen = r.unseen
<1>1. CASE r.todo # {}
  BY <1>1 DEF Advance
<1>2. CASE r.todo = {} /\ r.pc = "scan"
  BY <1>2 DEF Advance, ReaderRecord, ReaderPcs
<1>3. CASE r.todo = {} /\ r.pc # "scan"
  BY <1>3 DEF Advance, ReaderRecord, ReaderPcs
<1> QED BY <1>1, <1>2, <1>3

LEMMA FailFields ==
  ASSUME ReaderTypeOK, Fails
  PROVE  /\ ReaderTypeOK'
         /\ SameCall /\ SameHints /\ SameLoop /\ SameResult
         /\ reader'.pc = "error" /\ reader'.file_len = None
BY DEF ReaderTypeOK, ReaderRecord, ReaderPcs, Fails, SameCall, SameHints, SameLoop, SameResult

LEMMA NoReaderFields ==
  /\ NoReader \in ReaderRecord
  /\ NoReader.pc = "none" /\ NoReader.todo = {} /\ NoReader.file_len = None /\ NoReader.indexed = {}
  /\ NoReader.hints = NoIndex /\ NoReader.positions = NoIndex /\ NoReader.seen = {} /\ NoReader.targets = {}
  /\ \A n \in Nodes : NoReader.state[n] = {}
<1>1. 0 \in SegIds
  BY SegmentIdAssumption DEF SegIds
<1>2. NoIndex \in CheckpointIndex
  BY DEF NoIndex, CheckpointIndex
<1> QED BY <1>1, <1>2 DEF NoReader, ReaderRecord, ReaderPcs

\* The segment to read is the least one to do.
LEMMA CurrentIsLeast ==
  ASSUME ReaderTypeOK, reader.todo # {}
  PROVE  /\ Current \in reader.todo /\ Current \in SegIds /\ Current \in Nat
         /\ \A t \in reader.todo : Current <= t
<1>1. reader.todo \in SUBSET SegIds /\ SegIds \subseteq Nat
  BY SegmentIdAssumption DEF ReaderTypeOK, ReaderRecord, SegIds
<1>2. \E s \in reader.todo : \A t \in reader.todo : s <= t
  BY <1>1, MinExists
<1> QED BY <1>1, <1>2 DEF Current

\* replay_active_segment is the greatest segment listed.
LEMMA ActiveIsGreatest ==
  ASSUME NEW L \in SUBSET SegIds, L # {}
  PROVE  replay_active_segment(L) \in L /\ \A t \in L : t <= replay_active_segment(L)
<1>1. L \in SUBSET Nat /\ \A x \in L : x <= MaxSegmentId
  BY SegmentIdAssumption DEF SegIds
<1>2. \E s \in L : \A t \in L : t <= s
  BY <1>1, MaxExists, SegmentIdAssumption
<1> QED BY <1>2 DEF replay_active_segment

\* The oldest of the targets' positions.
LEMMA OldestFacts ==
  ASSUME NEW r \in ReaderRecord, r.targets # {}, NEW positions \in CheckpointIndex
  PROVE  /\ Oldest(r, positions) \in Position \cup {None}
         /\ Oldest(r, positions) = None <=> \E n \in r.targets : positions[n] = None
         /\ Oldest(r, positions) # None =>
              /\ \A n \in r.targets : positions[n] \in Position /\ ~Before(positions[n], Oldest(r, positions))
              /\ \E n \in r.targets : positions[n] = Oldest(r, positions)
<1>1. CASE \E n \in r.targets : positions[n] = None
  BY <1>1 DEF Oldest
<1>2. CASE ~\E n \in r.targets : positions[n] = None
  <2> DEFINE S == { positions[n] : n \in r.targets }
  <2>1. S \in SUBSET Position /\ S # {}
    BY <1>2 DEF CheckpointIndex, ReaderRecord
  <2>2. \A n \in r.targets : positions[n] \in S
    OBVIOUS
  <2>3. Oldest(r, positions) = Earliest(S)
    BY <1>2 DEF Oldest
  <2>4. \A q \in S : \E n \in r.targets : positions[n] = q
    OBVIOUS
  <2> HIDE DEF S
  <2>5. Earliest(S) \in S /\ \A q \in S : ~Before(q, Earliest(S))
    BY <2>1, EarliestExists
  <2> QED BY <1>2, <2>1, <2>2, <2>3, <2>4, <2>5, NoneAssumption
<1> QED BY <1>1, <1>2

\* An opened storage is ready for the scan.
LEMMA OpenedFields ==
  ASSUME NEW r \in ReaderRecord
  PROVE  /\ Opened(r) \in ReaderRecord
         /\ Opened(r).all = r.all /\ Opened(r).targets = r.targets /\ Opened(r).floor = r.floor
         /\ Opened(r).seen = r.seen /\ Opened(r).indexed = r.indexed /\ Opened(r).hints = r.hints
         /\ Opened(r).todo = r.todo /\ Opened(r).last = r.last /\ Opened(r).file_len = r.file_len
         /\ Opened(r).state = r.state
         /\ r.indexed # {} => Opened(r) = r
         /\ r.indexed = {} =>
              /\ Opened(r).pc = "scan_list" /\ Opened(r).unseen = SegIds
              /\ Opened(r).positions = IF r.all /\ StartPosition(r) # None THEN r.hints ELSE NoIndex
<1>1. CASE r.indexed # {}
  BY <1>1 DEF Opened
<1>2. CASE r.indexed = {}
  <2> DEFINE P == IF r.all /\ StartPosition(r) # None THEN r.hints ELSE NoIndex
  <2>1. P \in CheckpointIndex
    BY DEF NoIndex, CheckpointIndex, ReaderRecord
  <2>2. Opened(r) = [r EXCEPT !.pc = "scan_list", !.unseen = SegIds, !.positions = P]
    BY <1>2 DEF Opened
  <2> HIDE DEF P
  <2>3. /\ Opened(r) \in ReaderRecord
        /\ Opened(r).all = r.all /\ Opened(r).targets = r.targets /\ Opened(r).floor = r.floor
        /\ Opened(r).seen = r.seen /\ Opened(r).indexed = r.indexed /\ Opened(r).hints = r.hints
        /\ Opened(r).todo = r.todo /\ Opened(r).last = r.last /\ Opened(r).file_len = r.file_len
        /\ Opened(r).state = r.state
        /\ Opened(r).pc = "scan_list" /\ Opened(r).unseen = SegIds /\ Opened(r).positions = P
    BY <2>1, <2>2 DEF ReaderRecord, ReaderPcs
  <2> QED BY <1>2, <2>3 DEF P
<1> QED BY <1>1, <1>2

\* The newest record of a node, if it has one.
LEMMA LatestRecord ==
  ASSUME TypeOK, NEW n
  PROVE  /\ Latest(AllOf(cells, n)) \in Position \cup {None}
         /\ AllOf(cells, n) # {} => Latest(AllOf(cells, n)) \in AllOf(cells, n)
<1> DEFINE b == [s \in SegIds |-> Len(cells[s])]
<1>1. cells \in [SegIds -> Seq(Cell)]
  BY DEF TypeOK
<1>2. AllOf(cells, n) \in SUBSET Position /\ \A p \in AllOf(cells, n) : p.off <= Len(cells[p.seg]) /\ p.seg \in SegIds
  BY <1>1, RecordFacts
<1>3. b \in [SegIds -> Nat] /\ \A p \in AllOf(cells, n) : p.off <= b[p.seg]
  BY <1>1, <1>2
<1>4. CASE AllOf(cells, n) = {}
  BY <1>4 DEF Latest
<1>5. CASE AllOf(cells, n) # {}
  <2> HIDE DEF b
  <2>1. Latest(AllOf(cells, n)) \in AllOf(cells, n)
    BY <1>2, <1>3, <1>5, LatestExists
  <2> QED BY <1>2, <2>1
<1> QED BY <1>4, <1>5

LEMMA RegistryFields ==
  ASSUME TypeOK, ReadRegistry
  PROVE  /\ ReaderTypeOK'
         /\ reader'.pc = "index" /\ reader'.todo = {} /\ reader'.file_len = None
         /\ reader'.targets # {} /\ reader'.targets \subseteq ActiveNodes(nodes_json)
         /\ ~reader'.all => \E n \in Nodes : reader'.targets = {n}
         /\ reader'.indexed = ActiveNodes(nodes_json)
         /\ reader'.hints = NoIndex /\ reader'.positions = NoIndex /\ reader'.seen = {}
         /\ \A n \in Nodes : reader'.state[n] = {} /\ reader'.floor[n] = Latest(AllOf(cells, n))
<1> DEFINE floor == [n \in Nodes |-> Latest(AllOf(cells, n))]
<1>1. PICK targets \in { {n} : n \in ActiveNodes(nodes_json) } \cup {ActiveNodes(nodes_json)}, all \in BOOLEAN :
        /\ targets # {} /\ (~all => \E n \in targets : targets = {n})
        /\ reader' = [NoReader EXCEPT !.pc = "index", !.all = all, !.targets = targets,
                                      !.indexed = ActiveNodes(nodes_json), !.floor = floor]
  BY DEF ReadRegistry, AllOf
<1>2. targets \subseteq ActiveNodes(nodes_json) /\ ActiveNodes(nodes_json) \subseteq Nodes
  BY DEF ActiveNodes
<1>3. floor \in [Nodes -> Position \cup {None}] /\ \A n \in Nodes : floor[n] = Latest(AllOf(cells, n))
  BY LatestRecord
<1> HIDE DEF floor
<1>4. 0 \in SegIds /\ NoIndex \in CheckpointIndex
  BY SegmentIdAssumption DEF SegIds, NoIndex, CheckpointIndex
<1>5. reader' = [pc |-> "index", all |-> all, targets |-> targets, indexed |-> ActiveNodes(nodes_json),
                 hints |-> NoIndex, unseen |-> {}, todo |-> {}, last |-> 0, file_len |-> None,
                 positions |-> NoIndex, state |-> [n \in Nodes |-> {}], floor |-> floor, seen |-> {}]
  BY <1>1 DEF NoReader
<1>6. ReaderTypeOK'
  BY <1>1, <1>2, <1>3, <1>4, <1>5 DEF ReaderTypeOK, ReaderRecord, ReaderPcs
<1>7. /\ reader'.pc = "index" /\ reader'.todo = {} /\ reader'.file_len = None
      /\ reader'.targets = targets /\ reader'.all = all /\ reader'.indexed = ActiveNodes(nodes_json)
      /\ reader'.hints = NoIndex /\ reader'.positions = NoIndex /\ reader'.seen = {}
      /\ reader'.floor = floor
  BY <1>5
<1>8. \A n \in Nodes : reader'.state[n] = {}
  BY <1>5
<1>9. ~reader'.all => \E n \in Nodes : reader'.targets = {n}
  BY <1>1, <1>2, <1>7
<1> QED BY <1>1, <1>2, <1>3, <1>6, <1>7, <1>8, <1>9

LEMMA IndexFields ==
  ASSUME TypeOK, ReaderTypeOK, ReadIndex
  PROVE  /\ ReaderTypeOK' /\ SameCall
         /\ reader'.todo = reader.todo /\ reader'.file_len = reader.file_len /\ reader'.state = reader.state
         /\ \A n \in Nodes : reader'.hints[n] = IF n \in reader.indexed THEN checkpoints_json[n] ELSE None
         /\ reader'.indexed = { n \in Nodes : reader'.hints[n] # None }
         /\ \/ reader'.indexed # {} /\ reader'.pc = "validate" /\ reader'.positions = reader.positions
            \/ /\ reader'.indexed = {} /\ reader'.pc = "scan_list" /\ reader'.unseen = SegIds
               /\ reader'.positions = IF reader'.all /\ StartPosition(reader') # None THEN reader'.hints ELSE NoIndex
<1> DEFINE hints == [n \in Nodes |-> IF n \in reader.indexed THEN checkpoints_json[n] ELSE None]
           indexed == { n \in Nodes : hints[n] # None }
<1>1. hints \in CheckpointIndex
  BY DEF TypeOK, CheckpointIndex
<1>2. \A n \in Nodes : hints[n] = IF n \in reader.indexed THEN checkpoints_json[n] ELSE None
  OBVIOUS
<1>3. reader.pc = "index" /\ reader' = Opened([reader EXCEPT !.pc = "validate", !.hints = hints, !.indexed = indexed])
  BY DEF ReadIndex
<1>i. indexed \in SUBSET Nodes /\ indexed = { n \in Nodes : hints[n] # None }
  OBVIOUS
<1> HIDE DEF hints, indexed
<1> DEFINE r == [reader EXCEPT !.pc = "validate", !.hints = hints, !.indexed = indexed]
<1>4. /\ r \in ReaderRecord /\ r.pc = "validate" /\ r.hints = hints /\ r.indexed = indexed
      /\ r.all = reader.all /\ r.targets = reader.targets /\ r.floor = reader.floor /\ r.seen = reader.seen
      /\ r.todo = reader.todo /\ r.file_len = reader.file_len /\ r.state = reader.state
      /\ r.positions = reader.positions
  BY <1>1, <1>i DEF ReaderTypeOK, ReaderRecord, ReaderPcs
<1>5. reader' = Opened(r)
  BY <1>3
<1> HIDE DEF r
<1>6. /\ ReaderTypeOK' /\ SameCall /\ reader'.hints = hints /\ reader'.indexed = indexed
      /\ reader'.todo = reader.todo /\ reader'.file_len = reader.file_len /\ reader'.state = reader.state
      /\ indexed # {} => reader'.pc = "validate" /\ reader'.positions = reader.positions
      /\ indexed = {} =>
           /\ reader'.pc = "scan_list" /\ reader'.unseen = SegIds
           /\ reader'.positions = IF r.all /\ StartPosition(r) # None THEN r.hints ELSE NoIndex
  BY <1>4, <1>5, OpenedFields DEF ReaderTypeOK, SameCall
<1>7. StartPosition(reader') = StartPosition(r)
  BY <1>4, <1>6 DEF StartPosition, Oldest, SameCall
<1> QED BY <1>2, <1>4, <1>i, <1>6, <1>7 DEF SameCall

LEMMA ValidateFields ==
  ASSUME ReaderTypeOK, Validate
  PROVE  \E n \in reader.indexed :
           \/ Fails /\ ~validate_checkpoint_position(cells, dir, n, reader.hints[n])
           \/ /\ validate_checkpoint_position(cells, dir, n, reader.hints[n])
              /\ ReaderTypeOK' /\ SameCall /\ reader'.hints = reader.hints
              /\ reader'.todo = reader.todo /\ reader'.file_len = reader.file_len /\ reader'.state = reader.state
              /\ reader'.indexed = reader.indexed \ {n}
              /\ \/ reader'.indexed # {} /\ reader'.pc = "validate" /\ reader'.positions = reader.positions
                 \/ /\ reader'.indexed = {} /\ reader'.pc = "scan_list" /\ reader'.unseen = SegIds
                    /\ reader'.positions = IF reader'.all /\ StartPosition(reader') # None THEN reader'.hints ELSE NoIndex
<1>1. PICK n \in reader.indexed :
        IF validate_checkpoint_position(cells, dir, n, reader.hints[n])
        THEN reader' = Opened([reader EXCEPT !.indexed = @ \ {n}])
        ELSE Fails
  BY DEF Validate
<1>2. CASE validate_checkpoint_position(cells, dir, n, reader.hints[n])
  <2> DEFINE r == [reader EXCEPT !.indexed = @ \ {n}]
  <2>1. /\ r \in ReaderRecord /\ r.pc = reader.pc /\ r.hints = reader.hints /\ r.indexed = reader.indexed \ {n}
        /\ r.all = reader.all /\ r.targets = reader.targets /\ r.floor = reader.floor /\ r.seen = reader.seen
        /\ r.todo = reader.todo /\ r.file_len = reader.file_len /\ r.state = reader.state
        /\ r.positions = reader.positions
    BY DEF ReaderTypeOK, ReaderRecord, ReaderPcs
  <2>2. reader' = Opened(r) /\ reader.pc = "validate"
    BY <1>1, <1>2 DEF Validate
  <2> HIDE DEF r
  <2>3. /\ ReaderTypeOK' /\ SameCall /\ reader'.hints = reader.hints /\ reader'.indexed = reader.indexed \ {n}
        /\ reader'.todo = reader.todo /\ reader'.file_len = reader.file_len /\ reader'.state = reader.state
        /\ r.indexed # {} => reader'.pc = "validate" /\ reader'.positions = reader.positions
        /\ r.indexed = {} =>
             /\ reader'.pc = "scan_list" /\ reader'.unseen = SegIds
             /\ reader'.positions = IF r.all /\ StartPosition(r) # None THEN r.hints ELSE NoIndex
    BY <2>1, <2>2, OpenedFields DEF ReaderTypeOK, SameCall
  <2>4. StartPosition(reader') = StartPosition(r)
    BY <2>1, <2>3 DEF StartPosition, Oldest, SameCall
  <2> QED BY <1>2, <2>1, <2>3, <2>4 DEF SameCall
<1>3. CASE ~validate_checkpoint_position(cells, dir, n, reader.hints[n])
  BY <1>1, <1>3
<1> QED BY <1>2, <1>3

\* discover_segment_paths goes on, or is through.
ListFields(names) ==
  LET listing == reader.todo \cup (names \cap dir) IN
  \/ /\ reader.unseen \ names # {}
     /\ reader'.pc = reader.pc
     /\ reader'.unseen = reader.unseen \ names
     /\ reader'.todo = listing
  \/ /\ reader.unseen \ names = {}
     /\ reader'.last = replay_active_segment(listing)
     /\ reader'.todo = { s \in listing : FirstSegment <= s }
     /\ reader'.todo # {} => reader'.pc = IF reader.pc = "scan_list" THEN "scan" ELSE "replay"
     /\ reader'.todo = {} /\ reader.pc = "scan_list" => reader'.pc = "replay_list" /\ reader'.unseen = SegIds
     /\ reader'.todo = {} /\ reader.pc = "replay_list" => reader'.pc = "ok"

LEMMA ListEffect ==
  ASSUME TypeOK, ReaderTypeOK, List
  PROVE  /\ ReaderTypeOK' /\ SameCall /\ SameHints /\ SameResult /\ reader'.file_len = reader.file_len
         /\ \E names \in SUBSET reader.unseen : ListFields(names)
<1>0. PICK names \in IF AtomicListing THEN {reader.unseen} ELSE { {s} : s \in reader.unseen } :
        LET unseen  == reader.unseen \ names
            listing == reader.todo \cup (names \cap dir)
        IN  reader' = IF unseen # {}
                      THEN [reader EXCEPT !.unseen = unseen, !.todo = listing]
                      ELSE Advance([reader EXCEPT
                                     !.pc = IF @ = "scan_list" THEN "scan" ELSE "replay",
                                     !.unseen = {},
                                     !.last = replay_active_segment(listing),
                                     !.todo = { s \in listing : FirstSegment <= s }])
  BY DEF List
<1>n. names \in SUBSET reader.unseen
  BY <1>0
<1> DEFINE listing == reader.todo \cup (names \cap dir)
           rest == { s \in listing : FirstSegment <= s }
           last == replay_active_segment(listing)
<1>2. listing \in SUBSET SegIds /\ rest \in SUBSET SegIds /\ reader.pc \in Listing
  BY <1>n DEF TypeOK, ReaderTypeOK, ReaderRecord, List
<1>3. last \in SegIds
  <2>1. CASE listing = {}
    BY <2>1 DEF replay_active_segment, ReaderTypeOK, ReaderRecord
  <2>2. CASE listing # {}
    BY <1>2, <2>2, ActiveIsGreatest
  <2> QED BY <2>1, <2>2
<1>4. CASE reader.unseen \ names # {}
  <2>1. reader' = [reader EXCEPT !.unseen = reader.unseen \ names, !.todo = listing]
    BY <1>0, <1>4
  <2> HIDE DEF listing
  <2>2. /\ ReaderTypeOK' /\ SameCall /\ SameHints /\ SameResult /\ reader'.file_len = reader.file_len
        /\ reader'.pc = reader.pc /\ reader'.unseen = reader.unseen \ names /\ reader'.todo = listing
    BY <1>2, <2>1 DEF ReaderTypeOK, ReaderRecord, SameCall, SameHints, SameResult
  <2> QED BY <1>4, <1>n, <2>2 DEF ListFields, listing
<1>5. CASE reader.unseen \ names = {}
  <2> DEFINE r == [reader EXCEPT !.pc = IF @ = "scan_list" THEN "scan" ELSE "replay", !.unseen = {},
                                 !.last = last, !.todo = rest]
  <2>1. reader' = Advance(r)
    BY <1>0, <1>5
  <2> HIDE DEF listing, rest, last
  <2>2. /\ r \in ReaderRecord
        /\ r.pc = IF reader.pc = "scan_list" THEN "scan" ELSE "replay"
        /\ r.unseen = {} /\ r.last = last /\ r.todo = rest
        /\ r.all = reader.all /\ r.targets = reader.targets /\ r.floor = reader.floor /\ r.seen = reader.seen
        /\ r.indexed = reader.indexed /\ r.hints = reader.hints /\ r.file_len = reader.file_len
        /\ r.positions = reader.positions /\ r.state = reader.state
    BY <1>2, <1>3 DEF ReaderTypeOK, ReaderRecord, ReaderPcs
  <2> HIDE DEF r
  <2>3. ReaderTypeOK' /\ SameCall /\ SameHints /\ SameResult /\ reader'.file_len = reader.file_len
    BY <2>1, <2>2, AdvanceFields DEF ReaderTypeOK, SameCall, SameHints, SameResult
  <2>4. /\ reader'.last = last /\ reader'.todo = rest
        /\ rest # {} => reader'.pc = r.pc
        /\ rest = {} /\ r.pc = "scan" => reader'.pc = "replay_list" /\ reader'.unseen = SegIds
        /\ rest = {} /\ r.pc # "scan" => reader'.pc = "ok"
    BY <2>1, <2>2, AdvanceFields
  <2>5. ListFields(names)
    BY <1>2, <1>5, <2>2, <2>4 DEF ListFields, listing, rest, last, Listing
  <2> QED BY <1>n, <2>3, <2>5
<1> QED BY <1>4, <1>5

\* The segment at hand has been read or is skipped.
Leaves(P, S) ==
  /\ SameCall /\ SameHints /\ Continues
  /\ reader'.todo = reader.todo \ {Current}
  /\ reader'.last = reader.last
  /\ reader'.file_len = None
  /\ reader'.positions = P
  /\ reader'.state = S

LEMMA LeaveFields ==
  ASSUME ReaderTypeOK, NEW P \in CheckpointIndex, NEW S \in [Nodes -> SUBSET Position],
         reader' = Advance([reader EXCEPT !.todo = @ \ {Current}, !.file_len = None, !.positions = P, !.state = S])
  PROVE  ReaderTypeOK' /\ Leaves(P, S)
<1> DEFINE r == [reader EXCEPT !.todo = @ \ {Current}, !.file_len = None, !.positions = P, !.state = S]
<1>1. /\ r \in ReaderRecord
      /\ r.todo = reader.todo \ {Current} /\ r.file_len = None /\ r.positions = P /\ r.state = S
      /\ r.pc = reader.pc /\ r.unseen = reader.unseen /\ r.last = reader.last
      /\ r.all = reader.all /\ r.targets = reader.targets /\ r.floor = reader.floor /\ r.seen = reader.seen
      /\ r.indexed = reader.indexed /\ r.hints = reader.hints
  BY DEF ReaderTypeOK, ReaderRecord
<1>2. reader' = Advance(r)
  OBVIOUS
<1> HIDE DEF r
<1> QED BY <1>1, <1>2, AdvanceFields DEF ReaderTypeOK, SameCall, SameHints, Continues, Leaves

LEMMA OpenFields ==
  ASSUME TypeOK, ReaderTypeOK, OpenSegment
  PROVE  /\ reader.pc \in Looping /\ reader.todo # {}
         /\ \/ Fails /\ (Current \notin dir \/ (cells[Current] = <<>> /\ Current # reader.last))
            \/ /\ cells[Current] = <<>> /\ Current = reader.last
               /\ ReaderTypeOK' /\ Leaves(reader.positions, reader.state)
            \/ /\ Current \in dir
               /\ ReaderTypeOK' /\ SameCall /\ SameHints /\ SameLoop /\ SameResult /\ reader'.pc = reader.pc
               /\ reader'.file_len = Len(cells[Current]) + (IF tail[Current] = "torn" THEN 1 ELSE 0)
<1>1. reader.pc \in Looping /\ reader.todo # {} /\ reader.file_len = None
  BY DEF OpenSegment, Looping
<1>2. Current \in SegIds /\ Len(cells[Current]) \in Nat
  BY <1>1, CurrentIsLeast DEF TypeOK
<1>3. CASE Fails /\ (Current \notin dir \/ (cells[Current] = <<>> /\ Current # reader.last))
  BY <1>1, <1>3
<1>4. CASE /\ cells[Current] = <<>> /\ Current = reader.last
           /\ reader' = Advance([reader EXCEPT !.todo = @ \ {Current}])
  <2>1. [reader EXCEPT !.todo = @ \ {Current}]
          = [reader EXCEPT !.todo = @ \ {Current}, !.file_len = None, !.positions = reader.positions, !.state = reader.state]
    BY <1>1 DEF ReaderTypeOK, ReaderRecord
  <2>2. reader.positions \in CheckpointIndex /\ reader.state \in [Nodes -> SUBSET Position]
    BY DEF ReaderTypeOK, ReaderRecord
  <2> QED BY <1>1, <1>4, <2>1, <2>2, LeaveFields
<1>5. CASE /\ Current \in dir
           /\ reader' = [reader EXCEPT !.file_len = Len(cells[Current]) + (IF tail[Current] = "torn" THEN 1 ELSE 0)]
  <2>1. Len(cells[Current]) + (IF tail[Current] = "torn" THEN 1 ELSE 0) \in Nat
    <3>1. CASE tail[Current] = "torn"
      BY <1>2, <3>1
    <3>2. CASE tail[Current] # "torn"
      BY <1>2, <3>2
    <3> QED BY <3>1, <3>2
  <2> QED BY <1>1, <1>5, <2>1 DEF ReaderTypeOK, ReaderRecord, SameCall, SameHints, SameLoop, SameResult
<1> QED BY <1>3, <1>4, <1>5 DEF OpenSegment

\* The loop over the records of the segment at hand may fail.
MayFail ==
  \/ "cut" \in reader.seen
  \/ Len(cells[Current]) # reader.file_len /\ Current # reader.last

\* The checkpoints of n in the segment at hand that the scan looks at.
Found(n) ==
  { p \in RootsOf(cells, n) :
      /\ p.seg = Current
      /\ n \in reader.targets
      /\ StartPosition(reader) # None => ~Before(p, StartPosition(reader)) }

LEMMA InSegment ==
  ASSUME TypeOK, NEW n, NEW s \in SegIds
  PROVE  /\ RecordsOf(cells, {s}, n) = { p \in AllOf(cells, n) : p.seg = s }
         /\ CheckpointsOf(cells, {s}, n) = { p \in RootsOf(cells, n) : p.seg = s }
<1>1. {s} \in SUBSET SegIds
  OBVIOUS
<1> QED BY <1>1, RecordTypes DEF AllOf, RootsOf

\* A set of records has a latest one.
LEMMA LatestOfRecords ==
  ASSUME TypeOK, NEW n, NEW S \in SUBSET AllOf(cells, n), S # {}
  PROVE  Latest(S) \in S /\ \A p \in S : ~Before(Latest(S), p)
<1> DEFINE b == [s \in SegIds |-> Len(cells[s])]
<1>1. cells \in [SegIds -> Seq(Cell)]
  BY DEF TypeOK
<1>2. S \in SUBSET Position /\ \A p \in S : p.off <= Len(cells[p.seg]) /\ p.seg \in SegIds
  BY <1>1, RecordFacts
<1>3. b \in [SegIds -> Nat] /\ \A p \in S : p.off <= b[p.seg]
  BY <1>1, <1>2
<1> HIDE DEF b
<1> QED BY <1>2, <1>3, LatestExists

LEMMA ScanFields ==
  ASSUME TypeOK, ReaderTypeOK, ListInv, ScanSegment
  PROVE  /\ reader.pc = "scan" /\ reader.todo # {} /\ reader.file_len # None
         /\ \/ /\ Fails
               /\ \/ MayFail
                  \/ /\ StartPosition(reader) # None /\ StartPosition(reader).seg = Current
                     /\ reader.file_len < StartPosition(reader).off
            \/ /\ ReaderTypeOK'
               /\ \E P \in CheckpointIndex :
                    /\ Leaves(P, reader.state)
                    /\ \A n \in Nodes :
                         /\ Found(n) = {} => P[n] = reader.positions[n]
                         /\ Found(n) # {} => P[n] \in Found(n) /\ \A p \in Found(n) : ~Before(P[n], p)
<1> DEFINE start == StartPosition(reader)
           P == [n \in Nodes |-> IF Found(n) = {} THEN reader.positions[n] ELSE Latest(Found(n))]
<1>1. reader.pc = "scan" /\ reader.file_len # None /\ reader.todo # {}
  BY DEF ScanSegment, ListInv, Looping
<1>2. Current \in SegIds
  BY <1>1, CurrentIsLeast
<1>3. \A n \in Nodes : { p \in CheckpointsOf(cells, {Current}, n) :
                           n \in reader.targets /\ (start # None => ~Before(p, start)) } = Found(n)
  <2> SUFFICES ASSUME NEW n \in Nodes
               PROVE  { p \in CheckpointsOf(cells, {Current}, n) :
                          n \in reader.targets /\ (start # None => ~Before(p, start)) } = Found(n)
    OBVIOUS
  <2>1. CheckpointsOf(cells, {Current}, n) = { p \in RootsOf(cells, n) : p.seg = Current }
    BY <1>2, InSegment
  <2> QED BY <2>1 DEF Found
<1>4. \A n \in Nodes : Found(n) # {} => Latest(Found(n)) \in Found(n) /\ \A p \in Found(n) : ~Before(Latest(Found(n)), p)
  <2> SUFFICES ASSUME NEW n \in Nodes, Found(n) # {}
               PROVE  Latest(Found(n)) \in Found(n) /\ \A p \in Found(n) : ~Before(Latest(Found(n)), p)
    OBVIOUS
  <2>1. Found(n) \in SUBSET AllOf(cells, n)
    BY DEF Found, RootsOf, AllOf, CheckpointsOf
  <2> QED BY <2>1, LatestOfRecords
<1>5. \A n \in Nodes : Found(n) \subseteq Position
  BY RecordFacts DEF Found, TypeOK
<1>6. P \in CheckpointIndex
  BY <1>4, <1>5 DEF CheckpointIndex, ReaderTypeOK, ReaderRecord
<1>7. \A n \in Nodes :
        /\ Found(n) = {} => P[n] = reader.positions[n]
        /\ Found(n) # {} => P[n] \in Found(n) /\ \A p \in Found(n) : ~Before(P[n], p)
  BY <1>4
<1>8. PICK end \in LoopEnds :
        IF end = "error" \/ (start # None /\ start.seg = Current /\ reader.file_len < start.off) THEN Fails
        ELSE reader' = Advance([reader EXCEPT
               !.todo = @ \ {Current}, !.file_len = None,
               !.positions = [n \in Nodes |->
                  IF { p \in CheckpointsOf(cells, {Current}, n) :
                         n \in reader.targets /\ (start # None => ~Before(p, start)) } = {} THEN reader.positions[n]
                  ELSE Latest({ p \in CheckpointsOf(cells, {Current}, n) :
                                  n \in reader.targets /\ (start # None => ~Before(p, start)) })]])
  BY DEF ScanSegment
<1>9. [n \in Nodes |->
        IF { p \in CheckpointsOf(cells, {Current}, n) :
               n \in reader.targets /\ (start # None => ~Before(p, start)) } = {} THEN reader.positions[n]
        ELSE Latest({ p \in CheckpointsOf(cells, {Current}, n) :
                        n \in reader.targets /\ (start # None => ~Before(p, start)) })] = P
  BY <1>3
<1>10. end = "error" => MayFail
  BY DEF LoopEnds, MayFail
<1>11. CASE end = "error" \/ (start # None /\ start.seg = Current /\ reader.file_len < start.off)
  BY <1>1, <1>8, <1>10, <1>11
<1>12. CASE ~(end = "error" \/ (start # None /\ start.seg = Current /\ reader.file_len < start.off))
  <2>1. reader' = Advance([reader EXCEPT !.todo = @ \ {Current}, !.file_len = None, !.positions = P])
    BY <1>8, <1>9, <1>12
  <2> HIDE DEF P
  <2>2. [reader EXCEPT !.todo = @ \ {Current}, !.file_len = None, !.positions = P]
          = [reader EXCEPT !.todo = @ \ {Current}, !.file_len = None, !.positions = P, !.state = reader.state]
    BY DEF ReaderTypeOK, ReaderRecord
  <2>3. reader.state \in [Nodes -> SUBSET Position]
    BY DEF ReaderTypeOK, ReaderRecord
  <2>4. ReaderTypeOK' /\ Leaves(P, reader.state)
    BY <1>6, <2>1, <2>2, <2>3, LeaveFields
  <2>5. \E Q \in CheckpointIndex :
          /\ Leaves(Q, reader.state)
          /\ \A n \in Nodes :
               /\ Found(n) = {} => Q[n] = reader.positions[n]
               /\ Found(n) # {} => Q[n] \in Found(n) /\ \A p \in Found(n) : ~Before(Q[n], p)
    BY <1>6, <1>7, <2>4 DEF Leaves
  <2> QED BY <1>1, <2>4, <2>5
<1> QED BY <1>11, <1>12

LEMMA ReplayFields ==
  ASSUME TypeOK, ReaderTypeOK, ListInv, ReplaySegment
  PROVE  /\ reader.pc = "replay" /\ reader.todo # {} /\ reader.file_len # None
         /\ \/ Fails /\ (MayFail \/ \E n \in Nodes : MayReject(n))
            \/ /\ ReaderTypeOK'
               /\ \E S \in [Nodes -> SUBSET Position] :
                    /\ Leaves(reader.positions, S)
                    /\ \A n \in Nodes : S[n] = Fold(reader.state[n], Replayed(n))
<1> DEFINE S == [n \in Nodes |-> Fold(reader.state[n], Replayed(n))]
<1>1. reader.pc = "replay" /\ reader.file_len # None /\ reader.todo # {}
  BY DEF ReplaySegment, ListInv, Looping
<1>2. Current \in SegIds
  BY <1>1, CurrentIsLeast
<1>3. \A n \in Nodes : Replayed(n) \subseteq Position
  <2> SUFFICES ASSUME NEW n \in Nodes
               PROVE  Replayed(n) \subseteq Position
    OBVIOUS
  <2>1. RecordsOf(cells, {Current}, n) = { p \in AllOf(cells, n) : p.seg = Current }
    BY <1>2, InSegment
  <2>2. AllOf(cells, n) \subseteq Position
    BY RecordFacts DEF TypeOK
  <2> QED BY <2>1, <2>2 DEF Replayed
<1>4. S \in [Nodes -> SUBSET Position] /\ \A n \in Nodes : S[n] = Fold(reader.state[n], Replayed(n))
  BY <1>3 DEF Fold, ReaderTypeOK, ReaderRecord
<1>5. PICK end \in LoopEnds \cup (IF \E n \in Nodes : MayReject(n) THEN {"error"} ELSE {}) :
        IF end = "error" THEN Fails
        ELSE reader' = Advance([reader EXCEPT !.todo = @ \ {Current}, !.file_len = None, !.state = S])
  BY DEF ReplaySegment
<1>6. CASE end = "error"
  <2>1. MayFail \/ \E n \in Nodes : MayReject(n)
    BY <1>5, <1>6 DEF LoopEnds, MayFail
  <2> QED BY <1>1, <1>5, <1>6, <2>1
<1>7. CASE end # "error"
  <2>1. reader' = Advance([reader EXCEPT !.todo = @ \ {Current}, !.file_len = None, !.state = S])
    BY <1>5, <1>7
  <2> HIDE DEF S
  <2>2. [reader EXCEPT !.todo = @ \ {Current}, !.file_len = None, !.state = S]
          = [reader EXCEPT !.todo = @ \ {Current}, !.file_len = None, !.positions = reader.positions, !.state = S]
    BY DEF ReaderTypeOK, ReaderRecord
  <2>3. reader.positions \in CheckpointIndex
    BY DEF ReaderTypeOK, ReaderRecord
  <2>4. ReaderTypeOK' /\ Leaves(reader.positions, S)
    BY <1>4, <2>1, <2>2, <2>3, LeaveFields
  <2> QED BY <1>1, <1>4, <2>4
<1> QED BY <1>6, <1>7

LEMMA WriterFields ==
  ASSUME ReaderTypeOK, WriterStep
  PROVE  /\ Next
         /\ \/ reader' = NoReader
            \/ /\ ~PowerLoss /\ reader.pc # "none"
               /\ ReaderTypeOK' /\ SameHints /\ SameLoop /\ SameResult
               /\ reader'.pc = reader.pc /\ reader'.file_len = reader.file_len
               /\ reader'.all = reader.all /\ reader'.targets = reader.targets /\ reader'.floor = reader.floor
               /\ "mixed" \notin reader'.seen =>
                    /\ "mixed" \notin reader.seen
                    /\ reader.pc \in Listing /\ reader.unseen # SegIds => dir' = dir
               /\ reader'.seen = {} =>
                    /\ reader.seen = {}
                    /\ dir \subseteq dir'
                    /\ reader.pc \in Listing /\ reader.unseen # SegIds => dir' = dir
<1>1. Next
  BY DEF WriterStep
<1>2. CASE PowerLoss \/ reader.pc = "none"
  BY <1>1, <1>2 DEF WriterStep
<1>3. CASE ~(PowerLoss \/ reader.pc = "none")
  <2> DEFINE more == Meanwhile
  <2>1. reader' = [reader EXCEPT !.seen = reader.seen \cup more]
    BY <1>3 DEF WriterStep
  <2>2. /\ more \in SUBSET {"collected", "cut", "mixed"}
        /\ "mixed" \notin more => (reader.pc \in Listing /\ reader.unseen # SegIds => dir' = dir)
        /\ "collected" \notin more => dir \subseteq dir'
    BY DEF Meanwhile
  <2> HIDE DEF more
  <2>3. /\ ReaderTypeOK' /\ SameHints /\ SameLoop /\ SameResult
        /\ reader'.pc = reader.pc /\ reader'.file_len = reader.file_len
        /\ reader'.all = reader.all /\ reader'.targets = reader.targets /\ reader'.floor = reader.floor
        /\ reader'.seen = reader.seen \cup more
    BY <2>1, <2>2 DEF ReaderTypeOK, ReaderRecord, SameHints, SameLoop, SameResult
  <2> QED BY <1>1, <1>3, <2>2, <2>3
<1> QED BY <1>2, <1>3

-------------------------------------------------------------------------------
(***************************************************************************)
(* Replaying one segment after the other.                                  *)
(***************************************************************************)

LEMMA PositionFacts ==
  ASSUME NEW p \in Position
  PROVE  p.seg \in SegIds /\ p.seg \in Nat /\ p.off \in Nat
BY SegmentIdAssumption DEF Position, SegIds

\* What replaying segment c, the least to do, makes of a state: the node is
\* still in segments to come, or has been applied from a checkpoint on.
LEMMA FoldStep ==
  ASSUME TypeOK, NEW n, NEW todo \in SUBSET SegIds, NEW last \in SegIds,
         NEW c \in todo, \A t \in todo : c <= t /\ t <= last,
         NEW pos \in Position \cup {None}, NEW S, NEW R,
         R = { p \in AllOf(cells, n) : p.seg = c /\ (pos # None => ~Before(p, pos)) },
         NEW q \in RootsOf(cells, n), pos # None => ~Before(q, pos), q.seg <= last,
         Pending(cells, todo, last, n, q) \/ Applied(cells, S, todo, last, n, q)
  PROVE  \E r \in RootsOf(cells, n) :
           /\ ~Before(r, q) /\ r.seg <= last
           /\ pos # None => ~Before(r, pos)
           /\ \/ q.seg # c /\ r = q /\ Pending(cells, todo \ {c}, last, n, r)
              \/ Applied(cells, Fold(S, R), todo \ {c}, last, n, r)
<1> DEFINE A == AllOf(cells, n)
           C == { p \in R : CellAt(cells, p).checkpoint }
<1>c. cells \in [SegIds -> Seq(Cell)]
  BY DEF TypeOK
<1>1. /\ A \subseteq Position /\ RootsOf(cells, n) \subseteq A /\ q \in A
      /\ \A p \in A : p.seg \in Nat /\ p.off \in Nat /\ p.seg \in SegIds
      /\ \A p \in A : CellAt(cells, p).checkpoint <=> p \in RootsOf(cells, n)
  BY <1>c, RecordFacts
<1>2. todo \subseteq Nat /\ last \in Nat /\ c \in Nat /\ c <= last
  BY SegmentIdAssumption DEF SegIds
<1>3. R \subseteq A /\ (\A p \in R : p.seg = c) /\ C \subseteq RootsOf(cells, n) /\ C \subseteq R
  BY <1>1
<1>4. \A p, r \in A : (~Before(p, r) => r.seg <= p.seg) /\ (p.seg < r.seg => ~Before(r, p))
  BY <1>1 DEF Before
<1>5. \A p, r, s \in A : ~Before(p, r) /\ ~Before(r, s) => ~Before(p, s)
  BY <1>1, NotBeforeTransitive
<1>6. \A p, r \in A : ~Before(p, r) /\ (pos # None => ~Before(r, pos)) => (pos # None => ~Before(p, pos))
  BY <1>1, NotBeforeTransitive
<1>7. C # {} => Latest(C) \in C /\ \A p \in C : ~Before(Latest(C), p)
  <2>1. C \in SUBSET AllOf(cells, n)
    BY <1>3
  <2> HIDE DEF C
  <2> QED BY <2>1, LatestOfRecords
<1>8. /\ C = {} => Fold(S, R) = S \cup R
      /\ C # {} => Fold(S, R) = { p \in R : ~Before(p, Latest(C)) }
  BY DEF Fold
<1>9. \A p \in A : ~Before(p, p)
  BY <1>1, BeforeIsOrder
<1> HIDE DEF C, A
<1>10. ASSUME C # {},
              \A p \in A : ~Before(p, Latest(C)) /\ p.seg <= last => p.seg \in todo,
              ~Before(Latest(C), q)
       PROVE  Applied(cells, Fold(S, R), todo \ {c}, last, n, Latest(C)) /\ Latest(C) \in RootsOf(cells, n) /\ Latest(C).seg <= last
              /\ (pos # None => ~Before(Latest(C), pos))
  <2> DEFINE L == Latest(C)
             F == Fold(S, R)
  <2>1. L \in R /\ L \in A /\ L.seg = c /\ L \in RootsOf(cells, n) /\ (pos # None => ~Before(L, pos))
    BY <1>1, <1>3, <1>6, <1>7, <1>10
  <2>2. F = { p \in R : ~Before(p, L) }
    BY <1>8, <1>10
  <2> HIDE DEF L, F
  <2>3. L \in F /\ F \subseteq A /\ \A p \in F : ~Before(p, L) /\ p.seg = c
    BY <1>3, <1>9, <2>1, <2>2
  <2>4. \A s \in todo \ {c} : c < s
    BY <1>2
  <2>5. ASSUME NEW p \in A, ~Before(p, L), p.seg <= last
        PROVE  p.seg \in todo \ {c} \/ p \in F
    <3>1. p.seg \in todo
      BY <1>10, <2>5 DEF L
    <3>2. p.seg = c => p \in R
      BY <1>6, <2>1, <2>5 DEF A
    <3> QED BY <2>2, <2>5, <3>1, <3>2
  <2>6. Applied(cells, F, todo \ {c}, last, n, L)
    BY <1>2, <2>3, <2>4, <2>5 DEF Applied, A
  <2> QED BY <1>2, <2>1, <2>6 DEF L, F
<1>11. CASE Pending(cells, todo, last, n, q) /\ q.seg # c
  <2>1. \A p \in A : ~Before(p, q) => p.seg # c
    BY <1>1, <1>2, <1>4, <1>11 DEF Pending
  <2>2. Pending(cells, todo \ {c}, last, n, q)
    BY <1>11, <2>1 DEF Pending, A
  <2> QED BY <1>1, <1>9, <1>11, <2>2
<1>12. CASE Pending(cells, todo, last, n, q) /\ q.seg = c
  <2>1. q \in C
    BY <1>1, <1>12 DEF C, A
  <2>2. C # {} /\ Latest(C) \in A /\ ~Before(Latest(C), q)
    BY <1>1, <1>3, <1>7, <2>1
  <2>3. \A p \in A : ~Before(p, Latest(C)) /\ p.seg <= last => p.seg \in todo
    BY <1>1, <1>5, <1>12, <2>2 DEF Pending, A
  <2> QED BY <1>10, <2>2, <2>3
<1>13. CASE Applied(cells, S, todo, last, n, q)
  <2>a. /\ q \in S /\ S \subseteq A
        /\ \A p \in S : ~Before(p, q) /\ p.seg <= last /\ p.seg < c
        /\ \A p \in S : \A s \in todo : p.seg < s
        /\ \A p \in A : ~Before(p, q) /\ p.seg <= last => p.seg \in todo \/ p \in S
    BY <1>13 DEF Applied, A
  <2>1. CASE C = {}
    <3> DEFINE F == Fold(S, R)
    <3>1. F = S \cup R
      BY <1>8, <2>1
    <3> HIDE DEF F
    <3>2. q \in F /\ F \subseteq A
      BY <1>3, <2>a, <3>1
    <3>3. \A p \in R : ~Before(p, q) /\ p.seg <= last
      BY <1>1, <1>2, <1>3, <1>4, <2>a
    <3>4. \A p \in F : \A s \in todo \ {c} : p.seg < s
      BY <1>2, <1>3, <2>a, <3>1
    <3>5. ASSUME NEW p \in A, ~Before(p, q), p.seg <= last
          PROVE  p.seg \in todo \ {c} \/ p \in F
      <4>1. p.seg = c => p \in R
        BY <1>1, <1>6, <3>5 DEF A
      <4> QED BY <2>a, <3>1, <3>5, <4>1
    <3>6. Applied(cells, F, todo \ {c}, last, n, q)
      BY <2>a, <3>1, <3>2, <3>3, <3>4, <3>5 DEF Applied, A
    <3> QED BY <1>1, <1>9, <3>6 DEF F
  <2>2. CASE C # {}
    <3>1. Latest(C) \in A /\ Latest(C).seg = c
      BY <1>1, <1>3, <1>7, <2>2
    <3>2. ~Before(Latest(C), q)
      BY <1>1, <1>4, <2>a, <3>1
    <3>3. ASSUME NEW p \in A, ~Before(p, Latest(C)), p.seg <= last
          PROVE  p.seg \in todo
      <4>1. ~Before(p, q) /\ c <= p.seg
        BY <1>1, <1>4, <1>5, <3>1, <3>2, <3>3
      <4>2. p \notin S
        BY <1>1, <1>2, <2>a, <4>1
      <4> QED BY <2>a, <3>3, <4>1, <4>2
    <3> QED BY <1>10, <2>2, <3>2, <3>3
  <2> QED BY <2>1, <2>2
<1> QED BY <1>11, <1>12, <1>13

\* GapFree, of a state S and a floor f.
Gapless(cs, S, f, n) ==
  /\ S # {}
  /\ CellAt(cs, Earliest(S)).checkpoint
  /\ ~Before(Latest(S), f)
  /\ S = { p \in AllOf(cs, n) : ~Before(p, Earliest(S)) /\ ~Before(Latest(S), p) }

LEMMA GapFreeIsGapless ==
  ASSUME NEW n
  PROVE  GapFree(n) <=> Gapless(cells, reader.state[n], reader.floor[n], n)
BY DEF GapFree, Gapless, AllOf

\* A replay that has come to its end from the checkpoint q leaves no gap.
LEMMA AppliedIsGapless ==
  ASSUME TypeOK, NEW n, NEW S, NEW last \in SegIds, NEW q \in RootsOf(cells, n),
         Applied(cells, S, {}, last, n, q),
         NEW f \in AllOf(cells, n), f.seg <= last
  PROVE  Gapless(cells, S, f, n)
<1>c. cells \in [SegIds -> Seq(Cell)] /\ last \in Nat
  BY SegmentIdAssumption DEF TypeOK, SegIds
<1>1. /\ AllOf(cells, n) \subseteq Position
      /\ \A p \in AllOf(cells, n) : p.seg \in Nat /\ p.off \in Nat
      /\ CellAt(cells, q).checkpoint
  BY <1>c, RecordFacts
<1>2. /\ q \in S /\ S \in SUBSET AllOf(cells, n) /\ S \in SUBSET Position /\ S # {} /\ f \in Position /\ q \in Position
      /\ \A p \in S : ~Before(p, q) /\ p.seg <= last
      /\ \A p \in AllOf(cells, n) : ~Before(p, q) /\ p.seg <= last => p \in S
  BY <1>1 DEF Applied
<1>3. Earliest(S) \in S /\ \A p \in S : ~Before(p, Earliest(S))
  BY <1>2, EarliestExists
<1>4. Earliest(S) = q
  BY <1>2, <1>3, BeforeIsOrder
<1>5. Latest(S) \in S /\ \A p \in S : ~Before(Latest(S), p)
  BY <1>2, LatestOfRecords
<1>6. ~Before(Latest(S), f)
  <2>1. CASE Before(f, q)
    BY <1>2, <1>5, <2>1, BeforeIsOrder
  <2>2. CASE ~Before(f, q)
    BY <1>2, <1>5, <2>2
  <2> QED BY <2>1, <2>2
<1>7. ASSUME NEW p \in AllOf(cells, n), ~Before(p, q), ~Before(Latest(S), p)
      PROVE  p \in S
  <2>1. p.seg <= Latest(S).seg /\ Latest(S).seg <= last
    BY <1>1, <1>2, <1>5, <1>7 DEF Before
  <2>2. p.seg <= last
    BY <1>1, <1>2, <1>5, <1>c, <2>1
  <2> QED BY <1>2, <1>7, <2>2
<1>8. S = { p \in AllOf(cells, n) : ~Before(p, q) /\ ~Before(Latest(S), p) }
  BY <1>2, <1>5, <1>7
<1> QED BY <1>1, <1>2, <1>4, <1>6, <1>8 DEF Gapless

\* What the writer adds comes later than a state read.
LEMMA GaplessStays ==
  ASSUME IInv, TypeOK', Grows, NEW n, NEW S, NEW f, Gapless(cells, S, f, n)
  PROVE  Gapless(cells', S, f, n)
<1>i. TypeOK
  BY DEF IInv
<1>1. S \in SUBSET AllOf(cells, n) /\ S # {}
  BY DEF Gapless
<1>2. S \in SUBSET Position
  BY <1>1, <1>i, RecordFacts DEF TypeOK
<1>3. Earliest(S) \in AllOf(cells, n) /\ Latest(S) \in AllOf(cells, n)
  BY <1>1, <1>2, <1>i, EarliestExists, LatestOfRecords
<1>4. /\ AllOf(cells, n) \subseteq AllOf(cells', n)
      /\ CellAt(cells', Earliest(S)) = CellAt(cells, Earliest(S))
      /\ \A p \in AllOf(cells', n) \ AllOf(cells, n) : Before(Latest(S), p)
  BY <1>3, RecordsGrow
<1>5. S = { p \in AllOf(cells', n) : ~Before(p, Earliest(S)) /\ ~Before(Latest(S), p) }
  BY <1>4 DEF Gapless
<1> QED BY <1>4, <1>5 DEF Gapless

-------------------------------------------------------------------------------
(***************************************************************************)
(* Each step of a reader or of the writer preserves the invariant.         *)
(***************************************************************************)

\* A read that is over, or has not begun.
LEMMA NoReaderInv ==
  ASSUME reader' = NoReader
  PROVE  ReaderInv'
<1>1. /\ reader' \in ReaderRecord
      /\ reader'.pc = "none" /\ reader'.todo = {} /\ reader'.file_len = None
      /\ \A n \in Nodes : reader'.hints[n] = None /\ reader'.positions[n] = None /\ reader'.state[n] = {}
  BY NoReaderFields DEF NoIndex
<1>2. ReaderTypeOK' /\ TargetInv' /\ StateInv' /\ ReplayInv' /\ ReadIsConsistent'
  BY <1>1 DEF ReaderTypeOK, TargetInv, StateInv, ReplayInv, ReadIsConsistent
<1>3. ListInv' /\ HintInv'
  BY <1>1 DEF ListInv, HintInv, Listing, Looping
<1> QED BY <1>2, <1>3 DEF ReaderInv

LEMMA FailInv ==
  ASSUME ReaderInv, Fails, UNCHANGED vars, reader.pc # "none"
  PROVE  ReaderInv'
<1> USE DEF vars, content, segments, metadata
<1>1. /\ ReaderTypeOK' /\ SameCall /\ SameHints /\ SameLoop /\ SameResult
      /\ reader'.pc = "error" /\ reader'.file_len = None /\ cells' = cells /\ nodes_json' = nodes_json
  BY FailFields DEF ReaderInv
<1>2. TargetInv'
  BY <1>1 DEF ReaderInv, TargetInv, SameCall
<1>3. HintInv' /\ ListInv'
  BY <1>1 DEF ReaderInv, HintInv, ListInv, SameHints, SameResult, Listing, Looping
<1>4. StateInv' /\ ReplayInv' /\ ReadIsConsistent'
  BY <1>1 DEF StateInv, ReplayInv, ReadIsConsistent
<1> QED BY <1>1, <1>2, <1>3, <1>4 DEF ReaderInv

LEMMA ReadRegistryInv ==
  ASSUME IInv, RootedInv, ReadRegistry
  PROVE  ReaderInv'
<1> USE DEF vars, content, segments, metadata
<1>i. TypeOK
  BY DEF IInv
<1>1. /\ ReaderTypeOK'
      /\ reader'.pc = "index" /\ reader'.todo = {} /\ reader'.file_len = None
      /\ reader'.targets # {} /\ reader'.targets \subseteq ActiveNodes(nodes_json)
      /\ ~reader'.all => \E n \in Nodes : reader'.targets = {n}
      /\ reader'.hints = NoIndex /\ reader'.positions = NoIndex
      /\ \A n \in Nodes : reader'.state[n] = {} /\ reader'.floor[n] = Latest(AllOf(cells, n))
  BY <1>i, RegistryFields
<1>2. cells' = cells /\ nodes_json' = nodes_json
  BY DEF ReadRegistry
<1>3. \A n \in ActiveNodes(nodes_json) : Latest(AllOf(cells, n)) \in AllOf(cells, n)
  <2> SUFFICES ASSUME NEW n \in ActiveNodes(nodes_json)
               PROVE  Latest(AllOf(cells, n)) \in AllOf(cells, n)
    OBVIOUS
  <2>1. AllOf(cells, n) # {}
    BY NewestIsKept DEF RootsOf, CheckpointsOf, AllOf
  <2> QED BY <1>i, <2>1, LatestRecord
<1>4. TargetInv'
  BY <1>1, <1>2, <1>3 DEF TargetInv, ActiveNodes
<1>5. ListInv' /\ HintInv'
  BY <1>1 DEF ListInv, HintInv, Listing, Looping, NoIndex
<1>6. StateInv' /\ ReplayInv' /\ ReadIsConsistent'
  BY <1>1 DEF StateInv, ReplayInv, ReadIsConsistent
<1> QED BY <1>1, <1>4, <1>5, <1>6 DEF ReaderInv

\* The hints are read and validated, or the scan begins with them.
LEMMA OpeningInv ==
  ASSUME TypeOK, ReaderInv, ReaderTypeOK', UNCHANGED vars, SameCall, reader.pc \in {"index", "validate"},
         reader'.todo = reader.todo, reader'.file_len = reader.file_len, reader'.state = reader.state,
         \A n \in Nodes \ reader'.indexed : reader'.hints[n] # None => reader'.hints[n] \in RootsOf(cells, n),
         \A n \in reader'.indexed : reader'.hints[n] # None,
         \/ reader'.indexed # {} /\ reader'.pc = "validate" /\ reader'.positions = reader.positions
         \/ /\ reader'.indexed = {} /\ reader'.pc = "scan_list" /\ reader'.unseen = SegIds
            /\ reader'.positions = IF reader'.all /\ StartPosition(reader') # None THEN reader'.hints ELSE NoIndex
  PROVE  ReaderInv'
<1> USE DEF vars, content, segments, metadata
<1>1. cells' = cells /\ nodes_json' = nodes_json /\ dir' = dir /\ dir \subseteq SegIds
  BY DEF TypeOK
<1>2. TargetInv'
  BY <1>1 DEF ReaderInv, TargetInv, SameCall
<1>3. ListInv'
  BY <1>1 DEF ReaderInv, ListInv, Listing, Looping
<1>4. StateInv' /\ ReplayInv' /\ ReadIsConsistent'
  BY DEF ReaderInv, StateInv, ReplayInv, ReadIsConsistent
<1>5. CASE reader'.indexed # {} /\ reader'.pc = "validate" /\ reader'.positions = reader.positions
  <2>1. HintInv'
    BY <1>1, <1>5 DEF ReaderInv, HintInv, Listing, Looping
  <2> QED BY <1>2, <1>3, <1>4, <2>1 DEF ReaderInv
<1>6. CASE /\ reader'.indexed = {} /\ reader'.pc = "scan_list"
           /\ reader'.positions = IF reader'.all /\ StartPosition(reader') # None THEN reader'.hints ELSE NoIndex
  <2>1. \A n \in Nodes : reader'.positions[n] # None => reader'.positions[n] \in RootsOf(cells', n)
    BY <1>1, <1>6 DEF NoIndex
  <2>2. reader' \in ReaderRecord /\ reader'.targets # {} /\ reader'.hints \in CheckpointIndex
    BY DEF ReaderTypeOK, ReaderRecord, ReaderInv, TargetInv, SameCall
  <2>3. StartPosition(reader') # None =>
          \A n \in reader'.targets : reader'.hints[n] # None /\ ~Before(reader'.hints[n], StartPosition(reader'))
    BY <2>2, OldestFacts, NoneAssumption DEF StartPosition
  <2>4. HintInv'
    BY <1>1, <1>6, <2>1, <2>3 DEF HintInv
  <2> QED BY <1>2, <1>3, <1>4, <2>4 DEF ReaderInv
<1> QED BY <1>5, <1>6

LEMMA ReadIndexInv ==
  ASSUME TypeOK, ReaderInv, ReadIndex
  PROVE  ReaderInv'
<1>1. ReaderTypeOK /\ UNCHANGED vars /\ reader.pc = "index"
  BY DEF ReaderInv, ReadIndex
<1>2. /\ ReaderTypeOK' /\ SameCall
      /\ reader'.todo = reader.todo /\ reader'.file_len = reader.file_len /\ reader'.state = reader.state
      /\ reader'.indexed = { n \in Nodes : reader'.hints[n] # None }
      /\ \/ reader'.indexed # {} /\ reader'.pc = "validate" /\ reader'.positions = reader.positions
         \/ /\ reader'.indexed = {} /\ reader'.pc = "scan_list" /\ reader'.unseen = SegIds
            /\ reader'.positions = IF reader'.all /\ StartPosition(reader') # None THEN reader'.hints ELSE NoIndex
  BY <1>1, IndexFields
<1>3. /\ \A n \in Nodes \ reader'.indexed : reader'.hints[n] # None => reader'.hints[n] \in RootsOf(cells, n)
      /\ \A n \in reader'.indexed : reader'.hints[n] # None
  BY <1>2
<1> QED BY <1>1, <1>2, <1>3, OpeningInv

LEMMA ValidateInv ==
  ASSUME TypeOK, ReaderInv, Validate
  PROVE  ReaderInv'
<1>1. ReaderTypeOK /\ UNCHANGED vars /\ reader.pc = "validate"
  BY DEF ReaderInv, Validate
<1>2. PICK n \in reader.indexed :
        \/ Fails
        \/ /\ validate_checkpoint_position(cells, dir, n, reader.hints[n])
           /\ ReaderTypeOK' /\ SameCall /\ reader'.hints = reader.hints
           /\ reader'.todo = reader.todo /\ reader'.file_len = reader.file_len /\ reader'.state = reader.state
           /\ reader'.indexed = reader.indexed \ {n}
           /\ \/ reader'.indexed # {} /\ reader'.pc = "validate" /\ reader'.positions = reader.positions
              \/ /\ reader'.indexed = {} /\ reader'.pc = "scan_list" /\ reader'.unseen = SegIds
                 /\ reader'.positions = IF reader'.all /\ StartPosition(reader') # None THEN reader'.hints ELSE NoIndex
  BY <1>1, ValidateFields
<1>3. CASE Fails
  BY <1>1, <1>3, FailInv
<1>4. CASE ~Fails
  <2>1. reader.hints[n] \in Position /\ n \in Nodes
    BY <1>1 DEF ReaderInv, HintInv, ReaderTypeOK, ReaderRecord, CheckpointIndex
  <2>2. reader.hints[n] \in RootsOf(cells, n)
    BY <1>2, <1>4, <2>1, ValidIsRoot
  <2>3. \A m \in Nodes \ reader'.indexed : reader'.hints[m] # None => reader'.hints[m] \in RootsOf(cells, m)
    BY <1>2, <1>4, <2>2 DEF ReaderInv, HintInv
  <2>4. \A m \in reader'.indexed : reader'.hints[m] # None
    BY <1>1, <1>2, <1>4 DEF ReaderInv, HintInv
  <2> QED BY <1>1, <1>2, <1>4, <2>3, <2>4, OpeningInv
<1> QED BY <1>3, <1>4

\* In a listing that saw one state of the directory, no record of a target
\* from its newest checkpoint on is before the first segment to read.
LEMMA FirstSegmentBound ==
  ASSUME TypeOK, ReaderInv, reader.pc \in Listing, NEW n \in reader.targets, NEW q \in Position,
         reader.pc = "scan_list" /\ StartPosition(reader) # None => ~Before(q, StartPosition(reader)),
         reader.pc = "replay_list" /\ reader.positions[n] # None => ~Before(q, reader.positions[n])
  PROVE  FirstSegment <= q.seg
<1>t. q.seg \in Nat /\ q.off \in Nat /\ n \in Nodes
  BY PositionFacts DEF ReaderInv, ReaderTypeOK, ReaderRecord
<1>r. reader \in ReaderRecord /\ reader.targets # {} /\ reader.hints \in CheckpointIndex /\ reader.positions \in CheckpointIndex
  BY DEF ReaderInv, TargetInv, ReaderTypeOK, ReaderRecord, Listing
<1>0. ASSUME NEW p \in Position \cup {None}, p # None => ~Before(q, p)
      PROVE  (IF p = None THEN 0 ELSE p.seg) <= q.seg
  <2>1. CASE p = None
    BY <1>t, <2>1
  <2>2. CASE p # None
    <3>1. p.seg \in Nat /\ p.off \in Nat /\ ~Before(q, p)
      BY <1>0, <2>2, PositionFacts
    <3> QED BY <1>t, <2>2, <3>1 DEF Before
  <2> QED BY <2>1, <2>2
<1>1. CASE reader.pc = "replay_list" /\ ~reader.all
  <2> DEFINE o == Oldest(reader, reader.positions)
  <2>1. FirstSegment = IF o = None THEN 0 ELSE o.seg
    BY <1>1 DEF FirstSegment
  <2>2. /\ o \in Position \cup {None}
        /\ o # None => reader.positions[n] \in Position /\ ~Before(reader.positions[n], o)
    BY <1>r, OldestFacts
  <2> HIDE DEF o
  <2>3. o # None => ~Before(q, o)
    BY <1>1, <2>2, NoneAssumption, NotBeforeTransitive
  <2> QED BY <1>0, <2>1, <2>2, <2>3
<1>2. CASE ~(reader.pc = "replay_list" /\ ~reader.all)
  <2> DEFINE o == StartPosition(reader)
  <2>1. FirstSegment = IF o = None THEN 0 ELSE o.seg
    BY <1>2 DEF FirstSegment
  <2>2. o \in Position \cup {None}
    BY <1>r, OldestFacts DEF StartPosition
  <2>3. o # None => ~Before(q, o)
    <3>1. CASE reader.pc = "scan_list"
      BY <3>1
    <3>2. CASE reader.pc = "replay_list"
      <4> SUFFICES ASSUME o # None
                   PROVE  ~Before(q, o)
        OBVIOUS
      <4>1. reader.positions[n] # None /\ ~Before(reader.positions[n], o)
        BY <1>2, <3>2 DEF ReaderInv, HintInv, Listing
      <4>2. reader.positions[n] \in Position /\ ~Before(q, reader.positions[n])
        BY <1>r, <1>t, <3>2, <4>1 DEF CheckpointIndex
      <4> QED BY <2>2, <4>1, <4>2, NotBeforeTransitive
    <3> QED BY <3>1, <3>2 DEF Listing
  <2> HIDE DEF o
  <2> QED BY <1>0, <2>1, <2>2, <2>3
<1> QED BY <1>1, <1>2

\* A node that is active is listed as it has to be for the replay.
LEMMA ListedIsOnCourse ==
  ASSUME IInv, RootedInv, ReaderInv, reader.pc = "replay_list",
         NEW n \in reader.targets \cap ActiveNodes(nodes_json),
         NEW todo, todo = { s \in dir : FirstSegment <= s },
         NEW last \in SegIds, \A s \in dir : s <= last
  PROVE  /\ reader.floor[n].seg <= last
         /\ todo # {}
         /\ \E q \in RootsOf(cells, n) :
              /\ q.seg <= last
              /\ reader.positions[n] # None => ~Before(q, reader.positions[n])
              /\ Pending(cells, todo, last, n, q)
<1>i. TypeOK
  BY DEF IInv
<1>c. cells \in [SegIds -> Seq(Cell)] /\ dir \subseteq SegIds /\ SegIds \subseteq Nat /\ n \in Nodes
  BY <1>i, SegmentIdAssumption DEF TypeOK, SegIds, ActiveNodes
<1>1. PICK q \in RootsOf(cells, n) :
        /\ q.seg \in dir
        /\ \A r \in RootsOf(cells, n) : ~Before(q, r)
        /\ Kept(cells, dir, n, q)
  BY NewestIsKept
<1>2. AllOf(cells, n) \subseteq Position /\ RootsOf(cells, n) \subseteq AllOf(cells, n)
  BY <1>c, RecordFacts
<1>3. reader.positions[n] # None => ~Before(q, reader.positions[n])
  BY <1>1, <1>c DEF ReaderInv, HintInv
<1>4. ASSUME NEW p \in AllOf(cells, n), ~Before(p, q)
      PROVE  p.seg \in todo
  <2>1. p \in Position /\ q \in Position /\ p.seg \in dir
    BY <1>1, <1>2, <1>4 DEF Kept
  <2>2. reader.positions[n] # None => reader.positions[n] \in Position
    BY <1>2, <1>c DEF ReaderInv, HintInv
  <2>3. reader.positions[n] # None => ~Before(p, reader.positions[n])
    BY <1>3, <1>4, <2>1, <2>2, NotBeforeTransitive
  <2>4. FirstSegment <= p.seg
    BY <1>i, <2>1, <2>3, FirstSegmentBound DEF Listing
  <2> QED BY <2>1, <2>4
<1>5. ~Before(q, q)
  BY <1>1, <1>2, BeforeIsOrder
<1>6. q.seg \in todo /\ Pending(cells, todo, last, n, q)
  BY <1>1, <1>2, <1>4, <1>5 DEF Pending
<1>7. reader.floor[n].seg <= last
  <2>1. reader.floor[n] \in AllOf(cells, n)
    BY DEF ReaderInv, TargetInv
  <2>2. reader.floor[n].seg \in Nat
    BY <1>c, <2>1, RecordFacts
  <2>3. CASE reader.floor[n].seg \notin dir
    <3>1. PICK r \in CheckpointsOf(cells, dir, n) : Before(reader.floor[n], r)
      BY <2>1, <2>3, LostIsSuperseded DEF AllOf
    <3>2. r.seg \in dir
      <4>1. CheckpointsOf(cells, dir, n) = { x \in CheckpointsOf(cells, SegIds, n) : x.seg \in dir }
        BY <1>i, RecordTypes DEF TypeOK
      <4> QED BY <4>1
    <3>3. r.seg <= last /\ r.seg \in Nat /\ last \in Nat
      BY <1>c, <3>2
    <3>4. reader.floor[n].seg < r.seg \/ reader.floor[n].seg = r.seg
      BY <3>1 DEF Before
    <3> QED BY <2>2, <3>3, <3>4
  <2> QED BY <2>3
<1> QED BY <1>1, <1>3, <1>6, <1>7

LEMMA ListStepInv ==
  ASSUME IInv, RootedInv, ReaderInv, List
  PROVE  ReaderInv'
<1> USE DEF vars, content, segments, metadata
<1>i. TypeOK /\ ReaderTypeOK
  BY DEF IInv, ReaderInv
<1>u. /\ cells' = cells /\ dir' = dir /\ nodes_json' = nodes_json
      /\ reader.pc \in Listing /\ dir \subseteq SegIds /\ SegIds \subseteq Nat
      /\ reader.todo \subseteq SegIds /\ reader.unseen \subseteq SegIds
  BY <1>i, SegmentIdAssumption DEF List, TypeOK, ReaderTypeOK, ReaderRecord, SegIds
<1>1. ReaderTypeOK' /\ SameCall /\ SameHints /\ SameResult /\ reader'.file_len = reader.file_len
  BY <1>i, ListEffect
<1>2. PICK names \in SUBSET reader.unseen : ListFields(names)
  BY <1>i, ListEffect
<1> DEFINE listing == reader.todo \cup (names \cap dir)
           rest == { s \in listing : FirstSegment <= s }
           last == replay_active_segment(listing)
<1>f. reader.file_len = None /\ reader.indexed = {} /\ \A n \in Nodes : reader.state[n] = {}
  BY <1>u DEF ReaderInv, ListInv, HintInv, StateInv, Listing, Looping
<1>3. TargetInv'
  BY <1>1, <1>u DEF ReaderInv, TargetInv, SameCall, Listing
<1>4. HintInv'
  <2>1. StartPosition(reader') = StartPosition(reader)
    BY <1>1, SameStart
  <2> QED BY <1>1, <1>2, <1>u, <1>f, <2>1 DEF ReaderInv, HintInv, SameHints, SameResult, SameCall, ListFields, Listing, Looping
<1>5. listing \subseteq SegIds /\ ("mixed" \notin reader.seen => listing = dir \ (reader.unseen \ names))
  BY <1>u DEF ReaderInv, ListInv
<1>6. CASE reader.unseen \ names # {}
  <2>1. reader'.pc = reader.pc /\ reader'.unseen = reader.unseen \ names /\ reader'.todo = listing
    BY <1>2, <1>6 DEF ListFields
  <2>2. ListInv'
    BY <1>1, <1>u, <1>f, <1>5, <2>1 DEF ListInv, SameCall, Listing, Looping
  <2>3. StateInv' /\ ReplayInv' /\ ReadIsConsistent'
    BY <1>1, <1>u, <1>f, <2>1 DEF StateInv, ReplayInv, ReadIsConsistent, SameResult, Listing
  <2> QED BY <1>1, <1>3, <1>4, <2>2, <2>3 DEF ReaderInv
<1>7. CASE reader.unseen \ names = {}
  <2>1. /\ reader'.last = last /\ reader'.todo = rest
        /\ rest # {} => reader'.pc = IF reader.pc = "scan_list" THEN "scan" ELSE "replay"
        /\ rest = {} /\ reader.pc = "scan_list" => reader'.pc = "replay_list" /\ reader'.unseen = SegIds
        /\ rest = {} /\ reader.pc = "replay_list" => reader'.pc = "ok"
    BY <1>2, <1>7 DEF ListFields
  <2>2. listing # {} => last \in listing /\ \A t \in listing : t <= last
    BY <1>5, ActiveIsGreatest
  <2>3. rest # {} => last \in rest
    <3> SUFFICES ASSUME NEW s \in rest
                 PROVE  last \in rest
      OBVIOUS
    <3>1. s \in listing /\ FirstSegment <= s
      OBVIOUS
    <3>2. last \in listing /\ s <= last /\ s \in Nat /\ last \in Nat
      BY <1>5, <1>u, <2>2, <3>1
    <3>3. FirstSegment \in Nat
      <4>1. reader \in ReaderRecord /\ reader.targets # {} /\ reader.hints \in CheckpointIndex /\ reader.positions \in CheckpointIndex
        BY <1>u DEF ReaderInv, TargetInv, ReaderTypeOK, ReaderRecord, Listing
      <4>2. Oldest(reader, reader.hints) \in Position \cup {None} /\ Oldest(reader, reader.positions) \in Position \cup {None}
        BY <4>1, OldestFacts
      <4> QED BY <4>2, PositionFacts DEF FirstSegment, StartPosition
    <3> HIDE DEF last, listing
    <3>4. FirstSegment <= last
      BY <3>1, <3>2, <3>3
    <3> QED BY <3>2, <3>4
  <2>4. rest \subseteq listing
    OBVIOUS
  <2> HIDE DEF listing, rest, last
  <2>5. ListInv'
    <3>1. "mixed" \notin reader.seen /\ rest # {} => last \in dir
      BY <1>5, <1>7, <2>3, <2>4
    <3>2. rest # {} => \A s \in rest : s <= last
      BY <2>2, <2>4
    <3>3. rest # {} => last \in Nat
      BY <1>5, <1>u, <2>3, <2>4
    <3>4. CASE rest # {}
      BY <1>1, <1>u, <1>f, <2>1, <2>3, <3>1, <3>2, <3>3, <3>4 DEF ListInv, SameCall, Listing, Looping
    <3>5. CASE rest = {}
      BY <1>1, <1>u, <1>f, <2>1, <3>5 DEF ListInv, SameCall, Listing, Looping
    <3> QED BY <3>4, <3>5
  <2>6. StateInv'
    BY <1>1, <1>u, <1>f DEF StateInv, SameResult
  <2>7. ASSUME reader.pc = "replay_list", "mixed" \notin reader.seen,
               NEW n \in reader.targets \cap ActiveNodes(nodes_json)
        PROVE  rest # {} /\ OnCourse(n)'
    <3>1. listing = dir /\ dir # {}
      <4>1. PICK q \in RootsOf(cells, n) : q.seg \in dir
        BY NewestIsKept
      <4> QED BY <1>5, <1>7, <2>7, <4>1
    <3>2. last \in SegIds /\ \A s \in dir : s <= last
      BY <1>5, <2>2, <3>1
    <3>3. rest = { s \in dir : FirstSegment <= s }
      BY <3>1 DEF rest
    <3>4. /\ reader.floor[n].seg <= last
          /\ rest # {}
          /\ \E q \in RootsOf(cells, n) :
               /\ q.seg <= last
               /\ reader.positions[n] # None => ~Before(q, reader.positions[n])
               /\ Pending(cells, rest, last, n, q)
      BY <2>7, <3>2, <3>3, ListedIsOnCourse
    <3> QED BY <1>1, <1>u, <2>1, <3>4 DEF OnCourse, SameCall, SameResult
  <2>8. ReplayInv'
    BY <1>1, <1>u, <2>1, <2>7 DEF ReplayInv, SameCall, Listing
  <2>9. ReadIsConsistent'
    BY <1>1, <1>u, <2>1, <2>7 DEF ReadIsConsistent, SameCall, Listing
  <2> QED BY <1>1, <1>3, <1>4, <2>5, <2>6, <2>8, <2>9 DEF ReaderInv
<1> QED BY <1>6, <1>7

\* Going on to the next segment, what is known of the targets, of the list
\* and of the checkpoints stays.
LEMMA LeaveInv ==
  ASSUME TypeOK, ReaderInv, UNCHANGED vars, reader.pc \in Looping, reader.todo # {},
         NEW P, NEW S, Leaves(P, S),
         \A n \in Nodes : P[n] # None => P[n] \in RootsOf(cells, n),
         reader.all /\ StartPosition(reader) # None =>
           \A n \in reader.targets : P[n] # None /\ ~Before(P[n], StartPosition(reader))
  PROVE  TargetInv' /\ ListInv' /\ HintInv'
<1> USE DEF vars, content, segments, metadata
<1>l. SameCall /\ SameHints /\ Continues /\ reader'.positions = P
  BY DEF Leaves
<1>i. ReaderTypeOK /\ TargetInv /\ ListInv /\ HintInv
  BY DEF ReaderInv
<1>u. /\ cells' = cells /\ dir' = dir /\ nodes_json' = nodes_json
      /\ dir \subseteq SegIds /\ reader.todo \subseteq SegIds /\ SegIds \subseteq Nat
      /\ reader.last \in Nat
  BY <1>i, SegmentIdAssumption DEF TypeOK, ReaderTypeOK, ReaderRecord, SegIds
<1>c. /\ Current \in reader.todo /\ Current \in Nat
      /\ \A t \in reader.todo : Current <= t
  BY <1>i, CurrentIsLeast
<1>1. TargetInv'
  BY <1>l, <1>i, <1>u DEF TargetInv, SameCall, Looping
<1>2. ListInv'
  <2>1. /\ reader.last \in reader.todo
        /\ \A s \in reader.todo : s <= reader.last
        /\ "mixed" \notin reader.seen => \E t \in dir : reader.last <= t
    BY <1>i DEF ListInv
  <2>2. /\ reader'.todo = reader.todo \ {Current} /\ reader'.last = reader.last
        /\ reader'.file_len = None /\ reader'.seen = reader.seen
    BY <1>l DEF Leaves, SameCall
  <2>3. CASE reader'.todo # {}
    <3>1. PICK t \in reader.todo : t # Current
      BY <2>2, <2>3
    <3>2. Current # reader.last
      <4>1. t \in Nat /\ Current <= t /\ t <= reader.last
        BY <1>c, <1>u, <2>1
      <4> QED BY <1>c, <1>u, <3>1, <4>1
    <3>3. reader'.pc = reader.pc
      BY <1>l, <2>3 DEF Continues
    <3> QED BY <1>u, <2>1, <2>2, <3>2, <3>3 DEF ListInv, Listing, Looping
  <2>4. CASE reader'.todo = {}
    <3>1. reader'.pc \in {"replay_list", "ok"} /\ (reader'.pc = "replay_list" => reader'.unseen = SegIds)
      BY <1>l, <2>4 DEF Continues
    <3> QED BY <1>u, <2>2, <2>4, <3>1 DEF ListInv, Listing, Looping
  <2> QED BY <2>3, <2>4
<1>3. HintInv'
  <2>1. StartPosition(reader') = StartPosition(reader)
    BY <1>l, SameStart
  <2>2. reader.indexed = {} /\ \A n \in Nodes : reader.hints[n] # None => reader.hints[n] \in RootsOf(cells, n)
    BY <1>i DEF HintInv, Looping
  <2> QED BY <1>l, <1>u, <2>1, <2>2 DEF HintInv, SameHints, SameCall
<1> QED BY <1>1, <1>2, <1>3

\* Going on to the next segment of the replay, or to its end.
LEMMA ReplayOnInv ==
  ASSUME TypeOK, ReaderInv, UNCHANGED vars, reader.pc = "replay", reader.todo # {},
         NEW S, Leaves(reader.positions, S),
         \A n \in reader.targets :
           S[n] = Fold(reader.state[n],
                       { p \in AllOf(cells, n) :
                           p.seg = Current /\ (reader.positions[n] # None => ~Before(p, reader.positions[n])) })
  PROVE  ReplayInv' /\ ReadIsConsistent'
<1> USE DEF vars, content, segments, metadata
<1>l. /\ SameCall /\ Continues /\ reader'.positions = reader.positions /\ reader'.state = S
      /\ reader'.todo = reader.todo \ {Current} /\ reader'.last = reader.last
  BY DEF Leaves
<1>i. ReaderTypeOK /\ TargetInv /\ ListInv /\ ReplayInv
  BY DEF ReaderInv
<1>u. /\ cells' = cells /\ nodes_json' = nodes_json
      /\ reader.todo \in SUBSET SegIds /\ reader.last \in SegIds /\ reader.positions \in CheckpointIndex
  BY <1>i DEF ReaderTypeOK, ReaderRecord
<1>c. /\ Current \in reader.todo
      /\ \A t \in reader.todo : Current <= t /\ t <= reader.last
  BY <1>i, CurrentIsLeast DEF ListInv, Looping
<1>1. ASSUME "mixed" \notin reader.seen, NEW n \in reader.targets \cap ActiveNodes(nodes_json)
      PROVE  /\ reader.floor[n].seg <= reader.last /\ reader.floor[n] \in AllOf(cells, n)
             /\ \E r \in RootsOf(cells, n) :
                  /\ r.seg <= reader.last
                  /\ reader.positions[n] # None => ~Before(r, reader.positions[n])
                  /\ \/ Pending(cells, reader.todo \ {Current}, reader.last, n, r)
                     \/ Applied(cells, S[n], reader.todo \ {Current}, reader.last, n, r)
  <2> DEFINE R == { p \in AllOf(cells, n) :
                      p.seg = Current /\ (reader.positions[n] # None => ~Before(p, reader.positions[n])) }
  <2>1. n \in Nodes /\ reader.positions[n] \in Position \cup {None}
    BY <1>u DEF ActiveNodes, CheckpointIndex
  <2>2. OnCourse(n)
    BY <1>1, <1>i DEF ReplayInv
  <2>3. PICK q \in RootsOf(cells, n) :
          /\ q.seg <= reader.last
          /\ reader.positions[n] # None => ~Before(q, reader.positions[n])
          /\ \/ Pending(cells, reader.todo, reader.last, n, q)
             \/ Applied(cells, reader.state[n], reader.todo, reader.last, n, q)
    BY <2>2 DEF OnCourse
  <2>4. S[n] = Fold(reader.state[n], R)
    OBVIOUS
  <2>5. R = { p \in AllOf(cells, n) :
                p.seg = Current /\ (reader.positions[n] # None => ~Before(p, reader.positions[n])) }
    OBVIOUS
  <2> HIDE DEF R
  <2>6. PICK r \in RootsOf(cells, n) :
          /\ r.seg <= reader.last
          /\ reader.positions[n] # None => ~Before(r, reader.positions[n])
          /\ \/ Pending(cells, reader.todo \ {Current}, reader.last, n, r)
             \/ Applied(cells, Fold(reader.state[n], R), reader.todo \ {Current}, reader.last, n, r)
    <3>1. \E r \in RootsOf(cells, n) :
            /\ ~Before(r, q) /\ r.seg <= reader.last
            /\ reader.positions[n] # None => ~Before(r, reader.positions[n])
            /\ \/ q.seg # Current /\ r = q /\ Pending(cells, reader.todo \ {Current}, reader.last, n, r)
               \/ Applied(cells, Fold(reader.state[n], R), reader.todo \ {Current}, reader.last, n, r)
      BY <1>u, <1>c, <2>1, <2>3, <2>5, FoldStep
    <3> QED BY <3>1
  <2> QED BY <1>1, <1>i, <2>2, <2>4, <2>6 DEF OnCourse, TargetInv
<1>2. ReplayInv'
  <2> SUFFICES ASSUME (reader.pc = "replay")', ("mixed" \notin reader.seen)',
                      NEW n \in (reader.targets \cap ActiveNodes(nodes_json))'
               PROVE  OnCourse(n)'
    BY DEF ReplayInv
  <2>1. "mixed" \notin reader.seen /\ n \in reader.targets \cap ActiveNodes(nodes_json)
    BY <1>l, <1>u DEF SameCall
  <2> QED BY <1>1, <1>l, <1>u, <2>1 DEF OnCourse, SameCall
<1>3. ReadIsConsistent'
  <2> SUFFICES ASSUME (reader.pc = "ok")', ("mixed" \notin reader.seen)',
                      NEW n \in (reader.targets \cap ActiveNodes(nodes_json))'
               PROVE  GapFree(n)'
    BY DEF ReadIsConsistent
  <2>1. "mixed" \notin reader.seen /\ n \in reader.targets \cap ActiveNodes(nodes_json)
    BY <1>l, <1>u DEF SameCall
  <2>2. reader.todo \ {Current} = {}
    BY <1>l DEF Continues
  <2>3. PICK r \in RootsOf(cells, n) :
          \/ Pending(cells, {}, reader.last, n, r)
          \/ Applied(cells, S[n], {}, reader.last, n, r)
    BY <1>1, <2>1, <2>2
  <2>4. Applied(cells, S[n], {}, reader.last, n, r)
    BY <2>3 DEF Pending
  <2>5. Gapless(cells, S[n], reader.floor[n], n)
    BY <1>1, <1>u, <2>1, <2>4, AppliedIsGapless
  <2> QED BY <1>l, <1>u, <2>5, GapFreeIsGapless DEF SameCall, GapFree, Gapless, AllOf
<1> QED BY <1>2, <1>3

LEMMA OpenSegmentInv ==
  ASSUME TypeOK, ReaderInv, OpenSegment
  PROVE  ReaderInv'
<1> USE DEF vars, content, segments, metadata
<1>i. ReaderTypeOK /\ HintInv /\ UNCHANGED vars
  BY DEF ReaderInv, OpenSegment
<1>1. reader.pc \in Looping /\ reader.todo # {}
  BY <1>i, OpenFields
<1>2. CASE Fails
  BY <1>i, <1>1, <1>2, FailInv DEF Looping
<1>3. CASE cells[Current] = <<>> /\ ReaderTypeOK' /\ Leaves(reader.positions, reader.state)
  <2>1. TargetInv' /\ ListInv' /\ HintInv'
    BY <1>i, <1>1, <1>3, LeaveInv DEF HintInv, Looping
  <2>2. reader'.state = reader.state /\ Continues
    BY <1>3 DEF Leaves
  <2>3. CASE reader.pc = "scan"
    <3>1. reader'.pc \in {"scan", "replay_list"}
      BY <2>2, <2>3 DEF Continues
    <3> QED BY <1>3, <2>1, <2>2, <2>3, <3>1 DEF ReaderInv, StateInv, ReplayInv, ReadIsConsistent
  <2>4. CASE reader.pc = "replay"
    <3>1. \A n \in reader.targets :
            reader.state[n] = Fold(reader.state[n],
                       { p \in AllOf(cells, n) :
                           p.seg = Current /\ (reader.positions[n] # None => ~Before(p, reader.positions[n])) })
      <4> SUFFICES ASSUME NEW n \in reader.targets
                   PROVE  reader.state[n] = Fold(reader.state[n],
                            { p \in AllOf(cells, n) :
                                p.seg = Current /\ (reader.positions[n] # None => ~Before(p, reader.positions[n])) })
        OBVIOUS
      <4>1. { p \in AllOf(cells, n) :
                p.seg = Current /\ (reader.positions[n] # None => ~Before(p, reader.positions[n])) } = {}
        <5>1. \A p \in AllOf(cells, n) : cells[p.seg] # <<>>
          BY RecordFacts DEF TypeOK
        <5> QED BY <1>3, <5>1
      <4> QED BY <4>1 DEF Fold
    <3>2. ReplayInv' /\ ReadIsConsistent'
      BY <1>i, <1>1, <1>3, <2>4, <3>1, ReplayOnInv
    <3>3. StateInv'
      BY <2>2, <2>4 DEF StateInv, Continues
    <3> QED BY <1>3, <2>1, <3>2, <3>3 DEF ReaderInv
  <2> QED BY <1>1, <2>3, <2>4 DEF Looping
<1>4. CASE ReaderTypeOK' /\ SameCall /\ SameHints /\ SameLoop /\ SameResult /\ reader'.pc = reader.pc
  <2>1. cells' = cells /\ dir' = dir /\ nodes_json' = nodes_json
    BY <1>i
  <2>2. StartPosition(reader') = StartPosition(reader)
    BY <1>4, SameStart
  <2>3. TargetInv' /\ HintInv'
    BY <1>4, <2>1, <2>2 DEF ReaderInv, TargetInv, HintInv, SameCall, SameHints, SameResult
  <2>4. ListInv'
    BY <1>1, <1>4, <2>1 DEF ReaderInv, ListInv, SameCall, SameLoop, Listing, Looping
  <2>5. StateInv'
    BY <1>4 DEF ReaderInv, StateInv, SameResult
  <2>6. ReplayInv'
    BY <1>4, <2>1 DEF ReaderInv, ReplayInv, OnCourse, SameCall, SameLoop, SameResult
  <2>7. ReadIsConsistent'
    BY <1>1, <1>4 DEF ReadIsConsistent, Looping
  <2> QED BY <1>4, <2>3, <2>4, <2>5, <2>6, <2>7 DEF ReaderInv
<1> QED BY <1>2, <1>3, <1>4, <1>i, OpenFields

LEMMA ScanSegmentInv ==
  ASSUME TypeOK, ReaderInv, ScanSegment
  PROVE  ReaderInv'
<1> USE DEF vars, content, segments, metadata
<1>i. ReaderTypeOK /\ HintInv /\ ListInv /\ UNCHANGED vars
  BY DEF ReaderInv, ScanSegment
<1>1. reader.pc = "scan" /\ reader.todo # {}
  BY <1>i, ScanFields
<1>2. CASE Fails
  BY <1>i, <1>1, <1>2, FailInv
<1>3. CASE ~Fails
  <2>1. ReaderTypeOK'
    BY <1>i, <1>3, ScanFields
  <2>2. PICK P \in CheckpointIndex :
          /\ Leaves(P, reader.state)
          /\ \A n \in Nodes :
               /\ Found(n) = {} => P[n] = reader.positions[n]
               /\ Found(n) # {} => P[n] \in Found(n) /\ \A p \in Found(n) : ~Before(P[n], p)
    BY <1>i, <1>3, ScanFields
  <2>3. \A n \in Nodes : P[n] # None => P[n] \in RootsOf(cells, n)
    BY <1>i, <2>2 DEF HintInv, Found
  <2>4. reader.all /\ StartPosition(reader) # None =>
           \A n \in reader.targets : P[n] # None /\ ~Before(P[n], StartPosition(reader))
    <3> SUFFICES ASSUME reader.all, StartPosition(reader) # None, NEW n \in reader.targets
                 PROVE  P[n] # None /\ ~Before(P[n], StartPosition(reader))
      OBVIOUS
    <3>1. n \in Nodes
      BY <1>i DEF ReaderTypeOK, ReaderRecord
    <3>2. CASE Found(n) = {}
      BY <1>i, <1>1, <2>2, <3>1, <3>2 DEF HintInv, Looping
    <3>3. CASE Found(n) # {}
      <4>1. P[n] \in Found(n)
        BY <2>2, <3>1, <3>3
      <4>2. P[n] \in Position
        BY <4>1, RecordFacts DEF Found, TypeOK
      <4> QED BY <4>1, <4>2, NoneAssumption DEF Found
    <3> QED BY <3>2, <3>3
  <2>5. TargetInv' /\ ListInv' /\ HintInv'
    BY <1>i, <1>1, <2>2, <2>3, <2>4, LeaveInv DEF Looping
  <2>6. reader'.pc \in {"scan", "replay_list"} /\ reader'.state = reader.state
    BY <1>1, <2>2 DEF Leaves, Continues
  <2> QED BY <1>1, <2>1, <2>5, <2>6 DEF ReaderInv, StateInv, ReplayInv, ReadIsConsistent
<1> QED BY <1>2, <1>3

LEMMA ReplaySegmentInv ==
  ASSUME TypeOK, ReaderInv, ReplaySegment
  PROVE  ReaderInv'
<1> USE DEF vars, content, segments, metadata
<1>i. ReaderTypeOK /\ HintInv /\ ListInv /\ UNCHANGED vars
  BY DEF ReaderInv, ReplaySegment
<1>1. reader.pc = "replay" /\ reader.todo # {}
  BY <1>i, ReplayFields
<1>2. CASE Fails
  BY <1>i, <1>1, <1>2, FailInv
<1>3. CASE ~Fails
  <2>1. ReaderTypeOK'
    BY <1>i, <1>3, ReplayFields
  <2>2. PICK S \in [Nodes -> SUBSET Position] :
          /\ Leaves(reader.positions, S)
          /\ \A n \in Nodes : S[n] = Fold(reader.state[n], Replayed(n))
    BY <1>i, <1>3, ReplayFields
  <2>3. \A n \in reader.targets :
          S[n] = Fold(reader.state[n],
                      { p \in AllOf(cells, n) :
                          p.seg = Current /\ (reader.positions[n] # None => ~Before(p, reader.positions[n])) })
    <3> SUFFICES ASSUME NEW n \in reader.targets
                 PROVE  S[n] = Fold(reader.state[n],
                          { p \in AllOf(cells, n) :
                              p.seg = Current /\ (reader.positions[n] # None => ~Before(p, reader.positions[n])) })
      OBVIOUS
    <3>1. n \in Nodes /\ Current \in SegIds
      BY <1>i, <1>1, CurrentIsLeast DEF ReaderTypeOK, ReaderRecord
    <3>2. RecordsOf(cells, {Current}, n) = { p \in AllOf(cells, n) : p.seg = Current }
      BY <3>1, InSegment
    <3>3. Replayed(n) = { p \in AllOf(cells, n) :
                            p.seg = Current /\ (reader.positions[n] # None => ~Before(p, reader.positions[n])) }
      BY <3>2 DEF Replayed
    <3> QED BY <2>2, <3>1, <3>3
  <2>4. TargetInv' /\ ListInv' /\ HintInv'
    BY <1>i, <1>1, <2>2, LeaveInv DEF HintInv, Looping
  <2>5. ReplayInv' /\ ReadIsConsistent'
    BY <1>i, <1>1, <2>2, <2>3, ReplayOnInv
  <2>6. StateInv'
    BY <1>1, <2>2 DEF StateInv, Leaves, Continues
  <2> QED BY <2>1, <2>4, <2>5, <2>6 DEF ReaderInv
<1> QED BY <1>2, <1>3

\* What the writer adds is behind the last segment listed, or in it.
LEMMA OnCourseStays ==
  ASSUME IInv, TypeOK', Grows, NEW n, NEW q \in RootsOf(cells, n),
         NEW S, NEW todo \in SUBSET SegIds, NEW last \in todo, \E t \in dir : last <= t
  PROVE  /\ Pending(cells, todo, last, n, q) => Pending(cells', todo, last, n, q)
         /\ Applied(cells, S, todo, last, n, q) => Applied(cells', S, todo, last, n, q)
<1>i. TypeOK
  BY DEF IInv
<1>t. dir \subseteq Nat /\ last \in Nat
  BY <1>i, SegmentIdAssumption DEF TypeOK, SegIds
<1>1. /\ AllOf(cells, n) \subseteq AllOf(cells', n)
      /\ \A p \in AllOf(cells', n) \ AllOf(cells, n) : p.seg \in dir /\ \A t \in dir : t <= p.seg
  BY RecordsGrow
<1>2. ASSUME NEW p \in AllOf(cells', n), p \notin AllOf(cells, n), p.seg <= last
      PROVE  p.seg \in todo
  <2>1. PICK t \in dir : last <= t
    OBVIOUS
  <2>2. p.seg \in dir /\ t <= p.seg
    BY <1>1, <1>2
  <2>3. p.seg \in Nat /\ t \in Nat
    BY <1>t, <2>1, <2>2
  <2>4. p.seg = last
    BY <1>t, <1>2, <2>1, <2>2, <2>3
  <2> QED BY <2>4
<1>3. Pending(cells, todo, last, n, q) => Pending(cells', todo, last, n, q)
  BY <1>2 DEF Pending
<1>4. Applied(cells, S, todo, last, n, q) => Applied(cells', S, todo, last, n, q)
  BY <1>1, <1>2 DEF Applied
<1> QED BY <1>3, <1>4

LEMMA WriterInv ==
  ASSUME IInv, IInv', CInv, ReaderInv, WriterStep
  PROVE  ReaderInv'
<1>i. TypeOK /\ TypeOK' /\ ReaderTypeOK
  BY DEF IInv, ReaderInv
<1>1. CASE reader' = NoReader
  BY <1>1, NoReaderInv
<1>2. CASE reader' # NoReader
  <2>1. /\ Next /\ ~PowerLoss /\ reader.pc # "none"
        /\ ReaderTypeOK' /\ SameHints /\ SameLoop /\ SameResult
        /\ reader'.pc = reader.pc /\ reader'.file_len = reader.file_len
        /\ reader'.all = reader.all /\ reader'.targets = reader.targets /\ reader'.floor = reader.floor
        /\ "mixed" \notin reader'.seen =>
             /\ "mixed" \notin reader.seen
             /\ reader.pc \in Listing /\ reader.unseen # SegIds => dir' = dir
    BY <1>2, <1>i, WriterFields
  <2>2. Grows
    BY <2>1, WriterGrows
  <2>3. \A n : /\ AllOf(cells, n) \subseteq AllOf(cells', n)
               /\ RootsOf(cells, n) \subseteq RootsOf(cells', n)
    BY <1>i, <2>2, RecordsGrow
  <2>4. \A n \in reader.targets :
          /\ n \in Nodes
          /\ nodes_json'[n] # "unknown"
          /\ n \in ActiveNodes(nodes_json') => n \in ActiveNodes(nodes_json)
    <3> SUFFICES ASSUME NEW n \in reader.targets
                 PROVE  /\ n \in Nodes
                        /\ nodes_json'[n] # "unknown"
                        /\ n \in ActiveNodes(nodes_json') => n \in ActiveNodes(nodes_json)
      OBVIOUS
    <3>1. n \in Nodes /\ nodes_json[n] # "unknown"
      BY <1>i, <2>1 DEF ReaderInv, TargetInv, ReaderTypeOK, ReaderRecord
    <3>2. nodes_json'[n] # "unknown" /\ (nodes_json'[n] = "active" => nodes_json[n] = "active")
      BY <2>1, <3>1, NodesStay
    <3> QED BY <3>1, <3>2 DEF ActiveNodes
  <2>5. TargetInv'
    BY <2>1, <2>3, <2>4 DEF ReaderInv, TargetInv
  <2>6. HintInv'
    <3>1. StartPosition(reader') = StartPosition(reader)
      BY <2>1 DEF StartPosition, Oldest, SameHints
    <3> QED BY <2>1, <2>3, <3>1 DEF ReaderInv, HintInv, SameHints, SameResult
  <2>7. ListInv'
    <3>0. dir \subseteq SegIds /\ dir' \subseteq SegIds /\ reader.last \in SegIds
      BY <1>i DEF TypeOK, ReaderTypeOK, ReaderRecord
    <3>1. dir \subseteq SegIds /\ dir' \subseteq SegIds /\ SegIds \subseteq Nat /\ reader.last \in Nat
      BY <3>0, SegmentIdAssumption DEF SegIds
    <3>2. reader.pc \in Listing /\ "mixed" \notin reader'.seen => reader.todo = dir' \ reader.unseen
      BY <2>1, <3>1 DEF ReaderInv, ListInv
    <3>3. reader.pc \in Looping /\ "mixed" \notin reader'.seen => \E u \in dir' : reader.last <= u
      <4> SUFFICES ASSUME reader.pc \in Looping, "mixed" \notin reader'.seen
                   PROVE  \E u \in dir' : reader.last <= u
        OBVIOUS
      <4>1. PICK t \in dir : reader.last <= t
        BY <2>1 DEF ReaderInv, ListInv
      <4>2. PICK u \in dir' : t <= u
        BY <2>2 DEF Grows
      <4>3. t \in Nat /\ u \in Nat
        BY <3>1
      <4> QED BY <3>1, <4>1, <4>2, <4>3
    <3> QED BY <2>1, <3>2, <3>3 DEF ReaderInv, ListInv, SameLoop
  <2>8. StateInv'
    BY <2>1 DEF ReaderInv, StateInv, SameResult
  <2>9. ReplayInv'
    <3> SUFFICES ASSUME reader'.pc = "replay", "mixed" \notin reader'.seen,
                        NEW n \in reader'.targets \cap ActiveNodes(nodes_json')
                 PROVE  OnCourse(n)'
      BY DEF ReplayInv
    <3>1. reader.pc = "replay" /\ "mixed" \notin reader.seen /\ n \in reader.targets \cap ActiveNodes(nodes_json)
      BY <2>1, <2>4
    <3>2. OnCourse(n)
      BY <3>1 DEF ReaderInv, ReplayInv
    <3>3. PICK q \in RootsOf(cells, n) :
            /\ q.seg <= reader.last
            /\ reader.positions[n] # None => ~Before(q, reader.positions[n])
            /\ \/ Pending(cells, reader.todo, reader.last, n, q)
               \/ Applied(cells, reader.state[n], reader.todo, reader.last, n, q)
      BY <3>2 DEF OnCourse
    <3>4. reader.todo \in SUBSET SegIds /\ reader.last \in reader.todo /\ \E t \in dir : reader.last <= t
      BY <3>1 DEF ReaderInv, ListInv, Looping, ReaderTypeOK, ReaderRecord
    <3>5. \/ Pending(cells', reader.todo, reader.last, n, q)
          \/ Applied(cells', reader.state[n], reader.todo, reader.last, n, q)
      BY <1>i, <2>2, <3>3, <3>4, OnCourseStays
    <3> QED BY <2>1, <2>3, <3>2, <3>3, <3>5 DEF OnCourse, SameLoop, SameResult
  <2>10. ReadIsConsistent'
    <3> SUFFICES ASSUME reader'.pc = "ok", "mixed" \notin reader'.seen,
                        NEW n \in reader'.targets \cap ActiveNodes(nodes_json')
                 PROVE  GapFree(n)'
      BY DEF ReadIsConsistent
    <3>1. reader.pc = "ok" /\ "mixed" \notin reader.seen /\ n \in reader.targets \cap ActiveNodes(nodes_json)
      BY <2>1, <2>4
    <3>2. Gapless(cells, reader.state[n], reader.floor[n], n)
      BY <3>1, GapFreeIsGapless DEF ReaderInv, ReadIsConsistent
    <3>3. Gapless(cells', reader.state[n], reader.floor[n], n)
      BY <1>i, <2>2, <3>2, GaplessStays
    <3> QED BY <2>1, <3>3 DEF GapFree, Gapless, AllOf, SameResult
  <2> QED BY <2>1, <2>5, <2>6, <2>7, <2>8, <2>9, <2>10 DEF ReaderInv
<1> QED BY <1>1, <1>2

LEMMA ReaderStep ==
  ASSUME IInv, IInv', CInv, RootedInv, ReaderInv, [ReaderNext]_rvars
  PROVE  ReaderInv'
<1>i. TypeOK
  BY DEF IInv
<1>1. CASE WriterStep
  BY <1>1, WriterInv
<1>2. CASE ReadRegistry
  BY <1>2, ReadRegistryInv
<1>3. CASE ReadIndex
  BY <1>3, <1>i, ReadIndexInv
<1>4. CASE Validate
  BY <1>4, <1>i, ValidateInv
<1>5. CASE List
  BY <1>5, ListStepInv
<1>6. CASE OpenSegment
  BY <1>6, <1>i, OpenSegmentInv
<1>7. CASE ScanSegment
  BY <1>7, <1>i, ScanSegmentInv
<1>8. CASE ReplaySegment
  BY <1>8, <1>i, ReplaySegmentInv
<1>9. CASE Drop
  BY <1>9, NoReaderInv DEF Drop
<1>10. CASE UNCHANGED rvars
  BY <1>10 DEF rvars, vars, segments, content, metadata, ReaderInv, ReaderTypeOK, TargetInv, ListInv, HintInv,
     StateInv, ReplayInv, OnCourse, ReadIsConsistent, GapFree
<1> QED BY <1>1, <1>2, <1>3, <1>4, <1>5, <1>6, <1>7, <1>8, <1>9, <1>10 DEF ReaderNext, Read

LEMMA ReaderInvariance == ReaderSpec => []ReaderInv
<1>1. ReaderInit => ReaderInv
  <2> SUFFICES ASSUME ReaderInit
               PROVE  ReaderInv
    OBVIOUS
  <2>1. /\ reader \in ReaderRecord
        /\ reader.pc = "none" /\ reader.todo = {} /\ reader.file_len = None
        /\ \A n \in Nodes : reader.hints[n] = None /\ reader.positions[n] = None /\ reader.state[n] = {}
    BY NoReaderFields DEF ReaderInit, NoIndex
  <2>2. ReaderTypeOK /\ TargetInv /\ StateInv /\ ReplayInv /\ ReadIsConsistent
    BY <2>1 DEF ReaderTypeOK, TargetInv, StateInv, ReplayInv, ReadIsConsistent
  <2>3. ListInv /\ HintInv
    BY <2>1 DEF ListInv, HintInv, Listing, Looping
  <2> QED BY <2>2, <2>3 DEF ReaderInv
<1>2. IInv /\ IInv' /\ CInv /\ RootedInv /\ ReaderInv /\ [ReaderNext]_rvars => ReaderInv'
  BY ReaderStep
<1> QED BY <1>1, <1>2, WriterIsSpec, Invariance, CallInvariance, ActiveNodesAreRooted, PTL DEF ReaderSpec

\* A read that returns Ok, from load or load_all of a ReadOnlyStorage, gives
\* every target that is still active a state that the node had during the
\* read: an unbroken run of its records from a checkpoint to at least where
\* the node was when the read began.  This holds for every interleaving with
\* appends, rotations, replacements of the JSON files, collections, process
\* crashes, power losses and a lost index, unless the directory changed in
\* the middle of one listing of it.
THEOREM ReadsAreConsistent == ReaderSpec => []ReadIsConsistent
<1>1. ReaderInv => ReadIsConsistent
  BY DEF ReaderInv
<1> QED BY <1>1, ReaderInvariance, PTL

-------------------------------------------------------------------------------
(***************************************************************************)
(* Reads that nothing disturbs do not fail.                                *)
(***************************************************************************)

\* The index entries that the read is to use or uses are valid.
HintsValid ==
  /\ reader.pc = "index" =>
       \A n \in reader.indexed :
         checkpoints_json[n] # None => validate_checkpoint_position(cells, dir, n, checkpoints_json[n])
  /\ \A n \in Nodes :
       reader.hints[n] # None => validate_checkpoint_position(cells, dir, n, reader.hints[n])

\* Each target, removed meanwhile or not, has a checkpoint from which on
\* everything of it is in the directory.
TargetsKept ==
  reader.pc # "none" => \A n \in reader.targets : \E q \in RootsOf(cells, n) : Kept(cells, dir, n, q)

\* The listed segments are there; the length taken of one that is not the
\* last is its length, and the scan does not start behind it.
SegmentsThere ==
  reader.pc \in Looping =>
    /\ reader.todo \subseteq dir
    /\ reader.file_len # None =>
         /\ Current # reader.last => Len(cells[Current]) = reader.file_len
         /\ reader.pc = "scan" /\ StartPosition(reader) # None /\ StartPosition(reader).seg = Current =>
              StartPosition(reader).off <= reader.file_len

\* The scan has found, or will find, such a checkpoint of n ...
ScanFinds(n) ==
  \E q \in RootsOf(cells, n) :
    /\ Kept(cells, dir, n, q)
    /\ StartPosition(reader) # None => ~Before(q, StartPosition(reader))
    /\ \/ q.seg \in reader.todo
       \/ /\ \A s \in reader.todo : q.seg < s
          /\ reader.positions[n] # None
          /\ ~Before(reader.positions[n], q)

\* ... and the replay applies n from it on, or will.
ReplayFinds(n) ==
  /\ reader.positions[n] # None
  /\ \/ reader.state[n] = {} /\ Pending(cells, reader.todo, reader.last, n, reader.positions[n])
     \/ \E q \in RootsOf(cells, n) :
          /\ ~Before(q, reader.positions[n])
          /\ q.seg <= reader.last
          /\ Applied(cells, reader.state[n], reader.todo, reader.last, n, q)

Undisturbed ==
  /\ reader.pc # "error"
  /\ HintsValid
  /\ TargetsKept
  /\ SegmentsThere
  /\ reader.pc = "scan" => \A n \in reader.targets : ScanFinds(n)
  /\ reader.pc = "replay_list" =>
       \A n \in reader.targets : reader.positions[n] # None /\ Kept(cells, dir, n, reader.positions[n])
  /\ reader.pc = "replay" => \A n \in reader.targets : ReplayFinds(n)

UInv == reader.seen = {} => Undisturbed

LEMMA ValidStays ==
  ASSUME IInv, TypeOK', Grows, dir \subseteq dir', NEW n, NEW p \in Position,
         validate_checkpoint_position(cells, dir, n, p)
  PROVE  validate_checkpoint_position(cells', dir', n, p)
<1>1. p \in RootsOf(cells', n)
  BY ValidIsRoot, RecordsGrow DEF IInv
<1>c. cells' \in [SegIds -> Seq(Cell)]
  BY DEF TypeOK
<1>2. p.off >= 1 /\ p.off < Len(cells'[p.seg]) /\ CellAt(cells', p).node = n /\ CellAt(cells', p).checkpoint
  BY <1>1, <1>c, RecordFacts
<1> QED BY <1>2 DEF validate_checkpoint_position, IsRecord, HeaderLen

LEMMA KeptStays ==
  ASSUME IInv, TypeOK', Grows, dir \subseteq dir', NEW n, NEW q, Kept(cells, dir, n, q)
  PROVE  Kept(cells', dir', n, q)
<1>1. \A p \in AllOf(cells', n) \ AllOf(cells, n) : p.seg \in dir'
  BY RecordsGrow
<1> QED BY <1>1 DEF Kept

LEMMA NoReaderU ==
  ASSUME reader' = NoReader
  PROVE  UInv'
<1>1. /\ reader'.pc = "none" /\ reader'.todo = {} /\ reader'.file_len = None
      /\ \A n \in Nodes : reader'.hints[n] = None /\ reader'.positions[n] = None /\ reader'.state[n] = {}
  BY NoReaderFields DEF NoIndex
<1>2. HintsValid' /\ TargetsKept' /\ SegmentsThere'
  BY <1>1 DEF HintsValid, TargetsKept, SegmentsThere, Looping
<1> QED BY <1>1, <1>2 DEF UInv, Undisturbed

LEMMA ReadRegistryU ==
  ASSUME IInv, RootedInv, Sound, ReadRegistry
  PROVE  UInv'
<1> USE DEF vars, content, segments, metadata
<1>i. TypeOK
  BY DEF IInv
<1>1. /\ reader'.pc = "index"
      /\ reader'.targets \subseteq ActiveNodes(nodes_json)
      /\ reader'.indexed = ActiveNodes(nodes_json)
      /\ reader'.hints = NoIndex
  BY <1>i, RegistryFields
<1>2. cells' = cells /\ dir' = dir /\ nodes_json' = nodes_json /\ checkpoints_json' = checkpoints_json
  BY DEF ReadRegistry
<1>3. HintsValid'
  BY <1>1, <1>2 DEF HintsValid, Sound, NoIndex
<1>4. \A n \in ActiveNodes(nodes_json) : \E q \in RootsOf(cells, n) : Kept(cells, dir, n, q)
  BY NewestIsKept
<1>5. TargetsKept'
  BY <1>1, <1>2, <1>4 DEF TargetsKept
<1>6. SegmentsThere'
  BY <1>1 DEF SegmentsThere, Looping
<1> QED BY <1>1, <1>3, <1>5, <1>6 DEF UInv, Undisturbed

LEMMA ReadIndexU ==
  ASSUME TypeOK, ReaderInv, UInv, ReadIndex
  PROVE  UInv'
<1> USE DEF vars, content, segments, metadata
<1> SUFFICES ASSUME reader'.seen = {}
             PROVE  Undisturbed'
  BY DEF UInv
<1>u. /\ ReaderTypeOK /\ reader.pc = "index" /\ cells' = cells /\ dir' = dir
  BY DEF ReaderInv, ReadIndex
<1>1. /\ SameCall /\ reader'.pc \in {"validate", "scan_list"}
      /\ \A n \in Nodes : reader'.hints[n] = IF n \in reader.indexed THEN checkpoints_json[n] ELSE None
  BY <1>u, IndexFields
<1>2. Undisturbed
  BY <1>1 DEF UInv, SameCall
<1>3. HintsValid'
  BY <1>u, <1>1, <1>2 DEF HintsValid, Undisturbed
<1>4. TargetsKept' /\ SegmentsThere'
  BY <1>u, <1>1, <1>2 DEF Undisturbed, TargetsKept, SegmentsThere, SameCall, Looping
<1> QED BY <1>1, <1>3, <1>4 DEF Undisturbed

LEMMA ValidateU ==
  ASSUME TypeOK, ReaderInv, UInv, Validate
  PROVE  UInv'
<1> USE DEF vars, content, segments, metadata
<1> SUFFICES ASSUME reader'.seen = {}
             PROVE  Undisturbed'
  BY DEF UInv
<1>u. /\ ReaderTypeOK /\ reader.pc = "validate" /\ cells' = cells /\ dir' = dir
  BY DEF ReaderInv, Validate
<1>1. PICK n \in reader.indexed :
        \/ Fails /\ ~validate_checkpoint_position(cells, dir, n, reader.hints[n])
        \/ SameCall /\ reader'.hints = reader.hints /\ reader'.pc \in {"validate", "scan_list"}
  BY <1>u, ValidateFields
<1>2. Undisturbed
  BY <1>u, <1>1, FailFields DEF UInv, SameCall
<1>3. n \in Nodes /\ reader.hints[n] # None
  BY <1>u DEF ReaderInv, HintInv, ReaderTypeOK, ReaderRecord
<1>4. SameCall /\ reader'.hints = reader.hints /\ reader'.pc \in {"validate", "scan_list"}
  BY <1>1, <1>2, <1>3 DEF Undisturbed, HintsValid
<1>5. HintsValid' /\ TargetsKept' /\ SegmentsThere'
  BY <1>u, <1>2, <1>4 DEF Undisturbed, HintsValid, TargetsKept, SegmentsThere, SameCall, Looping
<1> QED BY <1>4, <1>5 DEF Undisturbed

\* A checkpoint at or behind one from which on all is kept is one, too.
LEMMA LaterIsKept ==
  ASSUME TypeOK, NEW d, NEW n, NEW q \in Position, NEW r \in Position, ~Before(r, q), Kept(cells, d, n, q)
  PROVE  Kept(cells, d, n, r)
<1>1. AllOf(cells, n) \subseteq Position
  BY RecordFacts DEF TypeOK
<1> QED BY <1>1, NotBeforeTransitive DEF Kept

\* The checkpoint of a target that a scan is sure to find.
LEMMA ScanTarget ==
  ASSUME TypeOK, ReaderInv, Undisturbed, reader.pc \in Listing \cup Looping, NEW n \in reader.targets
  PROVE  \E q \in RootsOf(cells, n) :
           /\ Kept(cells, dir, n, q)
           /\ q.seg \in dir
           /\ StartPosition(reader) # None => ~Before(q, StartPosition(reader))
<1>r. reader \in ReaderRecord /\ reader.targets # {} /\ reader.hints \in CheckpointIndex /\ n \in Nodes
  BY DEF ReaderInv, TargetInv, ReaderTypeOK, ReaderRecord, Listing, Looping
<1>c. /\ RootsOf(cells, n) \subseteq AllOf(cells, n)
      /\ AllOf(cells, n) \subseteq Position
  BY RecordFacts DEF TypeOK
<1>1. PICK q \in RootsOf(cells, n) : Kept(cells, dir, n, q)
  BY DEF Undisturbed, TargetsKept, Listing, Looping
<1>2. /\ StartPosition(reader) \in Position \cup {None}
      /\ StartPosition(reader) # None => reader.hints[n] \in Position /\ ~Before(reader.hints[n], StartPosition(reader))
  BY <1>r, OldestFacts DEF StartPosition
<1>3. \A r \in RootsOf(cells, n) : Kept(cells, dir, n, r) => r.seg \in dir
  BY <1>c, BeforeIsOrder DEF Kept
<1>4. CASE StartPosition(reader) # None /\ Before(q, StartPosition(reader))
  <2>1. reader.hints[n] \in RootsOf(cells, n)
    BY <1>r, <1>2, <1>4, NoneAssumption DEF ReaderInv, HintInv
  <2>2. ~Before(reader.hints[n], q)
    <3>1. q \in Position /\ reader.hints[n] \in Position /\ StartPosition(reader) \in Position
      BY <1>1, <1>2, <1>4, <1>c
    <3> QED BY <1>2, <1>4, <3>1, BeforeIsOrder
  <2>3. Kept(cells, dir, n, reader.hints[n])
    BY <1>1, <1>c, <2>1, <2>2, LaterIsKept
  <2> QED BY <1>2, <1>3, <1>4, <2>1, <2>3
<1>5. CASE ~(StartPosition(reader) # None /\ Before(q, StartPosition(reader)))
  BY <1>1, <1>3, <1>5
<1> QED BY <1>4, <1>5

LEMMA ListU ==
  ASSUME TypeOK, ReaderInv, UInv, List
  PROVE  UInv'
<1> USE DEF vars, content, segments, metadata
<1> SUFFICES ASSUME reader'.seen = {}
             PROVE  Undisturbed'
  BY DEF UInv
<1>u. /\ ReaderTypeOK /\ reader.pc \in Listing /\ cells' = cells /\ dir' = dir
      /\ reader.targets \subseteq Nodes /\ reader.targets # {} /\ reader.file_len = None
  BY DEF ReaderInv, TargetInv, ListInv, ReaderTypeOK, ReaderRecord, List, Listing, Looping
<1>1. SameCall /\ SameHints /\ SameResult /\ reader'.file_len = reader.file_len
  BY <1>u, ListEffect
<1>2. PICK names \in SUBSET reader.unseen : ListFields(names)
  BY <1>u, ListEffect
<1>3. Undisturbed
  BY <1>1 DEF UInv, SameCall
<1>4. StartPosition(reader') = StartPosition(reader)
  BY <1>1, SameStart
<1> DEFINE listing == reader.todo \cup (names \cap dir)
           rest == { s \in listing : FirstSegment <= s }
<1>5. HintsValid' /\ TargetsKept'
  <2>1. reader'.pc \notin {"index", "none"}
    BY <1>2, <1>u DEF ListFields, Listing
  <2> QED BY <1>u, <1>1, <1>3, <2>1 DEF Undisturbed, HintsValid, TargetsKept, SameCall, SameHints, Listing
<1>6. CASE reader.unseen \ names # {}
  <2>1. reader'.pc = reader.pc
    BY <1>2, <1>6 DEF ListFields
  <2>2. SegmentsThere'
    BY <1>u, <2>1 DEF SegmentsThere, Listing, Looping
  <2> QED BY <1>u, <1>1, <1>3, <1>5, <2>1, <2>2 DEF Undisturbed, Listing, SameCall, SameResult
<1>7. CASE reader.unseen \ names = {}
  <2>1. /\ reader'.last = replay_active_segment(listing)
        /\ reader'.todo = rest
        /\ rest # {} => reader'.pc = IF reader.pc = "scan_list" THEN "scan" ELSE "replay"
        /\ rest = {} /\ reader.pc = "scan_list" => reader'.pc = "replay_list"
        /\ rest = {} /\ reader.pc = "replay_list" => reader'.pc = "ok"
    BY <1>2, <1>7 DEF ListFields
  <2>2. listing = dir
    BY <1>u, <1>1, <1>7 DEF ReaderInv, ListInv, SameCall
  <2>3. rest = { s \in dir : FirstSegment <= s }
    BY <2>2
  <2> HIDE DEF listing, rest
  <2>4. SegmentsThere'
    BY <1>u, <1>1, <2>1, <2>3 DEF SegmentsThere
  <2>5. ASSUME reader.pc = "scan_list", NEW n \in reader.targets
        PROVE  ScanFinds(n)' /\ rest # {}
    <3>1. PICK q \in RootsOf(cells, n) :
           /\ Kept(cells, dir, n, q)
           /\ q.seg \in dir
           /\ StartPosition(reader) # None => ~Before(q, StartPosition(reader))
      BY <1>u, <1>3, ScanTarget
    <3>2. q \in Position
      BY <3>1, RecordFacts DEF TypeOK
    <3>3. FirstSegment <= q.seg
      BY <1>u, <2>5, <3>1, <3>2, FirstSegmentBound
    <3>4. q.seg \in rest
      BY <2>3, <3>1, <3>3
    <3> QED BY <1>u, <1>4, <2>1, <3>1, <3>4 DEF ScanFinds
  <2>6. ASSUME reader.pc = "replay_list", NEW n \in reader.targets, rest # {}
        PROVE  ReplayFinds(n)'
    <3> DEFINE q == reader.positions[n]
    <3>1. q # None /\ Kept(cells, dir, n, q) /\ q \in RootsOf(cells, n) /\ reader.state[n] = {}
      BY <1>u, <1>3, <2>6 DEF Undisturbed, ReaderInv, HintInv, StateInv
    <3>2. AllOf(cells, n) \subseteq Position /\ RootsOf(cells, n) \subseteq AllOf(cells, n)
      BY RecordFacts DEF TypeOK
    <3>3. ASSUME NEW p \in AllOf(cells, n), ~Before(p, q)
          PROVE  p.seg \in rest
      <4>1. p.seg \in dir
        BY <3>1, <3>3 DEF Kept
      <4>2. FirstSegment <= p.seg
        BY <1>u, <2>6, <3>2, <3>3, FirstSegmentBound
      <4> QED BY <2>3, <4>1, <4>2
    <3>4. q \in AllOf(cells, n) /\ ~Before(q, q)
      BY <3>1, <3>2, BeforeIsOrder
    <3>5. Pending(cells, rest, reader'.last, n, q)
      BY <3>3, <3>4 DEF Pending
    <3> QED BY <1>u, <1>1, <2>1, <3>1, <3>5 DEF ReplayFinds, SameResult
  <2>7. CASE reader.pc = "scan_list"
    <3>1. rest # {}
      BY <1>u, <2>5, <2>7
    <3> QED BY <1>1, <1>5, <2>1, <2>4, <2>5, <2>7, <3>1 DEF Undisturbed, SameCall
  <2>8. CASE reader.pc = "replay_list"
    BY <1>1, <1>5, <2>1, <2>4, <2>6, <2>8 DEF Undisturbed, SameCall
  <2> QED BY <1>u, <2>7, <2>8 DEF Listing
<1> QED BY <1>6, <1>7

\* Going on to the next segment of the scan, or to the replay.
LEMMA ScanOnU ==
  ASSUME TypeOK, ReaderInv, UInv, UNCHANGED vars, reader.pc = "scan", reader.todo # {},
         NEW P, Leaves(P, reader.state),
         \A n \in Nodes : P[n] # None => P[n] \in RootsOf(cells, n),
         \A n \in Nodes :
           /\ Found(n) = {} => P[n] = reader.positions[n]
           /\ Found(n) # {} => P[n] \in Found(n) /\ \A p \in Found(n) : ~Before(P[n], p)
  PROVE  UInv'
<1> USE DEF vars, content, segments, metadata
<1> SUFFICES ASSUME reader'.seen = {}
             PROVE  Undisturbed'
  BY DEF UInv
<1>l. /\ SameCall /\ SameHints /\ Continues /\ reader'.positions = P
      /\ reader'.todo = reader.todo \ {Current} /\ reader'.file_len = None
  BY DEF Leaves
<1>u. /\ ReaderTypeOK /\ ListInv /\ cells' = cells /\ dir' = dir /\ reader.targets \subseteq Nodes
      /\ reader.todo \subseteq SegIds /\ SegIds \subseteq Nat
  BY SegmentIdAssumption DEF ReaderInv, ReaderTypeOK, ReaderRecord, SegIds
<1>c. Current \in reader.todo /\ Current \in Nat /\ \A t \in reader.todo : Current <= t
  BY <1>u, CurrentIsLeast
<1>3. Undisturbed
  BY <1>l DEF UInv, SameCall
<1>4. StartPosition(reader') = StartPosition(reader)
  BY <1>l, SameStart
<1>p. reader'.pc \in {"scan", "replay_list"} /\ (reader'.pc = "replay_list" => reader'.todo = {})
  BY <1>l DEF Continues
<1>5. HintsValid' /\ TargetsKept' /\ SegmentsThere'
  BY <1>l, <1>p, <1>u, <1>3 DEF Undisturbed, HintsValid, TargetsKept, SegmentsThere, SameCall, SameHints, Looping
<1>6. ASSUME NEW n \in reader.targets
      PROVE  \E q \in RootsOf(cells, n) :
               /\ Kept(cells, dir, n, q)
               /\ StartPosition(reader) # None => ~Before(q, StartPosition(reader))
               /\ \/ q.seg \in reader.todo \ {Current}
                  \/ /\ \A s \in reader.todo \ {Current} : q.seg < s
                     /\ P[n] # None
                     /\ ~Before(P[n], q)
  <2>0. n \in Nodes
    BY <1>u
  <2>c. RootsOf(cells, n) \subseteq Position
    BY RecordFacts DEF TypeOK
  <2>1. PICK q \in RootsOf(cells, n) :
          /\ Kept(cells, dir, n, q)
          /\ StartPosition(reader) # None => ~Before(q, StartPosition(reader))
          /\ \/ q.seg \in reader.todo
             \/ /\ \A s \in reader.todo : q.seg < s
                /\ reader.positions[n] # None
                /\ ~Before(reader.positions[n], q)
    BY <1>3 DEF Undisturbed, ScanFinds
  <2>2. CASE q.seg \in reader.todo \ {Current}
    BY <2>1, <2>2
  <2>3. CASE q.seg = Current
    <3>1. q \in Found(n)
      BY <2>1, <2>3 DEF Found
    <3>2. P[n] \in Found(n) /\ ~Before(P[n], q)
      BY <2>0, <3>1
    <3>3. P[n] # None
      BY <2>c, <3>2, NoneAssumption DEF Found
    <3>4. ASSUME NEW s \in reader.todo \ {Current}
          PROVE  q.seg < s
      <4>1. s \in Nat /\ Current <= s /\ s # Current
        BY <1>c, <1>u
      <4> QED BY <1>c, <2>3, <4>1
    <3> QED BY <2>1, <3>2, <3>3, <3>4
  <2>4. CASE /\ \A s \in reader.todo : q.seg < s
             /\ reader.positions[n] # None
             /\ ~Before(reader.positions[n], q)
    <3>1. CASE Found(n) = {}
      BY <2>0, <2>1, <2>4, <3>1
    <3>2. CASE Found(n) # {}
      <4>1. P[n] \in Found(n)
        BY <2>0, <3>2
      <4>2. P[n] \in Position /\ P[n].seg = Current
        BY <2>c, <4>1 DEF Found
      <4>3. ~Before(P[n], q)
        BY <1>c, <2>1, <2>4, <2>c, <4>2, PositionFacts DEF Before
      <4> QED BY <2>1, <2>4, <4>2, <4>3, NoneAssumption
    <3> QED BY <3>1, <3>2
  <2> QED BY <2>1, <2>2, <2>3, <2>4
<1>7. CASE reader'.pc = "scan"
  <2>1. \A n \in reader'.targets : ScanFinds(n)'
    BY <1>4, <1>6, <1>l, <1>u DEF ScanFinds, SameCall
  <2> QED BY <1>5, <1>7, <2>1 DEF Undisturbed
<1>8. CASE reader'.pc = "replay_list"
  <2>1. ASSUME NEW n \in reader.targets
        PROVE  P[n] # None /\ Kept(cells, dir, n, P[n])
    <3>0. n \in Nodes
      BY <1>u
    <3>1. PICK q \in RootsOf(cells, n) : Kept(cells, dir, n, q) /\ P[n] # None /\ ~Before(P[n], q)
      BY <1>6, <1>8, <1>l, <1>p
    <3>2. RootsOf(cells, n) \subseteq Position
      BY RecordFacts DEF TypeOK
    <3>3. q \in Position /\ P[n] \in Position
      BY <3>0, <3>1, <3>2
    <3> QED BY <3>1, <3>3, LaterIsKept
  <2> QED BY <1>5, <1>8, <1>l, <1>u, <2>1 DEF Undisturbed, SameCall
<1> QED BY <1>p, <1>7, <1>8

\* No record is rejected: the first one applied is a checkpoint, and none
\* before one that is applied is missing.
LEMMA NothingRejected ==
  ASSUME TypeOK, ReaderInv, Undisturbed, reader.pc = "replay", reader.todo # {}, NEW n \in Nodes
  PROVE  ~MayReject(n)
<1> SUFFICES ASSUME MayReject(n)
             PROVE  FALSE
  OBVIOUS
<1> DEFINE more == Replayed(n)
<1>i. ReaderTypeOK /\ ListInv /\ HintInv
  BY DEF ReaderInv
<1>c. /\ Current \in reader.todo /\ Current \in SegIds /\ Current \in Nat
      /\ \A t \in reader.todo : Current <= t /\ t <= reader.last
  BY <1>i, CurrentIsLeast DEF ListInv, Looping
<1>t. /\ reader.todo \subseteq Nat /\ reader.last \in Nat /\ reader.positions \in CheckpointIndex
  BY <1>i, SegmentIdAssumption DEF ReaderTypeOK, ReaderRecord, SegIds
<1>r. /\ AllOf(cells, n) \subseteq Position /\ RootsOf(cells, n) \subseteq AllOf(cells, n)
      /\ \A p \in RootsOf(cells, n) : CellAt(cells, p).checkpoint
      /\ \A p \in AllOf(cells, n) : p.seg \in Nat /\ p.off \in Nat
  BY RecordFacts DEF TypeOK
<1>1. more = { p \in AllOf(cells, n) :
                 /\ p.seg = Current /\ n \in reader.targets
                 /\ reader.positions[n] # None => ~Before(p, reader.positions[n]) }
  <2>1. RecordsOf(cells, {Current}, n) = { p \in AllOf(cells, n) : p.seg = Current }
    BY <1>c, InSegment
  <2> QED BY <2>1 DEF Replayed
<1>2. /\ more # {} /\ ~CellAt(cells, Earliest(more)).checkpoint
      /\ \/ reader.state[n] = {}
         \/ \E p \in AllOf(cells, n) : Before(Latest(reader.state[n]), p) /\ Before(p, Earliest(more))
  BY DEF MayReject, AllOf
<1> HIDE DEF more
<1>3. n \in reader.targets /\ more \in SUBSET Position
  BY <1>1, <1>2, <1>r
<1>4. Earliest(more) \in more /\ \A p \in more : ~Before(p, Earliest(more))
  BY <1>2, <1>3, EarliestExists
<1>5. ReplayFinds(n)
  BY <1>3 DEF Undisturbed
<1> DEFINE q == reader.positions[n]
<1>6. q # None /\ q \in RootsOf(cells, n) /\ q \in Position /\ q \in AllOf(cells, n)
  BY <1>5, <1>i, <1>r DEF ReplayFinds, HintInv
<1>7. CASE reader.state[n] = {} /\ Pending(cells, reader.todo, reader.last, n, q)
  <2>1. Earliest(more).seg = Current /\ ~Before(Earliest(more), q) /\ Earliest(more) \in AllOf(cells, n)
    BY <1>1, <1>4, <1>6
  <2>2. q.seg \in Nat /\ q.seg <= Current
    BY <1>c, <1>r, <1>6, <2>1 DEF Before
  <2>3. q.seg = Current
    BY <1>c, <1>7, <2>2 DEF Pending
  <2>4. q \in more
    BY <1>1, <1>3, <1>6, <2>3, BeforeIsOrder
  <2>5. Earliest(more) = q
    BY <1>3, <1>4, <1>6, <2>1, <2>4, BeforeIsOrder
  <2> QED BY <1>2, <1>6, <1>r, <2>5
<1>8. ASSUME NEW x \in RootsOf(cells, n), ~Before(x, q),
             Applied(cells, reader.state[n], reader.todo, reader.last, n, x)
      PROVE  FALSE
  <2> DEFINE S == reader.state[n]
  <2>1. /\ x \in S /\ S \in SUBSET AllOf(cells, n) /\ S # {}
        /\ \A p \in S : ~Before(p, x)
        /\ \A p \in AllOf(cells, n) : ~Before(p, x) /\ p.seg <= reader.last => p.seg \in reader.todo \/ p \in S
    BY <1>8 DEF Applied
  <2>2. Latest(S) \in S /\ \A p \in S : ~Before(Latest(S), p)
    <3> HIDE DEF S
    <3> QED BY <2>1, LatestOfRecords
  <2>3. PICK p \in AllOf(cells, n) : Before(Latest(S), p) /\ Before(p, Earliest(more))
    BY <1>2, <2>1
  <2> HIDE DEF S
  <2>4. /\ Latest(S) \in Position /\ p \in Position /\ x \in Position /\ Earliest(more) \in Position
        /\ p.seg \in Nat /\ Earliest(more).seg = Current
    BY <1>1, <1>3, <1>4, <1>8, <1>r, <2>1, <2>2
  <2>5. ~Before(p, x)
    BY <2>1, <2>2, <2>3, <2>4, BeforeIsOrder
  <2>6. p.seg <= Current
    BY <1>c, <2>3, <2>4 DEF Before
  <2>7. p.seg <= reader.last
    BY <1>c, <1>t, <2>4, <2>6
  <2>8. p \notin S
    BY <2>2, <2>3
  <2>9. p.seg = Current
    BY <1>c, <2>1, <2>4, <2>5, <2>6, <2>7, <2>8
  <2>10. ~Before(p, q)
    BY <1>6, <1>8, <2>4, <2>5, NotBeforeTransitive
  <2>11. p \in more
    BY <1>1, <1>3, <2>9, <2>10
  <2> QED BY <1>4, <2>3, <2>11
<1> QED BY <1>5, <1>7, <1>8 DEF ReplayFinds

\* Going on to the next segment of the replay.
LEMMA ReplayOnU ==
  ASSUME TypeOK, ReaderInv, UInv, UNCHANGED vars, reader.pc = "replay", reader.todo # {},
         NEW S, Leaves(reader.positions, S),
         \A n \in reader.targets :
           S[n] = Fold(reader.state[n],
                       { p \in AllOf(cells, n) :
                           p.seg = Current /\ (reader.positions[n] # None => ~Before(p, reader.positions[n])) })
  PROVE  UInv'
<1> USE DEF vars, content, segments, metadata
<1> SUFFICES ASSUME reader'.seen = {}
             PROVE  Undisturbed'
  BY DEF UInv
<1>l. /\ SameCall /\ SameHints /\ Continues /\ reader'.positions = reader.positions /\ reader'.state = S
      /\ reader'.todo = reader.todo \ {Current} /\ reader'.last = reader.last /\ reader'.file_len = None
  BY DEF Leaves
<1>u. /\ ReaderTypeOK /\ ListInv /\ HintInv /\ cells' = cells /\ dir' = dir
      /\ reader.targets \subseteq Nodes /\ reader.todo \in SUBSET SegIds /\ reader.last \in SegIds
  BY DEF ReaderInv, ReaderTypeOK, ReaderRecord
<1>c. /\ Current \in reader.todo /\ Current \in Nat
      /\ \A t \in reader.todo : Current <= t /\ t <= reader.last
  BY <1>u, CurrentIsLeast DEF ListInv, Looping
<1>3. Undisturbed
  BY <1>l DEF UInv, SameCall
<1>p. reader'.pc \in {"replay", "ok"}
  BY <1>l DEF Continues
<1>5. HintsValid' /\ TargetsKept' /\ SegmentsThere'
  BY <1>l, <1>p, <1>u, <1>3 DEF Undisturbed, HintsValid, TargetsKept, SegmentsThere, SameCall, SameHints, Looping
<1>6. ASSUME NEW n \in reader.targets
      PROVE  ReplayFinds(n)'
  <2> DEFINE q == reader.positions[n]
             R == { p \in AllOf(cells, n) : p.seg = Current /\ (q # None => ~Before(p, q)) }
  <2>r. /\ AllOf(cells, n) \subseteq Position /\ RootsOf(cells, n) \subseteq AllOf(cells, n)
        /\ \A p \in AllOf(cells, n) : p.seg \in Nat /\ p.off \in Nat
    BY RecordFacts DEF TypeOK
  <2>1. ReplayFinds(n)
    BY <1>3 DEF Undisturbed
  <2>2. q # None /\ q \in RootsOf(cells, n) /\ q \in Position /\ q \in AllOf(cells, n)
    BY <1>u, <2>1, <2>r DEF ReplayFinds, HintInv
  <2>3. S[n] = Fold(reader.state[n], R)
    OBVIOUS
  <2>4. R = { p \in AllOf(cells, n) : p.seg = Current /\ (q # None => ~Before(p, q)) }
    OBVIOUS
  <2> HIDE DEF R
  <2>5. CASE reader.state[n] = {} /\ Pending(cells, reader.todo, reader.last, n, q) /\ q.seg # Current
    <3>1. q.seg \in reader.todo \ {Current}
      BY <2>5 DEF Pending
    <3>2. \A p \in AllOf(cells, n) : ~Before(p, q) => p.seg # Current
      BY <1>c, <2>2, <2>r, <3>1 DEF Before
    <3>3. R = {}
      BY <2>2, <2>4, <3>2
    <3>4. S[n] = {}
      BY <2>3, <2>5, <3>3 DEF Fold
    <3>5. Pending(cells, reader.todo \ {Current}, reader.last, n, q)
      BY <2>5, <3>1, <3>2 DEF Pending
    <3> QED BY <1>l, <1>u, <2>2, <3>4, <3>5 DEF ReplayFinds
  <2>6. ASSUME NEW x \in RootsOf(cells, n), ~Before(x, q), x.seg <= reader.last,
               \/ x.seg = Current /\ Pending(cells, reader.todo, reader.last, n, x)
               \/ Applied(cells, reader.state[n], reader.todo, reader.last, n, x)
        PROVE  ReplayFinds(n)'
    <3>1. \E r \in RootsOf(cells, n) :
            /\ ~Before(r, x) /\ r.seg <= reader.last
            /\ q # None => ~Before(r, q)
            /\ \/ x.seg # Current /\ r = x /\ Pending(cells, reader.todo \ {Current}, reader.last, n, r)
               \/ Applied(cells, Fold(reader.state[n], R), reader.todo \ {Current}, reader.last, n, r)
      BY <1>c, <1>u, <2>2, <2>4, <2>6, FoldStep
    <3>2. PICK r \in RootsOf(cells, n) :
            /\ ~Before(r, q) /\ r.seg <= reader.last
            /\ \/ x.seg # Current /\ r = x /\ Pending(cells, reader.todo \ {Current}, reader.last, n, r)
               \/ Applied(cells, Fold(reader.state[n], R), reader.todo \ {Current}, reader.last, n, r)
      BY <2>2, <3>1
    <3>3. Applied(cells, S[n], reader.todo \ {Current}, reader.last, n, r)
      <4>1. CASE Applied(cells, Fold(reader.state[n], R), reader.todo \ {Current}, reader.last, n, r)
        BY <2>3, <4>1
      <4>2. CASE x.seg # Current /\ r = x /\ Pending(cells, reader.todo \ {Current}, reader.last, n, r)
        <5>1. x.seg \in reader.todo \ {Current} /\ x \in reader.state[n] /\ \A s \in reader.todo : x.seg < s
          BY <2>6, <4>2 DEF Pending, Applied
        <5>2. x.seg \in Nat
          BY <2>6, <2>r
        <5> QED BY <5>1, <5>2
      <4> QED BY <3>2, <4>1, <4>2
    <3> QED BY <1>l, <1>u, <2>2, <3>2, <3>3 DEF ReplayFinds
  <2>7. CASE Pending(cells, reader.todo, reader.last, n, q) /\ q.seg = Current
    <3>1. q.seg <= reader.last /\ ~Before(q, q)
      BY <1>c, <2>2, <2>7, BeforeIsOrder
    <3> QED BY <2>2, <2>6, <2>7, <3>1
  <2> QED BY <2>1, <2>5, <2>6, <2>7 DEF ReplayFinds
<1> QED BY <1>5, <1>6, <1>l, <1>p DEF Undisturbed, SameCall

\* What can make a loop over records fail has not happened.
LEMMA NothingFails ==
  ASSUME Undisturbed, reader.seen = {}, reader.pc \in Looping, reader.file_len # None
  PROVE  ~MayFail
BY DEF Undisturbed, SegmentsThere, MayFail

LEMMA OpenU ==
  ASSUME TypeOK, Sound, ReaderInv, UInv, OpenSegment
  PROVE  UInv'
<1> USE DEF vars, content, segments, metadata
<1>i. /\ ReaderTypeOK /\ ListInv /\ HintInv /\ UNCHANGED vars /\ cells' = cells /\ dir' = dir
      /\ checkpoints_json' = checkpoints_json
  BY DEF ReaderInv, OpenSegment
<1>1. reader.pc \in Looping /\ reader.todo # {} /\ reader.file_len = None
  BY DEF OpenSegment, Looping
<1>c. /\ Current \in reader.todo /\ Current \in SegIds /\ Current \in Nat
      /\ Current <= reader.last /\ reader.last \in reader.todo
  BY <1>i, <1>1, CurrentIsLeast DEF ListInv
<1>t. cells \in [SegIds -> Seq(Cell)] /\ Len(cells[Current]) \in Nat /\ reader.last \in Nat
  BY <1>i, <1>c, SegmentIdAssumption DEF TypeOK, ReaderTypeOK, ReaderRecord, SegIds
<1> SUFFICES ASSUME reader'.seen = {}
             PROVE  Undisturbed'
  BY DEF UInv
<1>2. reader.seen = {}
  BY <1>i, OpenFields, FailFields DEF Leaves, SameCall
<1>3. Undisturbed
  BY <1>2 DEF UInv
<1>4. Current \in dir /\ (Current # reader.last => cells[Current] # <<>> /\ tail[Current] # "torn")
  <2>1. Current \in dir /\ reader.last \in dir
    BY <1>1, <1>3, <1>c DEF Undisturbed, SegmentsThere
  <2>2. Current # reader.last => Current < reader.last
    BY <1>c, <1>t
  <2> QED BY <2>1, <2>2 DEF Sound, Complete
<1>5. CASE cells[Current] = <<>> /\ Leaves(reader.positions, reader.state)
  <2>1. \A n : \A p \in AllOf(cells, n) : p.seg # Current
    <3>1. \A n : \A p \in AllOf(cells, n) : cells[p.seg] # <<>>
      BY <1>t, RecordFacts
    <3> QED BY <1>5, <3>1
  <2>2. CASE reader.pc = "scan"
    <3>1. \A n \in Nodes : Found(n) = {}
      BY <2>1 DEF Found, RootsOf, AllOf, CheckpointsOf
    <3>2. \A n \in Nodes : reader.positions[n] # None => reader.positions[n] \in RootsOf(cells, n)
      BY <1>i DEF HintInv
    <3>3. UInv'
      BY <1>i, <1>1, <1>5, <2>2, <3>1, <3>2, ScanOnU
    <3> QED BY <3>3 DEF UInv
  <2>3. CASE reader.pc = "replay"
    <3>1. ASSUME NEW n \in reader.targets
          PROVE  reader.state[n] = Fold(reader.state[n],
                   { p \in AllOf(cells, n) :
                       p.seg = Current /\ (reader.positions[n] # None => ~Before(p, reader.positions[n])) })
      <4>1. { p \in AllOf(cells, n) :
                p.seg = Current /\ (reader.positions[n] # None => ~Before(p, reader.positions[n])) } = {}
        BY <2>1
      <4> QED BY <4>1 DEF Fold
    <3>2. UInv'
      BY <1>i, <1>1, <1>5, <2>3, <3>1, ReplayOnU
    <3> QED BY <3>2 DEF UInv
  <2> QED BY <1>1, <2>2, <2>3 DEF Looping
<1>6. CASE /\ SameCall /\ SameHints /\ SameLoop /\ SameResult /\ reader'.pc = reader.pc
           /\ reader'.file_len = Len(cells[Current]) + (IF tail[Current] = "torn" THEN 1 ELSE 0)
  <2>1. StartPosition(reader') = StartPosition(reader) /\ Current' = Current
    BY <1>6, SameStart DEF Current, SameLoop
  <2>2. HintsValid' /\ TargetsKept'
    BY <1>i, <1>3, <1>6 DEF Undisturbed, HintsValid, TargetsKept, SameCall, SameHints
  <2>3. Len(cells[Current]) <= reader'.file_len /\ (tail[Current] # "torn" => reader'.file_len = Len(cells[Current]))
    <3>1. CASE tail[Current] = "torn"
      BY <1>6, <1>t, <3>1
    <3>2. CASE tail[Current] # "torn"
      BY <1>6, <1>t, <3>2
    <3> QED BY <3>1, <3>2
  <2>4. ASSUME StartPosition(reader) # None, StartPosition(reader).seg = Current
        PROVE  StartPosition(reader).off <= reader'.file_len
    <3>1. reader.targets # {} /\ reader.hints \in CheckpointIndex /\ reader.targets \subseteq Nodes
      BY <1>i, <1>1 DEF ReaderInv, TargetInv, ReaderTypeOK, ReaderRecord, Looping
    <3>2. PICK n \in reader.targets : reader.hints[n] = StartPosition(reader)
      BY <1>i, <2>4, <3>1, OldestFacts DEF StartPosition, ReaderTypeOK
    <3>3. StartPosition(reader) \in RootsOf(cells, n)
      BY <1>i, <1>1, <2>4, <3>1, <3>2 DEF HintInv
    <3>4. StartPosition(reader).off < Len(cells[Current]) /\ StartPosition(reader).off \in Nat
      BY <1>t, <2>4, <3>3, RecordFacts
    <3>5. reader'.file_len \in Nat
      <4>1. CASE tail[Current] = "torn"
        BY <1>6, <1>t, <4>1
      <4>2. CASE tail[Current] # "torn"
        BY <1>6, <1>t, <4>2
      <4> QED BY <4>1, <4>2
    <3> QED BY <1>t, <2>3, <3>4, <3>5
  <2>5. SegmentsThere'
    <3>1. reader'.todo \subseteq dir'
      BY <1>1, <1>3, <1>6, <1>i DEF Undisturbed, SegmentsThere, SameLoop
    <3>2. Current # reader.last => Len(cells[Current]) = reader'.file_len
      BY <1>4, <2>3
    <3> QED BY <1>6, <1>i, <2>1, <2>4, <3>1, <3>2 DEF SegmentsThere, SameLoop
  <2>6. reader.pc = "scan" => \A n \in reader.targets : ScanFinds(n)'
    BY <1>3, <1>6, <1>i, <2>1 DEF Undisturbed, ScanFinds, SameLoop, SameResult
  <2>7. reader.pc = "replay" => \A n \in reader.targets : ReplayFinds(n)'
    BY <1>3, <1>6, <1>i DEF Undisturbed, ReplayFinds, SameLoop, SameResult
  <2> QED BY <1>1, <1>6, <2>2, <2>5, <2>6, <2>7 DEF Undisturbed, SameCall, Looping
<1> QED BY <1>4, <1>5, <1>6, <1>i, OpenFields

LEMMA ScanU ==
  ASSUME TypeOK, ReaderInv, UInv, ScanSegment
  PROVE  UInv'
<1> USE DEF vars, content, segments, metadata
<1>i. ReaderTypeOK /\ HintInv /\ ListInv /\ UNCHANGED vars
  BY DEF ReaderInv, ScanSegment
<1>1. reader.pc = "scan" /\ reader.todo # {} /\ reader.file_len # None
  BY <1>i, ScanFields
<1>2. CASE /\ Fails
           /\ \/ MayFail
              \/ /\ StartPosition(reader) # None /\ StartPosition(reader).seg = Current
                 /\ reader.file_len < StartPosition(reader).off
  <2> SUFFICES ASSUME reader'.seen = {}
               PROVE  FALSE
    BY DEF UInv
  <2>1. reader.seen = {} /\ Undisturbed
    BY <1>2, <1>i, FailFields DEF SameCall, UInv
  <2>2. ~MayFail
    BY <1>1, <2>1, NothingFails DEF Looping
  <2>3. /\ StartPosition(reader) # None /\ StartPosition(reader).seg = Current
        /\ reader.file_len < StartPosition(reader).off
    BY <1>2, <2>2
  <2>4. StartPosition(reader).off <= reader.file_len
    BY <1>1, <2>1, <2>3 DEF Undisturbed, SegmentsThere, Looping
  <2>5. StartPosition(reader) \in Position /\ reader.file_len \in Nat
    <3>1. reader.targets # {} /\ reader.hints \in CheckpointIndex
      BY <1>i, <1>1 DEF ReaderInv, TargetInv, ReaderTypeOK, ReaderRecord
    <3>2. StartPosition(reader) \in Position \cup {None}
      BY <1>i, <3>1, OldestFacts DEF StartPosition, ReaderTypeOK
    <3>3. reader.file_len \in Nat
      BY <1>i, <1>1 DEF ReaderTypeOK, ReaderRecord
    <3> QED BY <2>3, <3>2, <3>3
  <2>6. StartPosition(reader).off \in Nat
    BY <2>5, PositionFacts
  <2> QED BY <2>3, <2>4, <2>5, <2>6
<1>3. ASSUME NEW P \in CheckpointIndex, Leaves(P, reader.state),
             \A n \in Nodes :
               /\ Found(n) = {} => P[n] = reader.positions[n]
               /\ Found(n) # {} => P[n] \in Found(n) /\ \A p \in Found(n) : ~Before(P[n], p)
      PROVE  UInv'
  <2>1. \A n \in Nodes : P[n] # None => P[n] \in RootsOf(cells, n)
    BY <1>i, <1>3 DEF HintInv, Found
  <2> QED BY <1>i, <1>1, <1>3, <2>1, ScanOnU
<1> QED BY <1>2, <1>3, <1>i, ScanFields

LEMMA ReplayU ==
  ASSUME TypeOK, ReaderInv, UInv, ReplaySegment
  PROVE  UInv'
<1> USE DEF vars, content, segments, metadata
<1>i. ReaderTypeOK /\ ListInv /\ UNCHANGED vars
  BY DEF ReaderInv, ReplaySegment
<1>1. reader.pc = "replay" /\ reader.todo # {} /\ reader.file_len # None
  BY <1>i, ReplayFields
<1>2. CASE Fails /\ (MayFail \/ \E n \in Nodes : MayReject(n))
  <2> SUFFICES ASSUME reader'.seen = {}
               PROVE  FALSE
    BY DEF UInv
  <2>1. reader.seen = {} /\ Undisturbed
    BY <1>2, <1>i, FailFields DEF SameCall, UInv
  <2>2. ~MayFail
    BY <1>1, <2>1, NothingFails DEF Looping
  <2>3. \A n \in Nodes : ~MayReject(n)
    BY <1>1, <2>1, NothingRejected
  <2> QED BY <1>2, <2>2, <2>3
<1>3. ASSUME NEW S \in [Nodes -> SUBSET Position], Leaves(reader.positions, S),
             \A n \in Nodes : S[n] = Fold(reader.state[n], Replayed(n))
      PROVE  UInv'
  <2>1. ASSUME NEW n \in reader.targets
        PROVE  S[n] = Fold(reader.state[n],
                 { p \in AllOf(cells, n) :
                     p.seg = Current /\ (reader.positions[n] # None => ~Before(p, reader.positions[n])) })
    <3>1. n \in Nodes /\ Current \in SegIds
      BY <1>i, <1>1, CurrentIsLeast DEF ReaderTypeOK, ReaderRecord
    <3>2. RecordsOf(cells, {Current}, n) = { p \in AllOf(cells, n) : p.seg = Current }
      BY <3>1, InSegment
    <3>3. Replayed(n) = { p \in AllOf(cells, n) :
                            p.seg = Current /\ (reader.positions[n] # None => ~Before(p, reader.positions[n])) }
      BY <3>2 DEF Replayed
    <3> QED BY <1>3, <3>1, <3>3
  <2> QED BY <1>i, <1>1, <1>3, <2>1, ReplayOnU
<1> QED BY <1>2, <1>3, <1>i, ReplayFields

\* Whatever index is on disk after a step of the writer, its entries are valid.
LEMMA IndexStaysValid ==
  ASSUME IInv, TypeOK', RetainInv, Next, ~PowerLoss, Grows, dir \subseteq dir', NEW n \in Nodes,
         checkpoints_json[n] # None => validate_checkpoint_position(cells, dir, n, checkpoints_json[n]),
         checkpoints_json'[n] # None
  PROVE  validate_checkpoint_position(cells', dir', n, checkpoints_json'[n])
<1> USE DEF content, segments, metadata, memory, writer, call
<1>i. TypeOK /\ RecordInv /\ IndexInv /\ OpInv
  BY DEF IInv
<1>t. checkpoints_json' \in CheckpointIndex /\ checkpoint_index \in CheckpointIndex
  BY <1>i DEF TypeOK
<1>p. checkpoints_json'[n] \in Position
  BY <1>t DEF CheckpointIndex
<1>1. CASE IndexReplace
  <2>1. pc = "index_replace" /\ checkpoints_json' = NewIndex
    BY <1>1 DEF IndexReplace
  <2>2. pc \in Loaded /\ op.kind \in {"create_node", "save_snapshot", "remove_node"}
    BY <1>i, <2>1 DEF OpInv, Loaded, Recovered, Locations
  <2>3. CASE n = op.node
    <3>1. op.kind # "remove_node" /\ checkpoints_json'[n] = record_position
      BY <1>t, <2>1, <2>3 DEF NewIndex, CheckpointIndex
    <3>2. validate_checkpoint_position(cells, dir, n, checkpoints_json'[n])
      BY <1>i, <2>1, <2>2, <2>3, <3>1 DEF RecordInv
    <3> QED BY <1>p, <3>2, ValidStays
  <2>4. CASE n # op.node
    <3>1. checkpoints_json'[n] = checkpoint_index[n]
      BY <1>t, <2>1, <2>4 DEF NewIndex, CheckpointIndex
    <3>2. registry[n] = "active"
      BY <2>2, <2>4, <3>1 DEF RetainInv
    <3>3. validate_checkpoint_position(cells, dir, n, checkpoints_json'[n])
      BY <1>i, <2>2, <3>1, <3>2 DEF IndexInv, GoodEntry
    <3> QED BY <1>p, <3>3, ValidStays
  <2> QED BY <2>3, <2>4
<1>2. CASE LoseIndex
  BY <1>2 DEF LoseIndex, NoIndex
<1>3. CASE ~IndexReplace /\ ~LoseIndex
  <2>1. checkpoints_json' = checkpoints_json
    BY <1>3 DEF Next, Open, Begin, Proceed, AppendSteps, Fault, OpenRecover, OpenLoad, OpenExisting, OpenCreate,
       OpenMagic, OpenDir, CreateNode, SaveRecord, SaveSnapshot, RemoveNode, BeginAppend, Sync, RotateSync,
       RotateFails, RotateCreate, RotateMagic, RotateDir, Write, AppendSync, SyncCall, WriterSync, IndexDir,
       RegistryReplace, RegistryDir, GcStart, GcDelete, GcDir, Return, Close, ProcessCrash, vars
  <2> QED BY <1>p, <2>1, ValidStays
<1> QED BY <1>1, <1>2, <1>3

LEMMA WriterU ==
  ASSUME IInv, IInv', RetainInv, ReaderInv, UInv, WriterStep
  PROVE  UInv'
<1>i. TypeOK /\ TypeOK' /\ ReaderTypeOK /\ ListInv
  BY DEF IInv, ReaderInv
<1>1. CASE reader' = NoReader
  BY <1>1, NoReaderU
<1>2. CASE reader' # NoReader
  <2> SUFFICES ASSUME reader'.seen = {}
               PROVE  Undisturbed'
    BY DEF UInv
  <2>1. /\ Next /\ ~PowerLoss /\ reader.pc # "none"
        /\ SameHints /\ SameLoop /\ SameResult
        /\ reader'.pc = reader.pc /\ reader'.file_len = reader.file_len
        /\ reader'.targets = reader.targets
        /\ reader.seen = {} /\ dir \subseteq dir'
    BY <1>2, <1>i, WriterFields
  <2>2. Grows
    BY <2>1, WriterGrows
  <2>3. Undisturbed
    BY <2>1 DEF UInv
  <2>4. \A n : RootsOf(cells, n) \subseteq RootsOf(cells', n)
    BY <1>i, <2>2, RecordsGrow
  <2>5. \A n, q : Kept(cells, dir, n, q) => Kept(cells', dir', n, q)
    BY <1>i, <2>1, <2>2, KeptStays
  <2>6. StartPosition(reader') = StartPosition(reader) /\ Current' = Current
    BY <2>1 DEF StartPosition, Oldest, Current, SameHints, SameLoop
  <2>7. HintsValid'
    <3>1. ASSUME reader.pc = "index", NEW n \in reader.indexed, checkpoints_json'[n] # None
          PROVE  validate_checkpoint_position(cells', dir', n, checkpoints_json'[n])
      <4>1. n \in Nodes
        BY <1>i DEF ReaderTypeOK, ReaderRecord
      <4>2. checkpoints_json[n] # None => validate_checkpoint_position(cells, dir, n, checkpoints_json[n])
        BY <2>3, <3>1 DEF Undisturbed, HintsValid
      <4> QED BY <1>i, <2>1, <2>2, <3>1, <4>1, <4>2, IndexStaysValid
    <3>2. ASSUME NEW n \in Nodes, reader.hints[n] # None
          PROVE  validate_checkpoint_position(cells', dir', n, reader.hints[n])
      <4>1. reader.hints[n] \in Position
        BY <1>i, <3>2 DEF ReaderTypeOK, ReaderRecord, CheckpointIndex
      <4>2. validate_checkpoint_position(cells, dir, n, reader.hints[n])
        BY <2>3, <3>2 DEF Undisturbed, HintsValid
      <4> QED BY <1>i, <2>1, <2>2, <4>1, <4>2, ValidStays
    <3> QED BY <2>1, <3>1, <3>2 DEF HintsValid, SameHints
  <2>8. TargetsKept'
    BY <2>1, <2>3, <2>4, <2>5 DEF Undisturbed, TargetsKept
  <2>9. SegmentsThere'
    <3> SUFFICES ASSUME reader.pc \in Looping
                 PROVE  SegmentsThere'
      BY <2>1 DEF SegmentsThere
    <3>1. reader.todo \subseteq dir /\ dir \subseteq dir'
      BY <2>1, <2>3 DEF Undisturbed, SegmentsThere
    <3>2. /\ Current \in reader.todo /\ Current \in SegIds /\ Current \in Nat /\ reader.last \in Nat
          /\ reader.last \in dir /\ Current <= reader.last
      BY <1>i, <3>1, CurrentIsLeast, SegmentIdAssumption DEF ListInv, ReaderTypeOK, ReaderRecord, SegIds
    <3>3. Current # reader.last => cells'[Current] = cells[Current]
      BY <2>2, <3>2 DEF Grows
    <3> QED BY <2>1, <2>3, <2>6, <3>1, <3>3 DEF Undisturbed, SegmentsThere, SameLoop
  <2>10. ASSUME reader.pc = "scan", NEW n \in reader.targets
         PROVE  ScanFinds(n)'
    <3>1. ScanFinds(n)
      BY <2>3, <2>10 DEF Undisturbed
    <3> QED BY <2>1, <2>4, <2>5, <2>6, <3>1 DEF ScanFinds, SameLoop, SameResult
  <2>11. ASSUME reader.pc = "replay", NEW n \in reader.targets
         PROVE  ReplayFinds(n)'
    <3>1. ReplayFinds(n)
      BY <2>3, <2>11 DEF Undisturbed
    <3>2. /\ reader.todo \in SUBSET SegIds /\ reader.last \in reader.todo
          /\ \E t \in dir : reader.last <= t
      BY <1>i, <2>1, <2>11 DEF ListInv, Looping, ReaderTypeOK, ReaderRecord
    <3>3. n \in Nodes /\ (reader.positions[n] # None => reader.positions[n] \in RootsOf(cells, n))
      BY <1>i DEF ReaderInv, HintInv, ReaderTypeOK, ReaderRecord
    <3>4. \A q \in RootsOf(cells, n) :
            /\ Pending(cells, reader.todo, reader.last, n, q) => Pending(cells', reader.todo, reader.last, n, q)
            /\ Applied(cells, reader.state[n], reader.todo, reader.last, n, q) =>
                 Applied(cells', reader.state[n], reader.todo, reader.last, n, q)
      BY <1>i, <2>2, <3>2, OnCourseStays
    <3> QED BY <2>1, <2>4, <3>1, <3>3, <3>4 DEF ReplayFinds, SameLoop, SameResult
  <2>12. reader.pc = "replay_list" =>
           \A n \in reader.targets : reader.positions[n] # None /\ Kept(cells', dir', n, reader.positions[n])
    BY <2>3, <2>5 DEF Undisturbed
  <2> QED BY <2>1, <2>3, <2>7, <2>8, <2>9, <2>10, <2>11, <2>12 DEF Undisturbed, SameResult
<1> QED BY <1>1, <1>2

LEMMA UndisturbedStep ==
  ASSUME IInv, IInv', RootedInv, RetainInv, Sound, ReaderInv, UInv, [ReaderNext]_rvars
  PROVE  UInv'
<1>i. TypeOK
  BY DEF IInv
<1>1. CASE WriterStep
  BY <1>1, WriterU
<1>2. CASE ReadRegistry
  BY <1>2, ReadRegistryU
<1>3. CASE ReadIndex
  BY <1>3, <1>i, ReadIndexU
<1>4. CASE Validate
  BY <1>4, <1>i, ValidateU
<1>5. CASE List
  BY <1>5, <1>i, ListU
<1>6. CASE OpenSegment
  BY <1>6, <1>i, OpenU
<1>7. CASE ScanSegment
  BY <1>7, <1>i, ScanU
<1>8. CASE ReplaySegment
  BY <1>8, <1>i, ReplayU
<1>9. CASE Drop
  BY <1>9, NoReaderU DEF Drop
<1>10. CASE UNCHANGED rvars
  <2>1. reader' = reader /\ cells' = cells /\ dir' = dir /\ checkpoints_json' = checkpoints_json
    BY <1>10 DEF rvars, vars, segments, content, metadata
  <2>2. Current' = Current
    BY <2>1 DEF Current
  <2> QED BY <2>1, <2>2 DEF UInv, Undisturbed, HintsValid, TargetsKept, SegmentsThere, ScanFinds, ReplayFinds
<1> QED BY <1>1, <1>2, <1>3, <1>4, <1>5, <1>6, <1>7, <1>8, <1>9, <1>10 DEF ReaderNext, Read

LEMMA UndisturbedInvariance == OneFault => (ReaderSpec => []UInv)
<1> SUFFICES ASSUME OneFault
             PROVE  ReaderSpec => []UInv
  OBVIOUS
<1>1. ReaderInit => UInv
  <2> SUFFICES ASSUME ReaderInit
               PROVE  UInv
    OBVIOUS
  <2>1. reader.pc = "none" /\ \A n \in Nodes : reader.hints[n] = None
    BY NoReaderFields DEF ReaderInit, NoIndex
  <2>2. HintsValid /\ TargetsKept /\ SegmentsThere
    BY <2>1 DEF HintsValid, TargetsKept, SegmentsThere, Looping
  <2> QED BY <2>1, <2>2 DEF UInv, Undisturbed
<1>2. IInv /\ IInv' /\ RootedInv /\ RetainInv /\ Sound /\ ReaderInv /\ UInv /\ [ReaderNext]_rvars => UInv'
  BY UndisturbedStep
<1>3. Spec => []Sound
  BY SoundInvariance
<1> QED BY <1>1, <1>2, <1>3, WriterIsSpec, Invariance, ActiveNodesAreRooted, RetainInvariance, ReaderInvariance, PTL
        DEF ReaderSpec

\* Appends, rotations, new versions of the JSON files, the loss of the index
\* and a crash of the writer's process do not make load or load_all of a
\* ReadOnlyStorage fail: a read that returns an error has met a collection, a
\* recovery that cut off a partial frame, or a directory that changed in the
\* middle of a listing.  With process crashes and power losses together this
\* fails: a directory may then hold what no recovery repairs.
THEOREM ReadsFailOnlyIfDisturbed == OneFault => (ReaderSpec => []ReadFailsOnlyIfDisturbed)
<1> SUFFICES ASSUME OneFault
             PROVE  ReaderSpec => []ReadFailsOnlyIfDisturbed
  OBVIOUS
<1>1. UInv => ReadFailsOnlyIfDisturbed
  BY DEF UInv, Undisturbed, ReadFailsOnlyIfDisturbed
<1>2. ReaderSpec => []UInv
  BY UndisturbedInvariance
<1> QED BY <1>1, <1>2, PTL
===============================================================================
