--------------------------- MODULE MetadataFileProofs ---------------------------
(***************************************************************************)
(* The saves of nodes.json and checkpoints.json are atomic, for every set  *)
(* of versions and every length of their texts, however often a process    *)
(* crash or a power loss interrupts them.                                  *)
(***************************************************************************)
EXTENDS MetadataFile, TLAPS

Texts == { Text(v) : v \in Versions }

\* What the JSON file can be, under its current and under its stable name.
FileInv ==
  /\ file \in Texts \cup {Absent}
  /\ old_file \in Texts \cup {Absent}
  /\ file_synced = TRUE

\* How far the save in progress has come.
SaveInv ==
  /\ pc \in {"idle", "write", "sync", "rename", "dir"}
  /\ pc # "idle" => version \in Versions
  /\ pc = "write" =>
       /\ written \in Nat /\ written < Size[version]
       /\ tmp = [i \in 1 .. written |-> <<version, i>>]
  /\ pc \in {"sync", "rename"} => tmp = Text(version)
  /\ pc = "rename" => tmp_synced = TRUE
  /\ pc = "dir" => file = Text(version)

\* FileInv and SaveInv are inductive together; NoOldVersionReturns rests on
\* them.
MInv == FileInv /\ SaveInv /\ NoOldVersionReturns

\* A text determines its version, so that parsing inverts formatting.
LEMMA LoadText ==
  /\ load(Absent) = Absent
  /\ \A v \in Versions : load(Text(v)) = v
<1>1. ASSUME NEW u \in Versions, NEW v \in Versions, Text(u) = Text(v)
      PROVE  u = v
  <2>1. 1 \in 1 .. Size[u] /\ 1 \in 1 .. Size[v]
    BY SizeAssumption
  <2>2. Text(u)[1] = <<u, 1>> /\ Text(v)[1] = <<v, 1>>
    BY <2>1 DEF Text
  <2>3. <<u, 1>> = <<v, 1>>
    BY <1>1, <2>2
  <2> QED BY <2>3
<1>2. ASSUME NEW v \in Versions
      PROVE  parse(Text(v)) = v
  BY <1>1 DEF parse
<1> QED BY <1>2, TextAssumption DEF load

\* Writing a block appends it: the temporary file was truncated when it was
\* opened, whatever an interrupted save had left in it.
LEMMA WriteBlockEffect ==
  ASSUME MInv, WriteBlock
  PROVE  /\ written' \in Nat /\ written' <= Size[version]
         /\ tmp' = [i \in 1 .. written' |-> <<version, i>>]
<1>1. /\ written \in Nat /\ written < Size[version] /\ version \in Versions /\ Size[version] \in Nat
      /\ tmp = [i \in 1 .. written |-> <<version, i>>] /\ written' = written + 1
  BY SizeAssumption DEF MInv, SaveInv, WriteBlock
<1>2. Len(tmp) = written
  <2>1. [i \in 1 .. written |-> <<version, i>>] \in Seq(Versions \X Nat)
    BY <1>1
  <2> QED BY <1>1, <2>1
<1>3. tmp' = [i \in 1 .. written' |-> IF i = written' THEN Text(version)[i] ELSE tmp[i]]
  BY <1>1, <1>2 DEF WriteBlock
<1>4. \A i \in 1 .. written' : (IF i = written' THEN Text(version)[i] ELSE tmp[i]) = <<version, i>>
  BY <1>1 DEF Text
<1>5. [i \in 1 .. written' |-> IF i = written' THEN Text(version)[i] ELSE tmp[i]]
        = [i \in 1 .. written' |-> <<version, i>>]
  BY <1>4, Zenon
<1>6. written' \in Nat /\ written' <= Size[version]
  BY <1>1
<1> QED BY <1>3, <1>5, <1>6

LEMMA StepMInv == MInv /\ [Next]_vars => MInv'
<1> SUFFICES ASSUME MInv, [Next]_vars
             PROVE  MInv'
  OBVIOUS
<1>l. load(Absent) = Absent /\ \A v \in Versions : load(Text(v)) = v
  BY LoadText
<1>1. ASSUME NEW v \in Versions, OpenTmp(v)
      PROVE  MInv'
  <2>1. tmp' = [i \in 1 .. 0 |-> <<v, i>>] /\ 0 < Size[v]
    BY <1>1, SizeAssumption DEF OpenTmp
  <2> QED BY <1>1, <2>1 DEF MInv, FileInv, SaveInv, NoOldVersionReturns, OpenTmp
<1>2. CASE WriteBlock
  <2>1. /\ written' \in Nat /\ written' <= Size[version] /\ version \in Versions /\ Size[version] \in Nat
        /\ tmp' = [i \in 1 .. written' |-> <<version, i>>]
    BY <1>2, WriteBlockEffect, SizeAssumption DEF MInv, SaveInv, WriteBlock
  <2>2. UNCHANGED <<file, file_synced, old_file, tmp_synced, version, recent>>
    BY <1>2 DEF WriteBlock
  <2>3. CASE written' = Size[version]
    BY <1>2, <2>1, <2>2, <2>3 DEF MInv, FileInv, SaveInv, NoOldVersionReturns, WriteBlock, Text
  <2>4. CASE written' # Size[version]
    BY <1>2, <2>1, <2>2, <2>4 DEF MInv, FileInv, SaveInv, NoOldVersionReturns, WriteBlock
  <2> QED BY <2>3, <2>4
<1>3. CASE SyncTmp
  BY <1>3 DEF MInv, FileInv, SaveInv, NoOldVersionReturns, SyncTmp
<1>4. CASE Rename
  <2>1. version \in Versions /\ file' = Text(version) /\ load(file') = version /\ file_synced' = TRUE
    BY <1>4, <1>l DEF MInv, SaveInv, Rename
  <2>2. FileInv'
    BY <1>4, <2>1 DEF MInv, FileInv, Rename, Texts
  <2>3. NoOldVersionReturns'
    BY <1>4, <2>1 DEF MInv, NoOldVersionReturns, Rename
  <2> QED BY <1>4, <2>1, <2>2, <2>3 DEF MInv, SaveInv, Rename
<1>5. CASE SyncDir
  <2>1. load(file) = version
    BY <1>5, <1>l DEF MInv, SaveInv, SyncDir
  <2> QED BY <1>5, <2>1 DEF MInv, FileInv, SaveInv, NoOldVersionReturns, SyncDir
<1>6. CASE OtherSyncDir
  BY <1>6 DEF MInv, FileInv, SaveInv, NoOldVersionReturns, OtherSyncDir
<1>7. CASE ProcessCrash
  BY <1>7 DEF MInv, FileInv, SaveInv, NoOldVersionReturns, ProcessCrash
<1>8. CASE PowerLoss
  <2>1. file' \in {file, old_file} /\ old_file' = file' /\ UNCHANGED recent
    BY <1>8 DEF MInv, FileInv, PowerLoss, Stable
  <2> QED BY <1>8, <2>1 DEF MInv, FileInv, SaveInv, NoOldVersionReturns, PowerLoss
<1>9. CASE UNCHANGED vars
  BY <1>9 DEF MInv, FileInv, SaveInv, NoOldVersionReturns, vars
<1> QED BY <1>1, <1>2, <1>3, <1>4, <1>5, <1>6, <1>7, <1>8, <1>9 DEF Next

LEMMA FileInvariance == Spec => []MInv
<1>1. Init => MInv
  BY LoadText DEF Init, MInv, FileInv, SaveInv, NoOldVersionReturns
<1> QED BY <1>1, StepMInv, PTL DEF Spec

\* Once a save has returned, no crash and no power loss brings back what the
\* file had been before: what is found is that version, or one whose save
\* began later and got as far as its rename.
THEOREM OldVersionsStayAway == Spec => []NoOldVersionReturns
<1>1. MInv => NoOldVersionReturns
  BY DEF MInv
<1> QED BY <1>1, FileInvariance, PTL

\* NodeRegistry::save and CheckpointIndex::save implement the atomic file
\* that the rest of the engine takes them for: a reader never meets a part
\* of a text, and power loss leaves the current or the last synchronized
\* version.
THEOREM SavesAreAtomic == Spec => ImplementsAtomicFile
<1>l. load(Absent) = Absent /\ \A v \in Versions : load(Text(v)) = v
  BY LoadText
<1>1. Init => Atomic!Init
  BY <1>l DEF Init, Atomic!Init
<1>2. MInv /\ [Next]_vars => [Atomic!Next]_(Atomic!vars)
  <2> SUFFICES ASSUME MInv, [Next]_vars
               PROVE  [Atomic!Next]_(Atomic!vars)
    OBVIOUS
  <2>1. CASE Rename
    <3>1. load(file') = version /\ version \in Versions
      BY <1>l, <2>1 DEF MInv, SaveInv, Rename
    <3>2. load(old_file') = load(old_file)
      BY <2>1 DEF Rename
    <3>3. Atomic!Replace(version)
      BY <3>1, <3>2 DEF Atomic!Replace
    <3> QED BY <3>1, <3>3 DEF Atomic!Next
  <2>2. CASE SyncDir \/ OtherSyncDir
    <3>1. old_file' = file /\ file' = file
      BY <2>2 DEF SyncDir, OtherSyncDir
    <3> QED BY <3>1 DEF Atomic!Next, Atomic!Sync
  <2>3. CASE PowerLoss
    <3>1. file' \in {file, old_file} /\ old_file' = file'
      BY <2>3 DEF MInv, FileInv, PowerLoss, Stable
    <3> QED BY <3>1 DEF Atomic!Next, Atomic!PowerLoss
  <2>4. CASE ~Rename /\ ~SyncDir /\ ~OtherSyncDir /\ ~PowerLoss
    <3>1. UNCHANGED <<file, old_file>>
      BY <2>4 DEF Next, OpenTmp, WriteBlock, SyncTmp, ProcessCrash, vars
    <3> QED BY <3>1 DEF Atomic!vars
  <2> QED BY <2>1, <2>2, <2>3, <2>4
<1> QED BY <1>1, <1>2, FileInvariance, PTL DEF Spec, ImplementsAtomicFile, Atomic!Spec

===============================================================================
