---------------------------- MODULE WriteLockProofs ----------------------------
(***************************************************************************)
(* WriteLock's invariants for every set of engines and every bound.        *)
(***************************************************************************)
EXTENDS WriteLock, TLAPS

\* The last element of a sequence.
LEMMA LastOf ==
  ASSUME NEW S, NEW s \in Seq(S), s # <<>>
  PROVE  s[Len(s)] \in S
  OBVIOUS

\* A sequence with another last element.
LEMMA LastReplaced ==
  ASSUME NEW S, NEW s \in Seq(S), NEW x \in S
  PROVE  [k \in DOMAIN s |-> IF k = Len(s) THEN x ELSE s[k]] \in Seq(S)
  OBVIOUS

LEMMA TypeInit == Init => TypeOK
  BY LockAssumption DEF Init, TypeOK, Files, Owning, Frame

\* The state types are kept.
LEMMA TypeStep == TypeOK /\ [Next]_vars => TypeOK'
<1> SUFFICES ASSUME TypeOK, [Next]_vars PROVE TypeOK'
  OBVIOUS
<1> USE DEF TypeOK, Files, Owning, Frame
<1>1. CASE UNCHANGED vars
  BY <1>1 DEF vars
<1>2. ASSUME NEW e \in Engines, OpenLockFile(e) PROVE TypeOK'
  BY <1>2, LockAssumption DEF OpenLockFile
<1>3. ASSUME NEW e \in Engines, TryLock(e) PROVE TypeOK'
  BY <1>3 DEF TryLock
<1>4. ASSUME NEW e \in Engines, Recover(e) PROVE TypeOK'
  <2>1. segment' \in Seq(Frame)
    BY <1>4 DEF Recover, WithoutPartial
  <2> QED
    BY <1>4, <2>1 DEF Recover
<1>5. ASSUME NEW e \in Engines, OpenWriter(e) PROVE TypeOK'
  BY <1>5 DEF OpenWriter
<1>6. ASSUME NEW e \in Engines, BeginAppend(e) PROVE TypeOK'
  BY <1>6 DEF BeginAppend
<1>7. ASSUME NEW e \in Engines, EndAppend(e) PROVE TypeOK'
  <2> HIDE DEF Frame
  <2> DEFINE x == [segment[Len(segment)] EXCEPT !.whole = TRUE]
  <2>1. segment' = [k \in DOMAIN segment |-> IF k = Len(segment) THEN x ELSE segment[k]]
    BY <1>7 DEF EndAppend
  <2>2. segment' \in Seq(Frame)
    <3>1. CASE segment = <<>>
      BY <2>1, <3>1
    <3>2. CASE segment # <<>>
      <4>1. segment[Len(segment)] \in Frame
        BY <3>2, LastOf
      <4>2. x \in Frame
        BY <4>1 DEF Frame
      <4> QED
        BY <2>1, <4>2, LastReplaced
    <3> QED
      BY <3>1, <3>2
  <2> QED
    BY <1>7, <2>2 DEF EndAppend
<1>8. ASSUME NEW e \in Engines, FailAppend(e) PROVE TypeOK'
  BY <1>8 DEF FailAppend
<1>9. ASSUME NEW e \in Engines, Close(e) \/ Crash(e) PROVE TypeOK'
  BY <1>9 DEF Close, Crash, Release
<1> QED
  BY <1>1, <1>2, <1>3, <1>4, <1>5, <1>6, <1>7, <1>8, <1>9 DEF Next, Open

\* The lock has the owner of the directory, and only him.
LEMMA LockStep == TypeOK /\ LockInv /\ [Next]_vars => LockInv'
<1> SUFFICES ASSUME TypeOK, LockInv, [Next]_vars PROVE LockInv'
  OBVIOUS
<1> USE DEF TypeOK, Owning, LockInv, NoStaleLock
<1>1. CASE UNCHANGED vars
  BY <1>1 DEF vars
<1>2. ASSUME NEW e \in Engines, OpenLockFile(e) PROVE LockInv'
  BY <1>2, LockAssumption DEF OpenLockFile, Files
<1>3. ASSUME NEW e \in Engines, TryLock(e) PROVE LockInv'
  BY <1>3, LockAssumption DEF TryLock, Files
<1>4. ASSUME NEW e \in Engines, Recover(e) \/ OpenWriter(e) \/ BeginAppend(e) \/ EndAppend(e) \/ FailAppend(e)
      PROVE  LockInv'
  <2>1. pc[e] \in Owning /\ (\E l \in Owning : pc' = [pc EXCEPT ![e] = l]) /\ UNCHANGED <<lock_path, locked_by, handle>>
    BY <1>4 DEF Recover, OpenWriter, BeginAppend, EndAppend, FailAppend
  <2>2. \A g \in Engines : (pc'[g] \in Owning <=> pc[g] \in Owning) /\ (pc'[g] = "opened" => pc[g] = "opened")
    BY <2>1
  <2> QED
    BY <2>1, <2>2
<1>5. ASSUME NEW e \in Engines, Close(e) \/ Crash(e) PROVE LockInv'
  <2>1. Release(e) /\ UNCHANGED lock_path
    BY <1>5 DEF Close, Crash
  <2>2. \A g \in Engines : (g # e => pc'[g] = pc[g] /\ handle'[g] = handle[g]) /\ pc'[e] = "out" /\ handle'[e] = None
    BY <2>1 DEF Release
  <2>3. \A f \in Files : locked_by'[f] = IF locked_by[f] = e THEN None ELSE locked_by[f]
    BY <2>1 DEF Release
  <2>4. \A g \in Engines : pc'[g] \in Owning => handle'[g] # None /\ locked_by'[handle'[g]] = g
    BY <2>2, <2>3
  <2>5. NoStaleLock'
    BY <2>2, <2>3, LockAssumption
  <2> QED
    BY <2>1, <2>2, <2>4, <2>5
<1> QED
  BY <1>1, <1>2, <1>3, <1>4, <1>5 DEF Next, Open

\* Two owners would hold one lock.
LEMMA OneOwner == TypeOK /\ LockInv => OneWriter
  BY DEF TypeOK, LockInv, OneWriter

\* The frames of the segment, while one engine at a time owns it.
LEMMA SegmentStep == IInv /\ [Next]_vars => SegmentInv'
<1> SUFFICES ASSUME IInv, [Next]_vars PROVE SegmentInv'
  OBVIOUS
<1>1. OneWriter
  BY OneOwner DEF IInv
<1>2. TypeOK /\ SegmentInv
  BY DEF IInv
<1> USE <1>1, <1>2 DEF TypeOK, Owning, SegmentInv, PartialFrameIsLast, OneWriter, Frame
<1>3. CASE UNCHANGED vars
  BY <1>3 DEF vars
<1>4. ASSUME NEW e \in Engines, OpenLockFile(e) \/ TryLock(e) PROVE SegmentInv'
  BY <1>4 DEF OpenLockFile, TryLock
<1>5. ASSUME NEW e \in Engines, Recover(e) PROVE SegmentInv'
  <2>1. \A k \in DOMAIN segment' : segment'[k].whole
    BY <1>5 DEF Recover, WithoutPartial
  <2>2. \A f \in Engines : pc'[f] # "appending"
    BY <1>5 DEF Recover
  <2> QED
    BY <2>1, <2>2
<1>6. ASSUME NEW e \in Engines, OpenWriter(e) PROVE SegmentInv'
  BY <1>6 DEF OpenWriter
<1>7. ASSUME NEW e \in Engines, BeginAppend(e) PROVE SegmentInv'
  <2>1. \A f \in Engines : pc'[f] \notin {"recovered", "ready"}
    BY <1>7 DEF BeginAppend
  <2>2. segment' # <<>> /\ \A k \in DOMAIN segment' : k < Len(segment') => segment'[k].whole
    BY <1>7 DEF BeginAppend
  <2> QED
    BY <2>1, <2>2
<1>8. ASSUME NEW e \in Engines, EndAppend(e) PROVE SegmentInv'
  <2>1. \A k \in DOMAIN segment' : segment'[k].whole
    BY <1>8 DEF EndAppend
  <2>2. \A f \in Engines : pc'[f] # "appending"
    BY <1>8 DEF EndAppend
  <2> QED
    BY <2>1, <2>2
<1>9. ASSUME NEW e \in Engines, FailAppend(e) PROVE SegmentInv'
  BY <1>9 DEF FailAppend
<1>10. ASSUME NEW e \in Engines, Close(e) \/ Crash(e) PROVE SegmentInv'
  BY <1>10 DEF Close, Crash, Release
<1> QED
  BY <1>3, <1>4, <1>5, <1>6, <1>7, <1>8, <1>9, <1>10 DEF Next, Open

\* The inductive invariant holds in every reachable state.
THEOREM Inductive == Spec => []IInv
<1>1. Init => IInv
  <2>1. Init => LockInv
    BY LockAssumption DEF Init, LockInv, NoStaleLock, Files, Owning
  <2>2. Init => SegmentInv
    BY DEF Init, SegmentInv, PartialFrameIsLast
  <2> QED
    BY <2>1, <2>2, TypeInit DEF IInv
<1>2. IInv /\ [Next]_vars => IInv'
  BY TypeStep, LockStep, SegmentStep DEF IInv
<1> QED
  BY <1>1, <1>2, PTL DEF Spec

\* Two engines never own one directory (acquire_write_lock).
THEOREM LockExcludes == Spec => []OneWriter
<1>1. IInv => OneWriter
  BY OneOwner DEF IInv
<1> QED
  BY <1>1, Inductive, PTL

\* The lock of a directory never outlives its owner.
THEOREM LockIsLive == Spec => []NoStaleLock
<1>1. IInv => NoStaleLock
  BY DEF IInv, LockInv
<1> QED
  BY <1>1, Inductive, PTL

\* No frame is ever written behind a partial one.
THEOREM FramesAreWhole == Spec => []PartialFrameIsLast
<1>1. IInv => PartialFrameIsLast
  BY DEF IInv, SegmentInv
<1> QED
  BY <1>1, Inductive, PTL

\* Recovery cuts off only what a writer that is gone has left.
THEOREM RecoveryIsSafe == Spec => RecoveryCutsDeadFrame
<1> DEFINE Cut == Len(segment') < Len(segment) =>
                    LET frame == segment[Len(segment)]
                    IN  ~frame.whole /\ pc[frame.by] # "appending"
<1>1. IInv /\ [Next]_vars => [Cut]_vars
  <2> SUFFICES ASSUME IInv, [Next]_vars PROVE Cut
    OBVIOUS
  <2>1. OneWriter /\ TypeOK
    BY OneOwner DEF IInv
  <2> USE <2>1 DEF TypeOK
  <2>2. CASE UNCHANGED vars
    BY <2>2 DEF vars
  <2>3. ASSUME NEW e \in Engines, Recover(e) PROVE Cut
    <3>1. CASE segment # <<>> /\ ~segment[Len(segment)].whole
      <4>1. segment[Len(segment)] \in Frame
        BY <3>1, LastOf
      <4>2. \A f \in Engines : pc[f] # "appending"
        BY <2>3 DEF Recover, OneWriter, Owning
      <4> QED
        BY <3>1, <4>1, <4>2 DEF Frame
    <3>2. CASE ~(segment # <<>> /\ ~segment[Len(segment)].whole)
      BY <2>3, <3>2 DEF Recover, WithoutPartial
    <3> QED
      BY <3>1, <3>2
  <2>4. ASSUME NEW e \in Engines, BeginAppend(e) \/ EndAppend(e) PROVE Cut
    BY <2>4 DEF BeginAppend, EndAppend, Frame
  <2>5. ASSUME NEW e \in Engines,
               OpenLockFile(e) \/ TryLock(e) \/ OpenWriter(e) \/ FailAppend(e) \/ Close(e) \/ Crash(e)
        PROVE  Cut
    BY <2>5 DEF OpenLockFile, TryLock, OpenWriter, FailAppend, Close, Crash
  <2> QED
    BY <2>2, <2>3, <2>4, <2>5 DEF Next, Open
<1> QED
  BY <1>1, Inductive, PTL DEF Spec, RecoveryCutsDeadFrame
===============================================================================
