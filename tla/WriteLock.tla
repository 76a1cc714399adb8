------------------------------- MODULE WriteLock -------------------------------
(***************************************************************************)
(* Several engines that open one directory: the write lock (storage.rs,    *)
(* acquire_write_lock), the order of the steps of with_max_segment_len,    *)
(* and the active segment they append to.                                  *)
(*                                                                         *)
(* The lock belongs to an open file description (flock), so two engines of *)
(* one process exclude each other too; closing the file or ending the      *)
(* process releases it.  The segment is a sequence of frames, of which     *)
(* each is whole or not; StorageEngine has rotation and the metadata.      *)
(***************************************************************************)
EXTENDS Naturals, Sequences

CONSTANTS
  Engines,    \* engines, in one or in several processes
  MaxFrames,  \* bound on the frames of the segment
  MaxFiles,   \* bound on the files that are ever called write.lock
  None

ASSUME LockAssumption ==
  MaxFrames \in Nat /\ MaxFiles \in Nat \ {0} /\ None \notin Engines /\ None \notin Nat

VARIABLES
  lock_path,  \* the file that is called write.lock, or None
  files,      \* how many files have been called write.lock so far
  locked_by,  \* the engine that holds the lock of each file, or None
  handle,     \* the file that each engine has open, or None
  pc,         \* where each engine is
  segment     \* the frames of the active segment

vars == <<lock_path, files, locked_by, handle, pc, segment>>

Files == 1 .. MaxFiles

Frame == [by : Engines, whole : BOOLEAN]

\* An engine has the lock from "locked" on.  "appending" is within write_all,
\* "failed" after an error of it.
Owning == {"locked", "recovered", "ready", "appending", "failed"}

TypeOK ==
  /\ lock_path \in Files \cup {None}
  /\ files \in 0 .. MaxFiles
  /\ locked_by \in [Files -> Engines \cup {None}]
  /\ handle \in [Engines -> Files \cup {None}]
  /\ pc \in [Engines -> {"out", "opened"} \cup Owning]
  /\ segment \in Seq(Frame)

Init ==
  /\ lock_path = None
  /\ files = 0
  /\ locked_by = [f \in Files |-> None]
  /\ handle = [e \in Engines |-> None]
  /\ pc = [e \in Engines |-> "out"]
  /\ segment = <<>>

-------------------------------------------------------------------------------
(***************************************************************************)
(* Opening.                                                                *)
(***************************************************************************)

\* The open of acquire_write_lock creates the file if there is none.
OpenLockFile(e) ==
  /\ pc[e] = "out"
  /\ IF lock_path # None
     THEN /\ handle' = [handle EXCEPT ![e] = lock_path]
          /\ UNCHANGED <<lock_path, files>>
     ELSE /\ files < MaxFiles
          /\ files' = files + 1
          /\ lock_path' = files + 1
          /\ handle' = [handle EXCEPT ![e] = files + 1]
  /\ pc' = [pc EXCEPT ![e] = "opened"]
  /\ UNCHANGED <<locked_by, segment>>

\* The result of try_lock: the lock, or WouldBlock, and then the handle is
\* dropped and nothing was changed.
TryLock(e) ==
  /\ pc[e] = "opened"
  /\ IF locked_by[handle[e]] = None
     THEN /\ locked_by' = [locked_by EXCEPT ![handle[e]] = e]
          /\ pc' = [pc EXCEPT ![e] = "locked"]
          /\ UNCHANGED handle
     ELSE /\ pc' = [pc EXCEPT ![e] = "out"]
          /\ handle' = [handle EXCEPT ![e] = None]
          /\ UNCHANGED locked_by
  /\ UNCHANGED <<lock_path, files, segment>>

\* What is left of the segment when a trailing partial frame is cut off.
WithoutPartial ==
  IF segment # <<>> /\ ~segment[Len(segment)].whole
  THEN SubSeq(segment, 1, Len(segment) - 1)
  ELSE segment

\* Mutant: recovery starts before the lock is there.
Recover_Early(e) ==
  /\ pc[e] \in {"opened", "locked"}
  /\ segment' = WithoutPartial
  /\ pc' = [pc EXCEPT ![e] = IF @ = "locked" THEN "recovered" ELSE @]
  /\ UNCHANGED <<lock_path, files, locked_by, handle>>

\* Mutant: recovery does not cut the partial frame off.
Recover_Keep(e) ==
  /\ pc[e] = "locked"
  /\ pc' = [pc EXCEPT ![e] = "recovered"]
  /\ UNCHANGED <<lock_path, files, locked_by, handle, segment>>

\* recover_storage_dir
Recover(e) ==
  /\ pc[e] = "locked"
  /\ segment' = WithoutPartial
  /\ pc' = [pc EXCEPT ![e] = "recovered"]
  /\ UNCHANGED <<lock_path, files, locked_by, handle>>

\* The metadata is loaded and the writer opens the segment.
OpenWriter(e) ==
  /\ pc[e] = "recovered"
  /\ pc' = [pc EXCEPT ![e] = "ready"]
  /\ UNCHANGED <<lock_path, files, locked_by, handle, segment>>

-------------------------------------------------------------------------------
(***************************************************************************)
(* Writing and closing.                                                    *)
(***************************************************************************)

\* write_all has put a part of a frame into the file ...
BeginAppend(e) ==
  /\ pc[e] = "ready"
  /\ Len(segment) < MaxFrames
  /\ segment' = Append(segment, [by |-> e, whole |-> FALSE])
  /\ pc' = [pc EXCEPT ![e] = "appending"]
  /\ UNCHANGED <<lock_path, files, locked_by, handle>>

\* ... and the rest of it.
EndAppend(e) ==
  /\ pc[e] = "appending"
  /\ segment' = [segment EXCEPT ![Len(segment)].whole = TRUE]
  /\ pc' = [pc EXCEPT ![e] = "ready"]
  /\ UNCHANGED <<lock_path, files, locked_by, handle>>

\* write_all fails and what it wrote stays.  That the engine is then dropped
\* and not used again is the documented contract of the caller.
FailAppend(e) ==
  /\ pc[e] = "appending"
  /\ pc' = [pc EXCEPT ![e] = "failed"]
  /\ UNCHANGED <<lock_path, files, locked_by, handle, segment>>

Release(e) ==
  /\ locked_by' = [f \in Files |-> IF locked_by[f] = e THEN None ELSE locked_by[f]]
  /\ handle' = [handle EXCEPT ![e] = None]
  /\ pc' = [pc EXCEPT ![e] = "out"]

\* Mutant: dropping the engine removes write.lock.
Close_RemoveFile(e) ==
  /\ pc[e] \in {"ready", "failed"}
  /\ Release(e)
  /\ lock_path' = None
  /\ UNCHANGED <<files, segment>>

\* The engine is dropped; write.lock stays.
Close(e) ==
  /\ pc[e] \in {"ready", "failed"}
  /\ Release(e)
  /\ UNCHANGED <<lock_path, files, segment>>

\* Mutant: the lock outlives its owner, as the bare existence of a file would.
Crash_KeepLock(e) ==
  /\ pc[e] # "out"
  /\ handle' = [handle EXCEPT ![e] = None]
  /\ pc' = [pc EXCEPT ![e] = "out"]
  /\ UNCHANGED <<lock_path, files, locked_by, segment>>

\* The process of the engine ends anywhere, or opening fails after the lock.
Crash(e) ==
  /\ pc[e] # "out"
  /\ Release(e)
  /\ UNCHANGED <<lock_path, files, segment>>

Open(e) == OpenLockFile(e) \/ TryLock(e) \/ Recover(e) \/ OpenWriter(e)

Next ==
  \E e \in Engines :
    \/ Open(e)
    \/ BeginAppend(e)
    \/ EndAppend(e)
    \/ FailAppend(e)
    \/ Close(e)
    \/ Crash(e)

Spec == Init /\ [][Next]_vars

\* with_max_segment_len has no wait in it: an opening runs on once it has
\* begun.  Nothing makes a caller open, write or drop an engine, or crash.
FairSpec == Spec /\ \A e \in Engines : WF_vars(TryLock(e) \/ Recover(e) \/ OpenWriter(e))

-------------------------------------------------------------------------------
(***************************************************************************)
(* Properties.                                                             *)
(***************************************************************************)

\* Two engines never own one directory: also not when one of them opened
\* write.lock before the other dropped it (write.lock is never removed).
OneWriter == \A e, f \in Engines : pc[e] \in Owning /\ pc[f] \in Owning => e = f

\* A frame that is not whole is the last one: no crash, failed write, drop
\* and reopening, of whichever engines, puts a frame behind a partial one,
\* where scan_segment would take it for corruption.
PartialFrameIsLast == \A k \in DOMAIN segment : k < Len(segment) => segment[k].whole

\* Recovery never cuts off the frame that an engine is writing, nor one that
\* is whole: what recover_storage_dir removes belongs to a writer that is no
\* longer there.
RecoveryCutsDeadFrame ==
  [][ Len(segment') < Len(segment) =>
        LET frame == segment[Len(segment)]
        IN  ~frame.whole /\ pc[frame.by] # "appending" ]_vars

\* However the owner ended, the directory does not stay locked: a lock that
\* makes try_lock answer WouldBlock belongs to an engine that is still there.
NoStaleLock ==
  \A f \in Files : locked_by[f] # None => pc[locked_by[f]] \in Owning /\ handle[locked_by[f]] = f

\* The step leaves no opening unfinished, except one that the lock refuses.
NoOpeningBreaksOff ==
  \A e \in Engines :
    pc[e] \in {"opened", "locked", "recovered"} /\ pc'[e] = "out" =>
      pc[e] = "opened" /\ locked_by[handle[e]] # None

\* WouldBlock is never the end of it: while callers go on trying to open the
\* directory, and their openings do not themselves break off for ever, it
\* has an open engine time and again, although each one may crash, fail or
\* be dropped at any step and try_lock of acquire_write_lock never waits.
DirectoryReopens ==
  /\ <>[][NoOpeningBreaksOff]_vars
  /\ []<>(\E e \in Engines : pc[e] = "opened")
  => []<>(\E e \in Engines : pc[e] \in {"ready", "appending", "failed"})

-------------------------------------------------------------------------------
(***************************************************************************)
(* The inductive invariant that the proofs rest on.                        *)
(***************************************************************************)

\* There has been one file called write.lock; who owns the directory has it
\* open and has its lock, and nobody else has.
LockInv ==
  /\ \A e \in Engines : handle[e] # None => handle[e] = lock_path
  /\ \A e \in Engines : pc[e] = "opened" => handle[e] # None
  /\ \A e \in Engines : pc[e] \in Owning => handle[e] # None /\ locked_by[handle[e]] = e
  /\ NoStaleLock

\* Every frame is whole from the recovery to the first append, and from one
\* append to the next; within one, only the last is not.
SegmentInv ==
  /\ PartialFrameIsLast
  /\ \A e \in Engines : pc[e] \in {"recovered", "ready"} => \A k \in DOMAIN segment : segment[k].whole
  /\ \A e \in Engines : pc[e] = "appending" => segment # <<>>

IInv == TypeOK /\ LockInv /\ SegmentInv
===============================================================================
