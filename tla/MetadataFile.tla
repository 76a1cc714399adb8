----------------------------- MODULE MetadataFile -----------------------------
(***************************************************************************)
(* NodeRegistry::save and CheckpointIndex::save, which are the same code:  *)
(* write a temporary file, synchronize it, rename it over the JSON file,   *)
(* synchronize the directory.  A process crash or a power loss may happen  *)
(* between any two of these and within the write; the temporary file it    *)
(* leaves is reused by the next save.                                      *)
(*                                                                         *)
(* A file is a sequence of blocks; the text of version v has Size[v] of    *)
(* them.  Renaming unlinks the old file, which nobody writes to again.     *)
(***************************************************************************)
EXTENDS Integers, Sequences

CONSTANTS
  Versions,   \* the registries (or indexes) to save
  Size,       \* the number of blocks of each version's text
  Absent,     \* there is no such file
  Corrupt     \* it is not a version's text

ASSUME SizeAssumption == Size \in [Versions -> Nat \ {0}]

ASSUME AbsentAssumption == Versions \cap {Absent, Corrupt} = {} /\ Absent # Corrupt

VARIABLES
  file,          \* the blocks of the JSON file, or Absent
  file_synced,   \* whether they are on stable storage
  old_file,      \* the JSON file as the stable directory has it
  tmp,           \* the blocks of the temporary file, or Absent
  tmp_synced,
  version,       \* what is being saved
  written,       \* how many blocks of it have been written
  recent,        \* history: the last version saved, and those renamed after it
  pc

vars == <<file, file_synced, old_file, tmp, tmp_synced, version, written, recent, pc>>

\* format_node_registry, format_checkpoint_index
Text(v) == [i \in 1 .. Size[v] |-> <<v, i>>]

\* The absence of the file is not a text.
ASSUME TextAssumption == \A v \in Versions : Text(v) # Absent

Prefixes(blocks) == { SubSeq(blocks, 1, k) : k \in 0 .. Len(blocks) }

\* parse_node_registry, parse_checkpoint_index: the version whose text it is.
\* A part of a text is none; reading it is an InvalidData error.
parse(blocks) ==
  IF \E v \in Versions : Text(v) = blocks THEN CHOOSE v \in Versions : Text(v) = blocks
  ELSE Corrupt

\* NodeRegistry::load and the reading part of CheckpointIndex::load.
load(blocks) == IF blocks = Absent THEN Absent ELSE parse(blocks)

Init ==
  /\ file = Absent
  /\ file_synced = TRUE
  /\ old_file = Absent
  /\ tmp = Absent
  /\ tmp_synced = TRUE
  /\ version = Absent
  /\ written = 0
  /\ recent = {Absent}
  /\ pc = "idle"

\* Mutant: an existing temporary file is not truncated.
OpenTmp_NoTruncate(v) ==
  /\ pc = "idle"
  /\ tmp' = IF tmp = Absent THEN <<>> ELSE tmp
  /\ tmp_synced' = FALSE
  /\ version' = v
  /\ written' = 0
  /\ pc' = "write"
  /\ UNCHANGED <<file, file_synced, old_file, recent>>

\* save begins: open with create and truncate.
OpenTmp(v) ==
  /\ pc = "idle"
  /\ tmp' = <<>>
  /\ tmp_synced' = FALSE
  /\ version' = v
  /\ written' = 0
  /\ pc' = "write"
  /\ UNCHANGED <<file, file_synced, old_file, recent>>

\* write_all, block by block from the start of the file.
WriteBlock ==
  /\ pc = "write"
  /\ written' = written + 1
  /\ tmp' = [i \in 1 .. IF written' > Len(tmp) THEN written' ELSE Len(tmp) |->
               IF i = written' THEN Text(version)[i] ELSE tmp[i]]
  /\ pc' = IF written' = Size[version] THEN "sync" ELSE "write"
  /\ UNCHANGED <<file, file_synced, old_file, tmp_synced, version, recent>>

\* sync_all
SyncTmp ==
  /\ pc = "sync"
  /\ tmp_synced' = TRUE
  /\ pc' = "rename"
  /\ UNCHANGED <<file, file_synced, old_file, tmp, version, written, recent>>

Rename ==
  /\ pc = "rename"
  /\ file' = tmp
  /\ file_synced' = tmp_synced
  /\ tmp' = Absent
  /\ tmp_synced' = TRUE
  /\ recent' = recent \cup {version}
  /\ pc' = "dir"
  /\ UNCHANGED <<old_file, version, written>>

\* Mutant: the directory is not synchronized.
SyncDir_Skipped ==
  /\ pc = "dir"
  /\ recent' = {version}
  /\ pc' = "idle"
  /\ UNCHANGED <<file, file_synced, old_file, tmp, tmp_synced, version, written>>

\* sync_dir; save returns.
SyncDir ==
  /\ pc = "dir"
  /\ old_file' = file
  /\ recent' = {version}
  /\ pc' = "idle"
  /\ UNCHANGED <<file, file_synced, tmp, tmp_synced, version, written>>

\* The directory is synchronized for another reason (a rotation, the other
\* JSON file).
OtherSyncDir ==
  /\ pc = "idle"
  /\ old_file' = file
  /\ UNCHANGED <<file, file_synced, tmp, tmp_synced, version, written, recent, pc>>

\* The process stops; the files stay as they are.
ProcessCrash ==
  /\ pc # "idle"
  /\ pc' = "idle"
  /\ UNCHANGED <<file, file_synced, old_file, tmp, tmp_synced, version, written, recent>>

\* What stable storage may have of a file.
Stable(blocks, synced) == IF synced \/ blocks = Absent THEN {blocks} ELSE Prefixes(blocks)

\* Either name of the JSON file may be the one that is found afterwards.
PowerLoss ==
  /\ file' \in Stable(file, file_synced) \cup {old_file}
  /\ file_synced' = TRUE
  /\ old_file' = file'
  /\ tmp' \in Stable(tmp, tmp_synced) \cup {Absent}
  /\ tmp_synced' = TRUE
  /\ pc' = "idle"
  /\ UNCHANGED <<version, written, recent>>

Next ==
  \/ \E v \in Versions : OpenTmp(v)
  \/ WriteBlock \/ SyncTmp \/ Rename \/ SyncDir \/ OtherSyncDir
  \/ ProcessCrash \/ PowerLoss

Spec == Init /\ [][Next]_vars

-------------------------------------------------------------------------------
(***************************************************************************)
(* Properties.                                                             *)
(***************************************************************************)

Atomic == INSTANCE AtomicFile WITH
  Contents <- Versions \cup {Absent},
  current  <- load(file),
  durable  <- load(old_file)

\* A reader, at any time and after any fault, gets a complete version or no
\* file, and a power loss chooses between the last version and the last one
\* synchronized: the saves are the atomic replacements that IndexReplace and
\* RegistryReplace of StorageEngine take them for.
ImplementsAtomicFile == Atomic!Spec

\* Once a save has returned no fault brings an older version back: what is
\* or may be found is that version or one whose save came later.
NoOldVersionReturns == {load(file), load(old_file)} \subseteq recent
===============================================================================
