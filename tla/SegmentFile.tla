------------------------------ MODULE SegmentFile ------------------------------
(***************************************************************************)
(* The active segment file as a sequence of frames (codec.rs, and the      *)
(* record loops of storage.rs): records are appended, a crash leaves part  *)
(* of a frame at the end, recovery cuts it off, load decodes what is left. *)
(* The magic header is left out; StorageEngine has it.                     *)
(***************************************************************************)
EXTENDS Codec, Crc32c

VARIABLES
  file,     \* the units after the header
  written,  \* history: the records whose append was complete
  pc        \* "open", "closed" or "refused" (opening failed)

vars == <<file, written, pc>>

\* Mutant: a body that is shorter than its length is not noticed.
read_record_body_Short(f, i) ==
  IF i > Len(f) THEN None
  ELSE IF f[i] > MaxBodyLen THEN Err
  ELSE IF i + 1 > Len(f) THEN None
  ELSE LET body == SubSeq(f, i + 2, IF i + 1 + f[i] > Len(f) THEN Len(f) ELSE i + 1 + f[i])
       IN  IF Checksum(body) = f[i + 1] THEN body ELSE Err

\* read_record_body at unit i: the body of a complete frame, None if it is
\* not complete, Err if it is too large or its checksum does not match.
\* scan_record_frame decides the same, reading the body in pieces.
read_record_body(f, i) ==
  IF i > Len(f) THEN None
  ELSE IF f[i] > MaxBodyLen THEN Err
  ELSE IF i + 1 > Len(f) THEN None
  ELSE IF i + 1 + f[i] > Len(f) THEN None
  ELSE LET body == SubSeq(f, i + 2, i + 1 + f[i])
       IN  IF Checksum(body) = f[i + 1] THEN body ELSE Err

\* The bodies that a loop over the file meets: Err if it fails, else where
\* the last complete frame ends and the bodies up to there.
Frames(f) ==
  LET from[i \in 1 .. Len(f) + 1] ==
        LET body == read_record_body(f, i)
        IN  IF body = Err THEN Err
            ELSE IF body = None THEN [bodies |-> <<>>, end |-> i - 1]
            ELSE LET rest == from[i + 2 + Len(body)]
                 IN  IF rest = Err THEN Err
                     ELSE [bodies |-> <<body>> \o rest.bodies, end |-> rest.end]
  IN  from[1]

\* The records that load meets in the active segment.
Load(f) ==
  LET frames == Frames(f)
  IN  IF frames = Err THEN Err
      ELSE [k \in DOMAIN frames.bodies |-> decode_node_record(frames.bodies[k])]

Init ==
  /\ file = <<>>
  /\ written = <<>>
  /\ pc = "open"

\* SegmentWriter::append; a record that encode_record_frame rejects is not
\* written.
AppendRecord(node_id, record) ==
  LET frame == encode_record_frame(node_id, record) IN
  /\ pc = "open"
  /\ Len(written) < MaxRecords
  /\ frame # Err
  /\ file' = file \o frame
  /\ written' = Append(written, [node |-> node_id, record |-> record])
  /\ UNCHANGED pc

\* A crash within the write: some units of the frame are in the file.  After
\* a power loss its length may be that of more units, which read as zeros.
Crash(node_id, record) ==
  LET frame == encode_record_frame(node_id, record) IN
  /\ pc = "open"
  /\ frame # Err
  /\ \E k \in 0 .. Len(frame) - 1, zeros \in 0 .. ZeroFill :
       file' = file \o SubSeq(frame, 1, k) \o [j \in 1 .. zeros |-> 0]
  /\ pc' = "closed"
  /\ UNCHANGED written

\* scan_segment of the active segment.
Recover ==
  LET frames == Frames(file) IN
  /\ pc = "closed"
  /\ IF frames = Err
     THEN pc' = "refused" /\ file' = file
     ELSE pc' = "open" /\ file' = SubSeq(file, 1, frames.end)
  /\ UNCHANGED written

Next ==
  \/ \E node_id \in NodeIds, record \in Record : AppendRecord(node_id, record) \/ Crash(node_id, record)
  \/ Recover

Spec == Init /\ [][Next]_vars

-------------------------------------------------------------------------------
(***************************************************************************)
(* Properties.                                                             *)
(***************************************************************************)

\* The records that decode are exactly those appended, in their order and
\* with every field, before and after recovery: what encode_record_frame
\* accepts decode_node_record accepts (their limits agree), and no part of an
\* unfinished frame is taken for a record.
ReadsWhatWasWritten == Load(file) = written

\* Once recovery has accepted a segment, load can decode every frame of it:
\* scan_record_frame checks length and checksum only, and what it accepts
\* must be a record.
RecoveredFramesDecode == pc = "open" => \A k \in DOMAIN Load(file) : Load(file)[k] # Err

\* Whatever part of a frame a crash leaves, recovery takes it for a partial
\* record and not for corruption (scan_record_frame).
TornFrameIsNoCorruption == pc # "refused"

\* The checksum of codec.rs is CRC-32C (Checksum above stands for it): what
\* encode_record_frame writes is what scan_record_frame finds, however the
\* body falls into slices and pieces (Crc32c::update).  It depends on no
\* file, and so is stated before the first append.
ChecksumIsReference == pc = "open" /\ file = <<>> => IsReference
===============================================================================
