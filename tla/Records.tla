-------------------------------- MODULE Records --------------------------------
(***************************************************************************)
(* The records of storage.rs and what their constructors check, used by    *)
(* NodeState (replay) and Codec (the file format).                         *)
(*                                                                         *)
(* LogEntries and Log belong to the noraft crate; the operators on them    *)
(* say what this code and its tests rely on.                               *)
(***************************************************************************)
EXTENDS Integers, Sequences, Functions

CONSTANTS
  MaxTerm,             \* terms are 0 .. MaxTerm
  MaxIndex,            \* log indices are 0 .. MaxIndex
  MaxEntries,          \* bound on the entries of one append
  Peers,               \* node IDs to vote for
  Configs,             \* cluster configurations
  EmptyConfig,         \* ClusterConfig::new()
  Payloads,            \* command payloads
  Blobs,               \* snapshot payloads
  EmptyPayload,        \* Bytes::default()
  None                 \* Option::None

Terms == 0 .. MaxTerm

Indices == 0 .. MaxIndex

LogPosition == [term : Terms, index : Indices]

ASSUME BoundsAssumption ==
  MaxTerm \in Nat /\ MaxIndex \in Nat /\ MaxEntries \in Nat

Zero == [term |-> 0, index |-> 0]

-------------------------------------------------------------------------------
(***************************************************************************)
(* noraft: LogEntry, LogEntries, Log.                                      *)
(***************************************************************************)

\* A term entry starts a term; a config entry names a configuration.  Every
\* entry has the fields of all kinds.
LogEntry ==
  [kind : {"term"}, term : Terms, config : {None}]
    \cup [kind : {"config"}, term : {0}, config : Configs]
    \cup [kind : {"command"}, term : {0}, config : {None}]

LogEntries == [prev : LogPosition, items : Seq(LogEntry)]

last_index(e) == e.prev.index + Len(e.items)

NewEntries(position) == [prev |-> position, items |-> <<>>]

\* The term in force at index i: that of the last term entry up to i.
term_at(e, i) ==
  LET starts == { k \in 1 .. i - e.prev.index : e.items[k].kind = "term" }
  IN  IF starts = {} THEN e.prev.term
      ELSE e.items[CHOOSE k \in starts : \A j \in starts : j <= k].term

contains(e, position) ==
  /\ e.prev.index <= position.index
  /\ position.index <= last_index(e)
  /\ term_at(e, position.index) = position.term

\* LogEntries::since, for a position that e contains.
since(e, position) ==
  [prev |-> position,
   items |-> SubSeq(e.items, position.index - e.prev.index + 1, Len(e.items))]

\* Log::append_suffix, for a suffix whose anchor e contains: whatever
\* follows the anchor is replaced.
append_suffix(e, suffix) ==
  [prev |-> e.prev,
   items |-> SubSeq(e.items, 1, suffix.prev.index - e.prev.index) \o suffix.items]

CommandIndices(e) ==
  { i \in e.prev.index + 1 .. last_index(e) : e.items[i - e.prev.index].kind = "command" }

-------------------------------------------------------------------------------
(***************************************************************************)
(* LogAppend and SnapshotCheckpoint.                                       *)
(***************************************************************************)

\* LogAppend::validate: both of its loops.
validate(append) ==
  /\ \A i \in CommandIndices(append.entries) : i \in DOMAIN append.command_payloads
  /\ \A i \in DOMAIN append.command_payloads : i \in CommandIndices(append.entries)

\* The values LogAppend::new can build within the bounds.
LogAppend ==
  LET entries == { e \in [prev : LogPosition, items : UNION { [1 .. k -> LogEntry] : k \in 0 .. MaxEntries }] :
                     last_index(e) <= MaxIndex }
  IN  UNION { { a \in [entries : {e}, command_payloads :
                         UNION { [S -> Payloads] : S \in SUBSET (e.prev.index .. last_index(e)) }] :
                  validate(a) } : e \in entries }

Snapshot == [last_included : LogPosition, config : Configs, data : Blobs]

\* SnapshotCheckpoint::validate
validate_checkpoint(checkpoint) ==
  /\ validate(checkpoint.suffix)
  /\ checkpoint.suffix.entries.prev = checkpoint.snapshot.last_included

initial_checkpoint ==
  [current_term |-> 0,
   voted_for |-> None,
   snapshot |-> [last_included |-> Zero, config |-> EmptyConfig, data |-> EmptyPayload],
   suffix |-> [entries |-> NewEntries(Zero), command_payloads |-> << >>]]
===============================================================================
