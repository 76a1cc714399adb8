------------------------------- MODULE NodeState -------------------------------
(***************************************************************************)
(* What load returns for one node (storage.rs): the records of the node    *)
(* from its newest checkpoint on, folded over a NodeState.  save_* and     *)
(* append_entries do not look at the state, so whether a record can be     *)
(* applied shows only at load.                                             *)
(***************************************************************************)
EXTENDS Records

CONSTANT Failed   \* the replay returned an error

-------------------------------------------------------------------------------
(***************************************************************************)
(* NodeState::apply_*.                                                     *)
(***************************************************************************)

\* NodeState::default
DefaultState ==
  [current_term |-> 0,
   voted_for |-> None,
   log |-> [config |-> EmptyConfig, entries |-> NewEntries(Zero)],
   command_payloads |-> << >>,
   snapshot |-> None]

apply_current_term(state, term) == [state EXCEPT !.current_term = term]

apply_voted_for(state, voted_for) == [state EXCEPT !.voted_for = voted_for]

\* BTreeMap::extend: the entries of `more` win.
extend(payloads, more) ==
  [i \in DOMAIN payloads \cup DOMAIN more |-> IF i \in DOMAIN more THEN more[i] ELSE payloads[i]]

\* Mutants: the payload at the anchor is dropped too; no payload is dropped.
apply_append_Anchor(state, append) ==
  LET anchor == append.entries.prev
      kept   == { i \in DOMAIN state.command_payloads : i < anchor.index }
  IN  IF ~validate(append) \/ ~contains(state.log.entries, anchor) THEN Failed
      ELSE [state EXCEPT
              !.log.entries = append_suffix(state.log.entries, append.entries),
              !.command_payloads = extend(Restrict(@, kept), append.command_payloads)]

apply_append_KeepAll(state, append) ==
  LET anchor == append.entries.prev
  IN  IF ~validate(append) \/ ~contains(state.log.entries, anchor) THEN Failed
      ELSE [state EXCEPT
              !.log.entries = append_suffix(state.log.entries, append.entries),
              !.command_payloads = extend(@, append.command_payloads)]

apply_append_owned(state, append) ==
  LET anchor == append.entries.prev
      kept   == { i \in DOMAIN state.command_payloads : i <= anchor.index }
  IN  IF ~validate(append) \/ ~contains(state.log.entries, anchor) THEN Failed
      ELSE [state EXCEPT
              !.log.entries = append_suffix(state.log.entries, append.entries),
              !.command_payloads = extend(Restrict(@, kept), append.command_payloads)]

retained_log_entries_after_snapshot(e, position) ==
  IF position.index < e.prev.index THEN Failed
  ELSE IF contains(e, position) THEN since(e, position)
  ELSE IF last_index(e) < position.index THEN NewEntries(position)
  ELSE Failed

\* Mutant: the snapshot is not kept.
apply_snapshot_Unset(state, snapshot) ==
  LET entries == retained_log_entries_after_snapshot(state.log.entries, snapshot.last_included)
  IN  IF entries = Failed THEN Failed
      ELSE [state EXCEPT !.log = [config |-> snapshot.config, entries |-> entries]]

apply_snapshot(state, snapshot) ==
  LET entries == retained_log_entries_after_snapshot(state.log.entries, snapshot.last_included)
      kept    == { i \in DOMAIN state.command_payloads : snapshot.last_included.index < i }
  IN  IF entries = Failed THEN Failed
      ELSE [state EXCEPT !.command_payloads = Restrict(@, kept),
                         !.log = [config |-> snapshot.config, entries |-> entries],
                         !.snapshot = snapshot]

\* SnapshotCheckpoint::into_state
into_state(checkpoint) ==
  LET voted  == apply_voted_for(apply_current_term(DefaultState, checkpoint.current_term), checkpoint.voted_for)
      rooted == apply_snapshot(voted, checkpoint.snapshot)
  IN  IF ~validate_checkpoint(checkpoint) \/ rooted = Failed THEN Failed
      ELSE apply_append_owned(rooted, checkpoint.suffix)

-------------------------------------------------------------------------------
(***************************************************************************)
(* A caller and the records it writes.  The caller keeps its Raft state as *)
(* a map from log index to entry, term and payload; `loaded` is what load  *)
(* would now return.                                                       *)
(***************************************************************************)
VARIABLES
  loaded,     \* the fold of the node's records since its newest checkpoint
  caller,     \* the state the caller means to have stored
  rejected    \* a record was accepted, since that checkpoint or as it, that cannot be applied

vars == <<loaded, caller, rejected>>

Slot == [entry : LogEntry, term : Terms, payload : Payloads \cup {None}]

\* The slots that an append describes.
Slots(append) ==
  LET e == append.entries IN
  [i \in e.prev.index + 1 .. last_index(e) |->
     [entry   |-> e.items[i - e.prev.index],
      term    |-> term_at(e, i),
      payload |-> IF i \in DOMAIN append.command_payloads THEN append.command_payloads[i] ELSE None]]

\* Whether position p is the base of the caller's log or one of its slots.
Known(p) ==
  \/ p = caller.snapshot.last_included
  \/ p.index \in DOMAIN caller.slots /\ caller.slots[p.index].term = p.term

\* The caller's view of a NodeState.
View(state) ==
  [current_term |-> state.current_term,
   voted_for    |-> state.voted_for,
   snapshot     |-> state.snapshot,
   slots        |-> Slots([entries |-> state.log.entries, command_payloads |-> state.command_payloads])]

CallerOf(checkpoint) ==
  [current_term |-> checkpoint.current_term,
   voted_for    |-> checkpoint.voted_for,
   snapshot     |-> checkpoint.snapshot,
   slots        |-> Slots(checkpoint.suffix)]

\* create_node has written the initial checkpoint.
Init ==
  /\ loaded = into_state(initial_checkpoint)
  /\ caller = CallerOf(initial_checkpoint)
  /\ rejected = FALSE

\* apply_record_to_state after an earlier failure: the replay has ended.
Replayed(state) == IF loaded = Failed THEN Failed ELSE state

SaveCurrentTerm(term) ==
  /\ loaded' = Replayed(apply_current_term(loaded, term))
  /\ caller' = [caller EXCEPT !.current_term = term]
  /\ UNCHANGED rejected

SaveVotedFor(voted_for) ==
  /\ loaded' = Replayed(apply_voted_for(loaded, voted_for))
  /\ caller' = [caller EXCEPT !.voted_for = voted_for]
  /\ UNCHANGED rejected

\* append_entries records the append as it is; only a caller whose log has
\* the anchor knows what it means.
AppendEntries(append) ==
  LET anchor == append.entries.prev IN
  /\ loaded' = Replayed(apply_append_owned(loaded, append))
  /\ IF Known(anchor) /\ ~rejected
     THEN /\ caller' = [caller EXCEPT !.slots =
                          extend(Restrict(@, { i \in DOMAIN @ : i <= anchor.index }), Slots(append))]
          /\ UNCHANGED rejected
     ELSE /\ rejected' = TRUE
          /\ UNCHANGED caller

\* save_snapshot: load starts anew at the checkpoint.  validate does not see
\* that into_state cannot apply a snapshot at index 0 with a term other than
\* 0, for the log of a new NodeState begins at Zero.
SaveSnapshot(checkpoint) ==
  /\ validate_checkpoint(checkpoint)
  /\ loaded' = into_state(checkpoint)
  /\ caller' = CallerOf(checkpoint)
  /\ rejected' = (checkpoint.snapshot.last_included.index = 0 /\ checkpoint.snapshot.last_included # Zero)

Next ==
  \/ \E term \in Terms : SaveCurrentTerm(term)
  \/ \E voted_for \in Peers \cup {None} : SaveVotedFor(voted_for)
  \/ \E append \in LogAppend : AppendEntries(append)
  \/ \E term \in Terms, voted_for \in Peers \cup {None}, snapshot \in Snapshot, suffix \in LogAppend :
       SaveSnapshot([current_term |-> term, voted_for |-> voted_for,
                     snapshot |-> snapshot, suffix |-> suffix])

Spec == Init /\ [][Next]_vars

-------------------------------------------------------------------------------
(***************************************************************************)
(* Properties.                                                             *)
(***************************************************************************)

NodeStates ==
  [current_term : Terms, voted_for : Peers \cup {None},
   log : [config : Configs \cup {EmptyConfig}, entries : LogEntries],
   command_payloads : UNION { [S -> Payloads] : S \in SUBSET Indices },
   snapshot : [last_included : LogPosition, config : Configs \cup {EmptyConfig},
               data : Blobs \cup {EmptyPayload}]]

\* An error of the replay is not a state, nor a log.
ASSUME FailedAssumption == Failed \notin NodeStates /\ Failed \notin LogEntries

\* The types: a loaded state always has a snapshot, that of the checkpoint
\* its replay began with (into_state).
TypeOK ==
  /\ loaded \in NodeStates \cup {Failed}
  /\ rejected \in BOOLEAN

\* load returns what the caller stored, entry by entry, whatever it
\* overwrote or compacted, and fails exactly if an append since the newest
\* checkpoint had no anchor, or that checkpoint was one at index 0 with a
\* term: nothing else that validate accepts makes a later load fail, and a
\* new checkpoint mends it (apply_append_owned, apply_snapshot, into_state).
LoadMatchesCaller ==
  IF rejected THEN loaded = Failed
  ELSE loaded # Failed /\ View(loaded) = caller

\* A loaded state has one payload per command entry of its log and no
\* other: suffix replacement leaves no payload of a dropped entry behind.
PayloadsMatchCommands ==
  loaded # Failed => DOMAIN loaded.command_payloads = CommandIndices(loaded.log.entries)
===============================================================================
