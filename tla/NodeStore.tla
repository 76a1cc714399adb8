------------------------------- MODULE NodeStore -------------------------------
(***************************************************************************)
(* What the storage engine promises its callers, without segments, index,  *)
(* rotation, recovery or garbage collection: one log of records, of which  *)
(* a fault takes at most an end that is not durable; node IDs that are     *)
(* created once and removed once; and for each active node a state that is *)
(* always the records from its newest checkpoint on.                       *)
(***************************************************************************)

CONSTANTS
  Nodes,           \* node IDs
  Places,          \* places of the log ...
  Earlier(_, _)    \* ... and their order

VARIABLES
  log,              \* the record at each place that has one
  durable,          \* the places whose record a fault cannot take
  status,           \* of each node ID
  status_durable,   \* ... and what a fault may take it back to
  loaded            \* the records that load applies for each active node

vars == <<log, durable, status, status_durable, loaded>>

Record == [node : Nodes, checkpoint : BOOLEAN]

\* The state of node n: its records from its newest checkpoint on.
StateIn(records, n) ==
  { p \in DOMAIN records :
      /\ records[p].node = n
      /\ \A q \in DOMAIN records :
           records[q].node = n /\ records[q].checkpoint => ~Earlier(p, q) }

\* load succeeds for exactly the active nodes, with their state.
Visible ==
  loaded' = [n \in Nodes |-> IF status'[n] = "active" THEN StateIn(log', n) ELSE {}]

Init ==
  /\ log = << >>
  /\ durable = {}
  /\ status = [n \in Nodes |-> "unknown"]
  /\ status_durable = status
  /\ loaded = [n \in Nodes |-> {}]

\* A record is added behind all others.  Only the first record of a node,
\* a checkpoint, is written before the node is active.
Append(p, record) ==
  /\ \A q \in DOMAIN log : Earlier(q, p)
  /\ status[record.node] = "active" \/ (status[record.node] = "unknown" /\ record.checkpoint)
  /\ log' = [q \in DOMAIN log \cup {p} |-> IF q = p THEN record ELSE log[q]]
  /\ Visible
  /\ UNCHANGED <<durable, status, status_durable>>

\* More of the records, or of the statuses, become durable.
Harden ==
  /\ durable' \in SUBSET DOMAIN log
  /\ durable \subseteq durable'
  /\ status_durable' \in {status_durable, status}
  /\ UNCHANGED <<log, status, loaded>>

\* A node comes into being with a durable checkpoint.
Create(n) ==
  /\ status[n] = "unknown"
  /\ \E p \in durable : log[p] = [node |-> n, checkpoint |-> TRUE]
  /\ status' = [status EXCEPT ![n] = "active"]
  /\ Visible
  /\ UNCHANGED <<log, durable, status_durable>>

Remove(n) ==
  /\ status[n] = "active"
  /\ status' = [status EXCEPT ![n] = "removed"]
  /\ Visible
  /\ UNCHANGED <<log, durable, status_durable>>

\* A fault takes the end of the log, from some place that is not durable on,
\* and perhaps the last change of the statuses; what is left is durable.
Lose ==
  /\ \E kept \in SUBSET DOMAIN log :
       /\ durable \subseteq kept
       /\ \A p \in kept, q \in DOMAIN log : Earlier(q, p) => q \in kept
       /\ log' = [p \in kept |-> log[p]]
       /\ durable' = kept
  /\ status' \in {status, status_durable}
  /\ status_durable' = status'
  /\ Visible

Next ==
  \/ \E p \in Places, record \in Record : Append(p, record)
  \/ Harden
  \/ \E n \in Nodes : Create(n) \/ Remove(n)
  \/ Lose

Spec == Init /\ [][Next]_vars
===============================================================================
