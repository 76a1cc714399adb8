------------------------------ MODULE AtomicFile ------------------------------
(***************************************************************************)
(* What StorageEngine relies on in nodes.json and checkpoints.json: a file *)
(* whose content is replaced as a whole, and of which a power loss keeps   *)
(* the current content or the last one synchronized.                       *)
(***************************************************************************)
CONSTANT Contents   \* what a save may write, and the absence of the file

VARIABLES
  current,   \* what a reader gets
  durable    \* what a power loss may take it back to

vars == <<current, durable>>

Init == current \in Contents /\ durable = current

Replace(c) == current' = c /\ UNCHANGED durable

Sync == durable' = current /\ UNCHANGED current

PowerLoss == current' \in {current, durable} /\ durable' = current'

Next == (\E c \in Contents : Replace(c)) \/ Sync \/ PowerLoss

Spec == Init /\ [][Next]_vars
===============================================================================
