--------------------------------- MODULE Codec ---------------------------------
(***************************************************************************)
(* The record format (codec.rs) and the recovery of a segment file: what   *)
(* encode_record_frame writes, what scan_record_frame and read_record_body *)
(* accept, what decode_node_record makes of it.                            *)
(*                                                                         *)
(* A file is a sequence of units: an integer field (of 1, 4 or 8 bytes) is *)
(* one unit, a byte string has one unit per byte.  Lengths count units.  A *)
(* field of which some bytes are missing counts as missing: read_exact     *)
(* treats both alike.                                                      *)
(***************************************************************************)
EXTENDS Records, SequencesExt

CONSTANTS
  NodeIds,        \* the nodes that write records
  Appends,        \* the log appends that they write ...
  Checkpoints,    \* ... and the checkpoints
  MaxCountItems,  \* MAX_COUNT_ITEMS
  MaxBodyLen,     \* MAX_RECORD_BODY_LEN
  MaxRecords,     \* bound on the records of the file
  ZeroFill,       \* how many zero units a power loss may leave at the end
  Err             \* the call failed

ASSUME LimitsAssumption ==
  {MaxCountItems, MaxBodyLen, MaxRecords, ZeroFill} \subseteq Nat

Record ==
  [kind : {"term"}, value : Terms]
    \cup [kind : {"vote"}, value : Peers \cup {None}]
    \cup [kind : {"append"}, value : Appends]
    \cup [kind : {"checkpoint"}, value : Checkpoints]

-------------------------------------------------------------------------------
(***************************************************************************)
(* Encoding.  Each operator gives the units of a value.  Whether a count   *)
(* or the length is beyond its limit is asked once, of the whole record:   *)
(* encode_count and check_append_len reject it wherever it happens.        *)
(***************************************************************************)

Ascending(S) == SetToSortSeq(S, <)

encode_optional_node_id(id) == IF id = None THEN <<0>> ELSE <<1, id>>

encode_log_position(position) == <<position.term, position.index>>

encode_node_id_set(ids) == <<Cardinality(ids)>> \o Ascending(ids)

encode_cluster_config(config) ==
  encode_node_id_set(config.voters) \o encode_node_id_set(config.new_voters)
    \o encode_node_id_set(config.non_voters)

put_bytes(bytes) == <<Len(bytes)>> \o bytes

encode_log_entry(entry) ==
  CASE entry.kind = "term"    -> <<0, entry.term>>
    [] entry.kind = "config"  -> <<1>> \o encode_cluster_config(entry.config)
    [] entry.kind = "command" -> <<2>>

encode_log_entries(e) ==
  encode_log_position(e.prev) \o <<Len(e.items)>>
    \o FlattenSeq([k \in DOMAIN e.items |-> encode_log_entry(e.items[k])])

encode_log_append(append) ==
  LET payloads == append.command_payloads
      indices  == Ascending(DOMAIN payloads)
  IN  encode_log_entries(append.entries) \o <<Len(indices)>>
        \o FlattenSeq([k \in DOMAIN indices |->
             <<indices[k], payloads[indices[k]].tag>> \o put_bytes(payloads[indices[k]].bytes)])

encode_snapshot(snapshot) ==
  encode_log_position(snapshot.last_included) \o encode_cluster_config(snapshot.config)
    \o put_bytes(snapshot.data)

encode_snapshot_checkpoint(checkpoint) ==
  <<checkpoint.current_term>> \o encode_optional_node_id(checkpoint.voted_for)
    \o encode_snapshot(checkpoint.snapshot) \o encode_log_append(checkpoint.suffix)

encode_record(record) ==
  CASE record.kind = "term"       -> <<0, record.value>>
    [] record.kind = "vote"       -> <<1>> \o encode_optional_node_id(record.value)
    [] record.kind = "append"     -> <<2>> \o encode_log_append(record.value)
    [] record.kind = "checkpoint" -> <<3>> \o encode_snapshot_checkpoint(record.value)

\* The numbers of items that encode_count is given.
ConfigCounts(config) ==
  { Cardinality(ids) : ids \in {config.voters, config.new_voters, config.non_voters} }

AppendCounts(append) ==
  {Len(append.entries.items), Cardinality(DOMAIN append.command_payloads)}
    \cup UNION { ConfigCounts(append.entries.items[k].config) :
                   k \in { k \in DOMAIN append.entries.items : append.entries.items[k].kind = "config" } }

Counts(record) ==
  CASE record.kind = "append"     -> AppendCounts(record.value)
    [] record.kind = "checkpoint" -> AppendCounts(record.value.suffix) \cup ConfigCounts(record.value.snapshot.config)
    [] OTHER                      -> {}

\* The validate() that encode_log_append and encode_snapshot_checkpoint call.
Valid(record) ==
  CASE record.kind = "append"     -> validate(record.value)
    [] record.kind = "checkpoint" -> validate_checkpoint(record.value)
    [] OTHER                      -> TRUE

\* crc32c: 0 for the empty body, as CRC-32C is, and otherwise some number
\* that depends on every unit.  Crc32c has the real one.
Checksum(body) ==
  LET crc[k \in 0 .. Len(body)] == IF k = 0 THEN 0 ELSE (31 * crc[k - 1] + body[k] + 1) % 65521
  IN  crc[Len(body)]

encode_record_frame(node_id, record) ==
  LET body == <<node_id>> \o encode_record(record)
  IN  IF ~Valid(record) \/ Len(body) > MaxBodyLen \/ \E count \in Counts(record) : count > MaxCountItems
      THEN Err
      ELSE <<Len(body), Checksum(body)>> \o body

-------------------------------------------------------------------------------
(***************************************************************************)
(* Decoding.  Decode(b, i) gives Err or the value v that starts at unit i  *)
(* of b, with the place i behind it.                                       *)
(***************************************************************************)

\* The `?` operator.
Then(result, F(_, _)) == IF result = Err THEN Err ELSE F(result.v, result.i)

At(v, i) == [v |-> v, i |-> i]

\* Decoder::take, and get_u8, get_u32, get_u64
get(b, i) == IF i <= Len(b) THEN At(b[i], i + 1) ELSE Err

get_bytes(b, i) ==
  Then(get(b, i), LAMBDA n, j :
    IF n > MaxBodyLen \/ j + n - 1 > Len(b) THEN Err ELSE At(SubSeq(b, j, j + n - 1), j + n))

\* Mutant: the largest count is rejected.
decode_count_Strict(b, i) ==
  Then(get(b, i), LAMBDA n, j : IF n >= MaxCountItems THEN Err ELSE At(n, j))

decode_count(b, i) ==
  Then(get(b, i), LAMBDA n, j : IF n > MaxCountItems THEN Err ELSE At(n, j))

\* A loop that decodes n values in a row.
Repeat(n, Decode(_, _), b, i) ==
  LET upto[k \in 0 .. n] ==
        IF k = 0 THEN At(<<>>, i)
        ELSE Then(upto[k - 1], LAMBDA values, j :
               Then(Decode(b, j), LAMBDA value, l : At(Append(values, value), l)))
  IN  upto[n]

decode_optional_node_id(b, i) ==
  Then(get(b, i), LAMBDA tag, j :
    CASE tag = 0 -> At(None, j) [] tag = 1 -> get(b, j) [] OTHER -> Err)

decode_log_position(b, i) ==
  Then(get(b, i), LAMBDA term, j :
    Then(get(b, j), LAMBDA index, k : At([term |-> term, index |-> index], k)))

\* A node ID that is there twice is an error.
decode_node_id_set(b, i) ==
  Then(decode_count(b, i), LAMBDA n, j :
    Then(Repeat(n, get, b, j), LAMBDA ids, k :
      IF Cardinality(Range(ids)) = n THEN At(Range(ids), k) ELSE Err))

decode_cluster_config(b, i) ==
  Then(Repeat(3, decode_node_id_set, b, i), LAMBDA sets, j :
    At([voters |-> sets[1], new_voters |-> sets[2], non_voters |-> sets[3]], j))

decode_log_entry(b, i) ==
  Then(get(b, i), LAMBDA tag, j :
    CASE tag = 0 -> Then(get(b, j), LAMBDA term, k : At([kind |-> "term", term |-> term, config |-> None], k))
      [] tag = 1 -> Then(decode_cluster_config(b, j), LAMBDA config, k :
                      At([kind |-> "config", term |-> 0, config |-> config], k))
      [] tag = 2 -> At([kind |-> "command", term |-> 0, config |-> None], j)
      [] OTHER   -> Err)

\* The last index must be an index.
decode_log_entries(b, i) ==
  Then(decode_log_position(b, i), LAMBDA prev, j :
    Then(decode_count(b, j), LAMBDA n, k :
      IF prev.index + n > MaxIndex THEN Err
      ELSE Then(Repeat(n, decode_log_entry, b, k), LAMBDA items, l :
             At([prev |-> prev, items |-> items], l))))

decode_payload(b, i) ==
  Then(get(b, i), LAMBDA index, j :
    Then(get(b, j), LAMBDA tag, k :
      Then(get_bytes(b, k), LAMBDA bytes, l :
        At([index |-> index, payload |-> [tag |-> tag, bytes |-> bytes]], l))))

\* A payload index that is there twice is an error, and LogAppend::new
\* validates the mapping.
decode_log_append(b, i) ==
  Then(decode_log_entries(b, i), LAMBDA entries, j :
    Then(decode_count(b, j), LAMBDA n, k :
      Then(Repeat(n, decode_payload, b, k), LAMBDA items, l :
        LET indices == { item.index : item \in Range(items) }
            append  == [entries |-> entries,
                        command_payloads |-> [x \in indices |->
                          (CHOOSE item \in Range(items) : item.index = x).payload]]
        IN  IF Cardinality(indices) = n /\ validate(append) THEN At(append, l) ELSE Err)))

decode_snapshot(b, i) ==
  Then(decode_log_position(b, i), LAMBDA last_included, j :
    Then(decode_cluster_config(b, j), LAMBDA config, k :
      Then(get_bytes(b, k), LAMBDA data, l :
        At([last_included |-> last_included, config |-> config, data |-> data], l))))

decode_snapshot_checkpoint(b, i) ==
  Then(get(b, i), LAMBDA term, j :
    Then(decode_optional_node_id(b, j), LAMBDA voted_for, k :
      Then(decode_snapshot(b, k), LAMBDA snapshot, l :
        Then(decode_log_append(b, l), LAMBDA suffix, m :
          LET checkpoint == [current_term |-> term, voted_for |-> voted_for,
                             snapshot |-> snapshot, suffix |-> suffix]
          IN  IF validate_checkpoint(checkpoint) THEN At(checkpoint, m) ELSE Err))))

\* The record of a tag.
decode_record(tag, b, i) ==
  LET As(kind, result) == Then(result, LAMBDA v, j : At([kind |-> kind, value |-> v], j))
  IN  CASE tag = 0 -> As("term", get(b, i))
        [] tag = 1 -> As("vote", decode_optional_node_id(b, i))
        [] tag = 2 -> As("append", decode_log_append(b, i))
        [] tag = 3 -> As("checkpoint", decode_snapshot_checkpoint(b, i))
        [] OTHER   -> Err

\* The node ID, the record, and nothing behind it (Decoder::finish).
decode_node_record(b) ==
  Then(get(b, 1), LAMBDA node_id, i :
    Then(get(b, i), LAMBDA tag, j :
      Then(decode_record(tag, b, j), LAMBDA record, k :
        IF k = Len(b) + 1 THEN [node |-> node_id, record |-> record] ELSE Err)))
===============================================================================
