----------------------------- MODULE MCSegmentFile -----------------------------
(* SegmentFile for TLC: records around the limits. *)
EXTENDS SegmentFile

Config(voters, new_voters) == [voters |-> voters, new_voters |-> new_voters, non_voters |-> {}]

SmallConfigs == {Config({}, {}), Config({1, 2}, {2})}

NoConfig == Config({}, {})

TermEntry == [kind |-> "term", term |-> 1, config |-> None]
Command   == [kind |-> "command", term |-> 0, config |-> None]
ConfigEntry(config) == [kind |-> "config", term |-> 0, config |-> config]

\* Three commands, and three voters, are one too many.
Items ==
  {<<>>, <<Command>>, <<TermEntry, Command>>, <<Command, Command>>, <<Command, Command, Command>>,
   <<ConfigEntry(Config({1, 2}, {})), Command>>, <<ConfigEntry(Config({1, 2, 3}, {}))>>}

SmallPayloads == {[tag |-> 0, bytes |-> <<>>], [tag |-> 1, bytes |-> <<0, 0>>]}

SmallBlobs == {<<>>, <<0, 0>>}

AppendsAt(prev) ==
  UNION { { [entries |-> [prev |-> prev, items |-> items], command_payloads |-> payloads] :
              payloads \in [CommandIndices([prev |-> prev, items |-> items]) -> SmallPayloads] } :
            items \in Items }

SmallAppends == AppendsAt([term |-> 1, index |-> 0])

SmallCheckpoints ==
  { [current_term |-> 1, voted_for |-> vote,
     snapshot |-> [last_included |-> [term |-> 1, index |-> 1], config |-> config, data |-> data],
     suffix |-> suffix] :
      vote \in {None, 2}, <<config, data>> \in {<<NoConfig, <<>>>>, <<Config({1, 2}, {2}), <<0, 0>>>>},
      suffix \in { a \in AppendsAt([term |-> 1, index |-> 1]) : Len(a.entries.items) < 2 } }

(***************************************************************************)
(* The checksum is linear in the bits that are fed, so pieces with a       *)
(* single 1 bit, at every place of a slice and with the others before or   *)
(* after it, reach every entry of the tables that matters.                 *)
(***************************************************************************)
Zeros(n) == [k \in 1 .. n |-> {}]

Mixed(n) == [k \in 1 .. n |-> {k % 8, (3 * k) % 8}]

Pieces ==
  { [Zeros(SLICE) EXCEPT ![k] = {b}] : k \in 1 .. SLICE, b \in 0 .. 7 }
    \cup { Mixed(n) : n \in {0, 1, 15, 17} }

Rests == { Mixed(n) : n \in {0, 1, 15, 17} } \cup {Zeros(SLICE)}

\* The vector of the unit test: "123456789" has checksum 0xE306_9283.
Digits == <<{0, 4, 5}, {1, 4, 5}, {0, 1, 4, 5}, {2, 4, 5}, {0, 2, 4, 5}, {1, 2, 4, 5},
            {0, 1, 2, 4, 5}, {3, 4, 5}, {0, 3, 4, 5}>>

ASSUME KnownVectors ==
  /\ crc32c(<<>>) = {}
  /\ crc32c(Digits) = {0, 1, 7, 9, 12, 15, 17, 18, 24, 25, 29, 30, 31}
===============================================================================
