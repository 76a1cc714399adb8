---------------------------- MODULE NodeStateProofs ----------------------------
(***************************************************************************)
(* load returns what the caller stored, for every set of terms, indices,   *)
(* payloads, configurations and snapshots.                                 *)
(***************************************************************************)
EXTENDS NodeState, WellFoundedInduction, TLAPS

\* A state that load can return: its log starts at its snapshot and stays
\* within the indices, and has one payload per command entry.
WellFormed(state) ==
  /\ state \in NodeStates
  /\ state.log.entries.prev = state.snapshot.last_included
  /\ last_index(state.log.entries) <= MaxIndex
  /\ DOMAIN state.command_payloads = CommandIndices(state.log.entries)

NInv ==
  /\ loaded = Failed \/ WellFormed(loaded)
  /\ rejected \in BOOLEAN
  /\ LoadMatchesCaller

-------------------------------------------------------------------------------
(***************************************************************************)
(* term_at.                                                                *)
(***************************************************************************)

\* A non-empty set of indices up to m has a greatest element.
LEMMA GreatestExists ==
  ASSUME NEW m \in Nat, NEW S \in SUBSET (1 .. m), S # {}
  PROVE  \E k \in S : \A j \in S : j <= k
<1> DEFINE T == { y \in Nat : m - y \in S }
           R == { ss \in Nat \X Nat : ss[1] < ss[2] }
<1>1. IsWellFoundedOn(R, Nat)
  BY NatLessThanWellFounded DEF OpToRel
<1>2. \A x, y \in Nat : <<y, x>> \in R <=> y < x
  OBVIOUS
<1>3. \A x \in S : x \in Nat /\ m - x \in Nat /\ m - x \in T
  OBVIOUS
<1>4. T \in SUBSET Nat /\ T # {} /\ \A t \in T : m - t \in S
  BY <1>3
<1> HIDE DEF R, T
<1>5. PICK t \in T : \A u \in T : <<u, t>> \notin R
  BY <1>1, <1>4, WFMin
<1>6. \A u \in T : ~(u < t)
  BY <1>2, <1>4, <1>5
<1>7. \A j \in S : j <= m - t
  BY <1>3, <1>4, <1>6
<1> QED BY <1>4, <1>7

\* The term at index i is that of the last term entry up to i ...
LEMMA TermAtStart ==
  ASSUME NEW e \in LogEntries, NEW i \in Nat, NEW k \in 1 .. i - e.prev.index,
         e.items[k].kind = "term",
         \A j \in 1 .. i - e.prev.index : e.items[j].kind = "term" => j <= k
  PROVE  term_at(e, i) = e.items[k].term
<1> DEFINE starts == { j \in 1 .. i - e.prev.index : e.items[j].kind = "term" }
<1>1. k \in starts /\ \A j \in starts : j <= k
  OBVIOUS
<1>2. starts \subseteq Int
  OBVIOUS
<1>3. \A c \in starts : (\A j \in starts : j <= c) => c = k
  BY <1>1, <1>2
<1>4. (CHOOSE c \in starts : \A j \in starts : j <= c) = k
  <2> HIDE DEF starts
  <2> QED BY <1>1, <1>3
<1> QED BY <1>1, <1>4 DEF term_at

\* ... and the term before the log if there is none.
LEMMA TermAtBase ==
  ASSUME NEW e \in LogEntries, NEW i \in Nat,
         \A j \in 1 .. i - e.prev.index : e.items[j].kind # "term"
  PROVE  term_at(e, i) = e.prev.term
  BY DEF term_at

\* Two logs with the same base and the same entries up to i agree on the
\* term at i.
LEMMA TermAtSame ==
  ASSUME NEW e \in LogEntries, NEW f \in LogEntries, NEW i \in Nat, f.prev = e.prev,
         \A j \in 1 .. i - e.prev.index : f.items[j] = e.items[j]
  PROVE  term_at(f, i) = term_at(e, i)
<1>1. { k \in 1 .. i - f.prev.index : f.items[k].kind = "term" }
        = { k \in 1 .. i - e.prev.index : e.items[k].kind = "term" }
  OBVIOUS
<1>t. e.prev.index \in Nat
  BY BoundsAssumption DEF LogEntries, LogPosition, Indices
<1> DEFINE starts == { k \in 1 .. i - e.prev.index : e.items[k].kind = "term" }
<1>2. CASE starts = {}
  BY <1>2, TermAtBase
<1>3. CASE starts # {}
  <2>1. i - e.prev.index \in Nat
    BY <1>t, <1>3
  <2>2. PICK k \in starts : \A j \in starts : j <= k
    BY <1>3, <2>1, GreatestExists
  <2>3. term_at(e, i) = e.items[k].term
    BY <2>2, TermAtStart
  <2>4. term_at(f, i) = f.items[k].term
    BY <2>2, TermAtStart
  <2> QED BY <2>2, <2>3, <2>4
<1> QED BY <1>2, <1>3

-------------------------------------------------------------------------------
(***************************************************************************)
(* Appends.                                                                *)
(***************************************************************************)

\* A log whose entries are indexed up to MaxIndex.
LEMMA EntriesTypes ==
  ASSUME NEW e \in LogEntries
  PROVE  /\ e.prev \in LogPosition /\ e.prev.index \in Nat /\ e.prev.term \in Terms
         /\ e.items \in Seq(LogEntry) /\ Len(e.items) \in Nat
         /\ last_index(e) = e.prev.index + Len(e.items)
         /\ last_index(e) \in Nat /\ e.prev.index <= last_index(e)
         /\ e = [prev |-> e.prev, items |-> e.items]
         /\ CommandIndices(e) \subseteq e.prev.index + 1 .. last_index(e)
<1>1. e.prev \in LogPosition /\ e.items \in Seq(LogEntry) /\ e = [prev |-> e.prev, items |-> e.items]
  BY DEF LogEntries
<1>2. e.prev.index \in Nat /\ e.prev.term \in Terms
  BY <1>1, BoundsAssumption DEF LogPosition, Indices
<1>3. Len(e.items) \in Nat
  BY <1>1
<1> QED BY <1>1, <1>2, <1>3 DEF last_index, CommandIndices

\* LogAppend::new builds appends with one payload per command entry.
LEMMA AppendTypes ==
  ASSUME NEW append \in LogAppend
  PROVE  /\ append.entries \in LogEntries
         /\ last_index(append.entries) <= MaxIndex
         /\ validate(append)
         /\ append.command_payloads \in [CommandIndices(append.entries) -> Payloads]
         /\ append = [entries |-> append.entries, command_payloads |-> append.command_payloads]
<1>1. PICK e \in { e \in [prev : LogPosition, items : UNION { [1 .. k -> LogEntry] : k \in 0 .. MaxEntries }] :
                     last_index(e) <= MaxIndex } :
        append \in { a \in [entries : {e}, command_payloads :
                               UNION { [S -> Payloads] : S \in SUBSET (e.prev.index .. last_index(e)) }] : validate(a) }
  BY DEF LogAppend
<1>2. append.entries = e /\ validate(append)
      /\ append = [entries |-> append.entries, command_payloads |-> append.command_payloads]
      /\ append.command_payloads \in UNION { [S -> Payloads] : S \in SUBSET (e.prev.index .. last_index(e)) }
  BY <1>1
<1>3. e \in LogEntries
  <2>1. PICK k \in 0 .. MaxEntries : e.items \in [1 .. k -> LogEntry]
    BY <1>1
  <2>2. k \in Nat
    BY BoundsAssumption
  <2>3. e.items \in Seq(LogEntry)
    BY <2>1, <2>2
  <2> QED BY <1>1, <2>3 DEF LogEntries
<1>4. PICK S \in SUBSET (e.prev.index .. last_index(e)) : append.command_payloads \in [S -> Payloads]
  BY <1>2
<1>5. S = CommandIndices(append.entries)
  <2>1. DOMAIN append.command_payloads = S
    BY <1>4
  <2> QED BY <1>2, <2>1 DEF validate, CommandIndices
<1> QED BY <1>1, <1>2, <1>3, <1>4, <1>5

LEMMA ConcatEffect ==
  ASSUME NEW s \in Seq(LogEntry), NEW t \in Seq(LogEntry)
  PROVE  /\ s \o t \in Seq(LogEntry)
         /\ Len(s \o t) = Len(s) + Len(t)
         /\ \A j \in 1 .. Len(s) : (s \o t)[j] = s[j]
         /\ \A j \in 1 .. Len(t) : (s \o t)[Len(s) + j] = t[j]
<1>1. s \o t \in Seq(LogEntry) /\ Len(s \o t) = Len(s) + Len(t) /\ Len(s) \in Nat /\ Len(t) \in Nat
  OBVIOUS
<1>2. \A i \in 1 .. Len(s) + Len(t) : (s \o t)[i] = IF i <= Len(s) THEN s[i] ELSE t[i - Len(s)]
  OBVIOUS
<1>3. \A j \in 1 .. Len(s) : (s \o t)[j] = s[j]
  BY <1>1, <1>2
<1>4. ASSUME NEW j \in 1 .. Len(t)
      PROVE  (s \o t)[Len(s) + j] = t[j]
  <2>1. Len(s) + j \in 1 .. Len(s) + Len(t) /\ ~(Len(s) + j <= Len(s)) /\ (Len(s) + j) - Len(s) = j
    BY <1>1
  <2> QED BY <1>2, <2>1
<1> QED BY <1>1, <1>3, <1>4

\* append_suffix keeps the entries up to the anchor and continues with those
\* of the suffix.
LEMMA SuffixEffect ==
  ASSUME NEW e \in LogEntries, NEW suffix \in LogEntries, contains(e, suffix.prev)
  PROVE  LET f == append_suffix(e, suffix)
             keep == suffix.prev.index - e.prev.index
         IN  /\ f \in LogEntries
             /\ f.prev = e.prev
             /\ last_index(f) = last_index(suffix)
             /\ keep \in Nat /\ keep <= Len(e.items)
             /\ \A j \in 1 .. keep : f.items[j] = e.items[j]
             /\ \A j \in 1 .. Len(suffix.items) : f.items[keep + j] = suffix.items[j]
<1> DEFINE f == append_suffix(e, suffix)
           keep == suffix.prev.index - e.prev.index
           head == SubSeq(e.items, 1, keep)
<1>t. /\ e.prev.index \in Nat /\ suffix.prev.index \in Nat /\ e.prev \in LogPosition
      /\ e.items \in Seq(LogEntry) /\ suffix.items \in Seq(LogEntry)
      /\ Len(e.items) \in Nat /\ Len(suffix.items) \in Nat
      /\ last_index(e) = e.prev.index + Len(e.items)
      /\ last_index(suffix) = suffix.prev.index + Len(suffix.items)
  BY EntriesTypes
<1>1. e.prev.index <= suffix.prev.index /\ suffix.prev.index <= last_index(e)
  BY DEF contains
<1>2. keep \in Nat /\ keep <= Len(e.items)
  BY <1>t, <1>1
<1>3. head \in Seq(LogEntry) /\ Len(head) = keep /\ \A j \in 1 .. keep : head[j] = e.items[j]
  <2> HIDE DEF keep
  <2> QED BY <1>t, <1>2
<1>4. f.prev = e.prev /\ f.items = head \o suffix.items /\ f = [prev |-> e.prev, items |-> head \o suffix.items]
  BY DEF append_suffix
<1>5. /\ head \o suffix.items \in Seq(LogEntry)
      /\ Len(head \o suffix.items) = keep + Len(suffix.items)
      /\ \A j \in 1 .. keep : (head \o suffix.items)[j] = head[j]
      /\ \A j \in 1 .. Len(suffix.items) : (head \o suffix.items)[keep + j] = suffix.items[j]
  <2> HIDE DEF head, keep
  <2> QED BY <1>t, <1>3, ConcatEffect
<1>6. f \in LogEntries
  BY <1>t, <1>4, <1>5 DEF LogEntries
<1>7. last_index(f) = last_index(suffix)
  <2>1. last_index(f) = e.prev.index + (keep + Len(suffix.items))
    BY <1>4, <1>5 DEF last_index
  <2> QED BY <1>t, <2>1
<1> HIDE DEF head
<1> QED BY <1>2, <1>3, <1>4, <1>5, <1>6, <1>7

\* The terms of a log after append_suffix: up to the anchor those of the old
\* log, from there on those of the suffix.
LEMMA SuffixTerms ==
  ASSUME NEW e \in LogEntries, NEW suffix \in LogEntries, contains(e, suffix.prev)
  PROVE  LET f == append_suffix(e, suffix)
         IN  /\ \A i \in Nat : i <= suffix.prev.index => term_at(f, i) = term_at(e, i)
             /\ \A i \in Nat : suffix.prev.index <= i /\ i <= last_index(suffix) => term_at(f, i) = term_at(suffix, i)
<1> DEFINE f == append_suffix(e, suffix)
           keep == suffix.prev.index - e.prev.index
<1>f. /\ f \in LogEntries /\ f.prev = e.prev
      /\ keep \in Nat /\ keep <= Len(e.items)
      /\ \A j \in 1 .. keep : f.items[j] = e.items[j]
      /\ \A j \in 1 .. Len(suffix.items) : f.items[keep + j] = suffix.items[j]
  BY SuffixEffect
<1>t. /\ e.prev.index \in Nat /\ suffix.prev.index \in Nat
      /\ Len(suffix.items) \in Nat
      /\ last_index(suffix) = suffix.prev.index + Len(suffix.items)
  BY EntriesTypes
<1>c. term_at(e, suffix.prev.index) = suffix.prev.term
  BY DEF contains
<1>k. suffix.prev.index = e.prev.index + keep
  BY <1>t
<1> HIDE DEF f, keep
<1>1. ASSUME NEW i \in Nat, i <= suffix.prev.index
      PROVE  term_at(f, i) = term_at(e, i)
  <2>1. \A j \in 1 .. i - e.prev.index : f.items[j] = e.items[j]
    BY <1>f, <1>t, <1>k, <1>1
  <2> QED BY <1>f, <2>1, TermAtSame
<1>2. ASSUME NEW i \in Nat, suffix.prev.index <= i, i <= last_index(suffix)
      PROVE  term_at(f, i) = term_at(suffix, i)
  <2> DEFINE m == i - suffix.prev.index
             starts == { j \in 1 .. m : suffix.items[j].kind = "term" }
  <2>1. m \in Nat /\ m <= Len(suffix.items) /\ i - f.prev.index = keep + m
    <3> DEFINE a == e.prev.index
               b == suffix.prev.index
               l == Len(suffix.items)
    <3>1. a \in Nat /\ b \in Nat /\ l \in Nat /\ keep \in Nat /\ f.prev.index = a /\ b = a + keep /\ b <= i /\ i <= b + l
      BY <1>f, <1>t, <1>k, <1>2
    <3> HIDE DEF a, b, l
    <3>2. i - b \in Nat /\ i - b <= l /\ i - a = keep + (i - b)
      BY <3>1
    <3> QED BY <3>1, <3>2 DEF b, l
  <2>2. \A j \in 1 .. keep + m : j \in 1 .. keep \/ (j - keep \in 1 .. m /\ j = keep + (j - keep))
    BY <1>f, <2>1
  <2>3. \A j \in 1 .. m : f.items[keep + j] = suffix.items[j]
    BY <1>f, <1>t, <2>1
  <2>4. CASE starts # {}
    <3>1. PICK k \in starts : \A j \in starts : j <= k
      BY <2>1, <2>4, GreatestExists
    <3>2. keep + k \in 1 .. keep + m /\ f.items[keep + k] = suffix.items[k]
      BY <1>f, <2>1, <2>3
    <3>3. ASSUME NEW j \in 1 .. keep + m, f.items[j].kind = "term"
          PROVE  j <= keep + k
      <4>1. CASE j \in 1 .. keep
        BY <1>f, <2>1, <4>1
      <4>2. CASE j - keep \in 1 .. m /\ j = keep + (j - keep)
        <5>1. j - keep \in starts
          BY <2>3, <3>3, <4>2
        <5>2. j - keep <= k
          BY <3>1, <5>1
        <5> QED BY <1>f, <2>1, <4>2, <5>2
      <4> QED BY <2>2, <4>1, <4>2
    <3>4. term_at(f, i) = f.items[keep + k].term
      BY <1>f, <2>1, <3>1, <3>2, <3>3, TermAtStart
    <3>5. term_at(suffix, i) = suffix.items[k].term
      BY <3>1, TermAtStart
    <3> QED BY <3>2, <3>4, <3>5
  <2>5. CASE starts = {}
    <3>1. term_at(suffix, i) = suffix.prev.term
      BY <2>5, TermAtBase
    <3>2. term_at(f, suffix.prev.index) = suffix.prev.term
      BY <1>t, <1>1, <1>c
    <3>3. \A j \in 1 .. keep + m : f.items[j].kind = "term" => j \in 1 .. keep
      BY <2>2, <2>3, <2>5
    <3>4. suffix.prev.index - f.prev.index = keep
      BY <1>f, <1>t, <1>k
    <3> DEFINE heads == { j \in 1 .. keep : f.items[j].kind = "term" }
    <3>5. CASE heads = {}
      <4>1. term_at(f, suffix.prev.index) = f.prev.term
        BY <1>f, <1>t, <3>4, <3>5, TermAtBase
      <4>2. term_at(f, i) = f.prev.term
        BY <1>f, <2>1, <3>3, <3>5, TermAtBase
      <4> QED BY <3>1, <3>2, <4>1, <4>2
    <3>6. CASE heads # {}
      <4>1. PICK k \in heads : \A j \in heads : j <= k
        BY <1>f, <3>6, GreatestExists
      <4>2. term_at(f, suffix.prev.index) = f.items[k].term
        BY <1>f, <1>t, <3>4, <4>1, TermAtStart
      <4>3. k \in 1 .. keep + m
        BY <1>f, <2>1
      <4>4. \A j \in 1 .. keep + m : f.items[j].kind = "term" => j <= k
        BY <3>3, <4>1
      <4>5. term_at(f, i) = f.items[k].term
        BY <1>f, <2>1, <4>1, <4>3, <4>4, TermAtStart
      <4> QED BY <3>1, <3>2, <4>2, <4>5
    <3> QED BY <3>5, <3>6
  <2> QED BY <2>4, <2>5
<1> QED BY <1>1, <1>2 DEF f

\* The command entries of a log after append_suffix.
LEMMA SuffixCommands ==
  ASSUME NEW e \in LogEntries, NEW suffix \in LogEntries, contains(e, suffix.prev)
  PROVE  CommandIndices(append_suffix(e, suffix))
           = { i \in CommandIndices(e) : i <= suffix.prev.index } \cup CommandIndices(suffix)
<1> DEFINE f == append_suffix(e, suffix)
           keep == suffix.prev.index - e.prev.index
<1>f. /\ f \in LogEntries /\ f.prev = e.prev /\ last_index(f) = last_index(suffix)
      /\ keep \in Nat /\ keep <= Len(e.items)
      /\ \A j \in 1 .. keep : f.items[j] = e.items[j]
      /\ \A j \in 1 .. Len(suffix.items) : f.items[keep + j] = suffix.items[j]
  BY SuffixEffect
<1>t. /\ e.prev.index \in Nat /\ suffix.prev.index \in Nat
      /\ Len(suffix.items) \in Nat /\ Len(e.items) \in Nat
      /\ last_index(e) = e.prev.index + Len(e.items)
      /\ last_index(suffix) = suffix.prev.index + Len(suffix.items)
  BY EntriesTypes
<1>k. suffix.prev.index = e.prev.index + keep
  BY <1>t
<1> HIDE DEF f, keep
<1>1. ASSUME NEW i \in e.prev.index + 1 .. last_index(suffix), i <= suffix.prev.index
      PROVE  /\ i \in e.prev.index + 1 .. last_index(e)
             /\ f.items[i - e.prev.index] = e.items[i - e.prev.index]
             /\ i \notin suffix.prev.index + 1 .. last_index(suffix)
  <2>1. i - e.prev.index \in 1 .. keep
    BY <1>f, <1>t, <1>k, <1>1
  <2>2. i \in e.prev.index + 1 .. last_index(e) /\ i \notin suffix.prev.index + 1 .. last_index(suffix)
    BY <1>f, <1>t, <1>k, <1>1
  <2> QED BY <1>f, <2>1, <2>2
<1>2. ASSUME NEW i \in suffix.prev.index + 1 .. last_index(suffix)
      PROVE  /\ i \in e.prev.index + 1 .. last_index(suffix)
             /\ f.items[i - e.prev.index] = suffix.items[i - suffix.prev.index]
             /\ ~(i <= suffix.prev.index)
  <2>1. i - suffix.prev.index \in 1 .. Len(suffix.items) /\ i - e.prev.index = keep + (i - suffix.prev.index)
    <3> DEFINE a == e.prev.index
               b == suffix.prev.index
               l == Len(suffix.items)
    <3>1. a \in Nat /\ b \in Nat /\ l \in Nat /\ keep \in Nat /\ b = a + keep /\ i \in b + 1 .. b + l
      BY <1>f, <1>t, <1>k
    <3> HIDE DEF a, b, l
    <3>2. i - b \in 1 .. l /\ i - a = keep + (i - b)
      BY <3>1
    <3> QED BY <3>2 DEF a, b, l
  <2>2. i \in e.prev.index + 1 .. last_index(suffix) /\ ~(i <= suffix.prev.index)
    BY <1>f, <1>t, <1>k
  <2> QED BY <1>f, <2>1, <2>2
<1>3. \A i \in e.prev.index + 1 .. last_index(suffix) :
        i <= suffix.prev.index \/ i \in suffix.prev.index + 1 .. last_index(suffix)
  BY <1>t
<1>4. \A i \in e.prev.index + 1 .. last_index(e) : i <= suffix.prev.index => i \in e.prev.index + 1 .. last_index(suffix)
  BY <1>t
<1>5. CommandIndices(f) = { i \in e.prev.index + 1 .. last_index(suffix) : f.items[i - e.prev.index].kind = "command" }
  BY <1>f DEF CommandIndices
<1>6. CommandIndices(f) \subseteq { i \in CommandIndices(e) : i <= suffix.prev.index } \cup CommandIndices(suffix)
  BY <1>1, <1>2, <1>3, <1>5 DEF CommandIndices
<1>7. { i \in CommandIndices(e) : i <= suffix.prev.index } \cup CommandIndices(suffix) \subseteq CommandIndices(f)
  BY <1>1, <1>2, <1>4, <1>5 DEF CommandIndices
<1> QED BY <1>6, <1>7 DEF f

\* The payloads after an append: those up to the anchor, and the new ones.
LEMMA SuffixPayloads ==
  ASSUME NEW e \in LogEntries, NEW append \in LogAppend, contains(e, append.entries.prev),
         last_index(e) <= MaxIndex, NEW payloads \in [CommandIndices(e) -> Payloads]
  PROVE  LET kept == { i \in DOMAIN payloads : i <= append.entries.prev.index }
             new  == extend(Restrict(payloads, kept), append.command_payloads)
         IN  /\ new \in [CommandIndices(append_suffix(e, append.entries)) -> Payloads]
             /\ \A i \in kept : i \notin DOMAIN append.command_payloads /\ new[i] = payloads[i]
             /\ \A i \in DOMAIN append.command_payloads : new[i] = append.command_payloads[i]
<1> DEFINE kept == { i \in DOMAIN payloads : i <= append.entries.prev.index }
           more == append.command_payloads
           old  == Restrict(payloads, kept)
           new  == extend(old, more)
<1>1. append.entries \in LogEntries /\ more \in [CommandIndices(append.entries) -> Payloads]
  BY AppendTypes
<1>2. DOMAIN payloads = CommandIndices(e) /\ DOMAIN more = CommandIndices(append.entries)
  BY <1>1
<1>3. old = [i \in kept |-> payloads[i]] /\ DOMAIN old = kept /\ \A i \in kept : old[i] = payloads[i]
  BY DEF Restrict
<1>4. CommandIndices(append_suffix(e, append.entries)) = kept \cup DOMAIN more
  BY <1>1, <1>2, SuffixCommands
<1>5. \A i \in kept : i \notin DOMAIN more
  <2>1. append.entries.prev.index \in Nat /\ DOMAIN more \subseteq append.entries.prev.index + 1 .. last_index(append.entries)
    BY <1>1, <1>2, EntriesTypes
  <2> QED BY <2>1
<1>6. \A i \in kept : payloads[i] \in Payloads
  OBVIOUS
<1>7. \A i \in DOMAIN more : more[i] \in Payloads
  BY <1>1
<1> HIDE DEF kept, more, old
<1>8. new = [i \in kept \cup DOMAIN more |-> IF i \in DOMAIN more THEN more[i] ELSE old[i]]
  BY <1>3 DEF extend
<1> HIDE DEF new
<1>9. /\ DOMAIN new = kept \cup DOMAIN more
      /\ \A i \in kept : i \notin DOMAIN more /\ new[i] = payloads[i]
      /\ \A i \in DOMAIN more : new[i] = more[i]
  BY <1>3, <1>5, <1>8
<1>10. new \in [kept \cup DOMAIN more -> Payloads]
  BY <1>6, <1>7, <1>8, <1>9
<1> QED BY <1>4, <1>9, <1>10 DEF new, kept, more, old

\* What apply_append_owned returns when the log has the anchor.
LEMMA ApplyAppend ==
  ASSUME NEW state \in NodeStates, NEW append, validate(append),
         contains(state.log.entries, append.entries.prev)
  PROVE  LET kept == { i \in DOMAIN state.command_payloads : i <= append.entries.prev.index }
         IN  apply_append_owned(state, append) =
               [current_term |-> state.current_term,
                voted_for |-> state.voted_for,
                log |-> [config |-> state.log.config,
                         entries |-> append_suffix(state.log.entries, append.entries)],
                command_payloads |-> extend(Restrict(state.command_payloads, kept), append.command_payloads),
                snapshot |-> state.snapshot]
<1> DEFINE kept == { i \in DOMAIN state.command_payloads : i <= append.entries.prev.index }
           es == append_suffix(state.log.entries, append.entries)
           ps == extend(Restrict(state.command_payloads, kept), append.command_payloads)
<1>1. apply_append_owned(state, append) = [state EXCEPT !.log.entries = es, !.command_payloads = ps]
  BY DEF apply_append_owned
<1>2. /\ state = [current_term |-> state.current_term, voted_for |-> state.voted_for, log |-> state.log,
                  command_payloads |-> state.command_payloads, snapshot |-> state.snapshot]
      /\ state.log = [config |-> state.log.config, entries |-> state.log.entries]
  BY DEF NodeStates
<1> HIDE DEF kept, es, ps
<1>3. [state.log EXCEPT !.entries = es] = [config |-> state.log.config, entries |-> es]
  BY <1>2
<1>4. [state EXCEPT !.log.entries = es, !.command_payloads = ps] =
        [current_term |-> state.current_term, voted_for |-> state.voted_for,
         log |-> [state.log EXCEPT !.entries = es], command_payloads |-> ps, snapshot |-> state.snapshot]
  <2> DEFINE logged == [current_term |-> state.current_term, voted_for |-> state.voted_for,
                        log |-> [state.log EXCEPT !.entries = es],
                        command_payloads |-> state.command_payloads, snapshot |-> state.snapshot]
  <2>1. [state EXCEPT !.log.entries = es] = logged
    BY <1>2
  <2>2. [state EXCEPT !.log.entries = es, !.command_payloads = ps]
          = [[state EXCEPT !.log.entries = es] EXCEPT !.command_payloads = ps]
    OBVIOUS
  <2>3. [logged EXCEPT !.command_payloads = ps] =
          [current_term |-> state.current_term, voted_for |-> state.voted_for,
           log |-> [state.log EXCEPT !.entries = es], command_payloads |-> ps, snapshot |-> state.snapshot]
    OBVIOUS
  <2> HIDE DEF logged
  <2> QED BY <2>1, <2>2, <2>3
<1> QED BY <1>1, <1>3, <1>4 DEF kept, es, ps

\* The slots that a log and its payloads describe.
LEMMA SlotsEffect ==
  ASSUME NEW e, NEW payloads
  PROVE  LET slots == Slots([entries |-> e, command_payloads |-> payloads])
         IN  /\ DOMAIN slots = e.prev.index + 1 .. last_index(e)
             /\ \A i \in e.prev.index + 1 .. last_index(e) :
                  slots[i] = [entry |-> e.items[i - e.prev.index], term |-> term_at(e, i),
                              payload |-> IF i \in DOMAIN payloads THEN payloads[i] ELSE None]
<1> DEFINE a == [entries |-> e, command_payloads |-> payloads]
<1>1. a.entries = e /\ a.command_payloads = payloads
  OBVIOUS
<1> HIDE DEF a
<1>2. Slots(a) = [i \in e.prev.index + 1 .. last_index(e) |->
                   [entry |-> e.items[i - e.prev.index], term |-> term_at(e, i),
                    payload |-> IF i \in DOMAIN payloads THEN payloads[i] ELSE None]]
  BY <1>1 DEF Slots
<1> QED BY <1>2 DEF a

\* The caller's picture of an append is what the replay makes of it: slots up
\* to the anchor stay, with entry, term and payload, the others are those of
\* the append.
LEMMA SlotsAppend ==
  ASSUME NEW e \in LogEntries, NEW append \in LogAppend, contains(e, append.entries.prev),
         last_index(e) <= MaxIndex, NEW payloads \in [CommandIndices(e) -> Payloads]
  PROVE  LET anchor == append.entries.prev
             kept   == { i \in DOMAIN payloads : i <= anchor.index }
             slots  == Slots([entries |-> e, command_payloads |-> payloads])
         IN  Slots([entries |-> append_suffix(e, append.entries),
                    command_payloads |-> extend(Restrict(payloads, kept), append.command_payloads)])
               = extend(Restrict(slots, { i \in DOMAIN slots : i <= anchor.index }), Slots(append))
<1> DEFINE a == append.entries
           f == append_suffix(e, a)
           kept == { i \in DOMAIN payloads : i <= a.prev.index }
           new == extend(Restrict(payloads, kept), append.command_payloads)
           slots == Slots([entries |-> e, command_payloads |-> payloads])
           more == Slots(append)
           after == Slots([entries |-> f, command_payloads |-> new])
           low == { i \in DOMAIN slots : i <= a.prev.index }
           keep == a.prev.index - e.prev.index
<1>a. /\ a \in LogEntries /\ append.command_payloads \in [CommandIndices(a) -> Payloads]
      /\ append = [entries |-> a, command_payloads |-> append.command_payloads]
  BY AppendTypes
<1>t. /\ e.prev.index \in Nat /\ a.prev.index \in Nat
      /\ Len(a.items) \in Nat /\ Len(e.items) \in Nat
      /\ last_index(e) = e.prev.index + Len(e.items)
      /\ last_index(a) = a.prev.index + Len(a.items)
      /\ CommandIndices(a) \subseteq a.prev.index + 1 .. last_index(a)
      /\ CommandIndices(e) \subseteq e.prev.index + 1 .. last_index(e)
  BY <1>a, EntriesTypes
<1>f. /\ f.prev = e.prev /\ last_index(f) = last_index(a)
      /\ keep \in Nat /\ keep <= Len(e.items)
      /\ \A j \in 1 .. keep : f.items[j] = e.items[j]
      /\ \A j \in 1 .. Len(a.items) : f.items[keep + j] = a.items[j]
  BY <1>a, SuffixEffect
<1>m. /\ \A i \in Nat : i <= a.prev.index => term_at(f, i) = term_at(e, i)
      /\ \A i \in Nat : a.prev.index <= i /\ i <= last_index(a) => term_at(f, i) = term_at(a, i)
  BY <1>a, SuffixTerms
<1>p. /\ DOMAIN new = CommandIndices(f)
      /\ CommandIndices(f) = { i \in CommandIndices(e) : i <= a.prev.index } \cup CommandIndices(a)
      /\ \A i \in kept : i \notin DOMAIN append.command_payloads /\ new[i] = payloads[i]
      /\ \A i \in DOMAIN append.command_payloads : new[i] = append.command_payloads[i]
  <2>1. /\ new \in [CommandIndices(f) -> Payloads]
        /\ \A i \in kept : i \notin DOMAIN append.command_payloads /\ new[i] = payloads[i]
        /\ \A i \in DOMAIN append.command_payloads : new[i] = append.command_payloads[i]
    BY SuffixPayloads
  <2>2. CommandIndices(f) = { i \in CommandIndices(e) : i <= a.prev.index } \cup CommandIndices(a)
    BY <1>a, SuffixCommands
  <2> HIDE DEF new, f, kept
  <2> QED BY <2>1, <2>2
<1>k. a.prev.index = e.prev.index + keep
  BY <1>t
<1>d. DOMAIN payloads = CommandIndices(e) /\ DOMAIN append.command_payloads = CommandIndices(a)
  BY <1>a
<1>s. /\ DOMAIN slots = e.prev.index + 1 .. last_index(e)
      /\ \A i \in e.prev.index + 1 .. last_index(e) :
           slots[i] = [entry |-> e.items[i - e.prev.index], term |-> term_at(e, i),
                       payload |-> IF i \in DOMAIN payloads THEN payloads[i] ELSE None]
  BY SlotsEffect
<1>o. /\ DOMAIN more = a.prev.index + 1 .. last_index(a)
      /\ \A i \in a.prev.index + 1 .. last_index(a) :
           more[i] = [entry |-> a.items[i - a.prev.index], term |-> term_at(a, i),
                      payload |-> IF i \in DOMAIN append.command_payloads THEN append.command_payloads[i] ELSE None]
  <2>1. more = Slots([entries |-> a, command_payloads |-> append.command_payloads])
    BY <1>a
  <2> HIDE DEF more, a
  <2> QED BY <2>1, SlotsEffect
<1>n. /\ DOMAIN after = e.prev.index + 1 .. last_index(a)
      /\ \A i \in e.prev.index + 1 .. last_index(a) :
           after[i] = [entry |-> f.items[i - e.prev.index], term |-> term_at(f, i),
                       payload |-> IF i \in DOMAIN new THEN new[i] ELSE None]
  <2> HIDE DEF f, new, a
  <2>1. /\ DOMAIN after = f.prev.index + 1 .. last_index(f)
        /\ \A i \in f.prev.index + 1 .. last_index(f) :
             after[i] = [entry |-> f.items[i - f.prev.index], term |-> term_at(f, i),
                         payload |-> IF i \in DOMAIN new THEN new[i] ELSE None]
    BY SlotsEffect
  <2> HIDE DEF after
  <2>2. f.prev.index = e.prev.index /\ last_index(f) = last_index(a)
    BY <1>f
  <2> QED BY <2>1, <2>2
<1>x. after = [i \in DOMAIN after |-> after[i]]
  BY DEF Slots
<1> HIDE DEF f, new, slots, more, after, keep, a
<1>1. ASSUME NEW i \in low
      PROVE  i \in DOMAIN after /\ i \notin DOMAIN more /\ after[i] = slots[i]
  <2>1. i \in e.prev.index + 1 .. last_index(e) /\ i <= a.prev.index /\ i \in Nat
    BY <1>s, <1>t
  <2>2. i \in e.prev.index + 1 .. last_index(a) /\ i \notin a.prev.index + 1 .. last_index(a)
    BY <1>t, <2>1
  <2>3. i - e.prev.index \in 1 .. keep
    BY <1>t, <1>f, <1>k, <2>1
  <2>4. f.items[i - e.prev.index] = e.items[i - e.prev.index] /\ term_at(f, i) = term_at(e, i)
    BY <1>f, <1>m, <2>1, <2>3
  <2>5. i \in DOMAIN new <=> i \in DOMAIN payloads
    BY <1>d, <1>p, <1>t, <2>1, <2>2
  <2>6. i \in DOMAIN payloads => new[i] = payloads[i]
    BY <1>p, <2>1
  <2> QED BY <1>n, <1>o, <1>s, <2>1, <2>2, <2>4, <2>5, <2>6
<1>2. ASSUME NEW i \in DOMAIN more
      PROVE  i \in DOMAIN after /\ after[i] = more[i]
  <2>1. i \in a.prev.index + 1 .. last_index(a) /\ i \in Nat /\ a.prev.index <= i /\ ~(i <= a.prev.index) /\ i <= last_index(a)
    BY <1>o, <1>t
  <2>2. i \in e.prev.index + 1 .. last_index(a)
    BY <1>t, <1>f, <1>k, <2>1
  <2>3. i - a.prev.index \in 1 .. Len(a.items) /\ i - e.prev.index = keep + (i - a.prev.index)
    <3> DEFINE x == e.prev.index
               b == a.prev.index
               l == Len(a.items)
    <3>1. x \in Nat /\ b \in Nat /\ l \in Nat /\ keep \in Nat /\ b = x + keep /\ i \in b + 1 .. b + l
      BY <1>f, <1>t, <1>k, <2>1
    <3> HIDE DEF x, b, l
    <3>2. i - b \in 1 .. l /\ i - x = keep + (i - b)
      BY <3>1
    <3> QED BY <3>2 DEF x, b, l
  <2>4. f.items[i - e.prev.index] = a.items[i - a.prev.index] /\ term_at(f, i) = term_at(a, i)
    BY <1>f, <1>m, <2>1, <2>3
  <2>5. i \in DOMAIN new <=> i \in DOMAIN append.command_payloads
    BY <1>d, <1>p, <2>1
  <2>6. i \in DOMAIN append.command_payloads => new[i] = append.command_payloads[i]
    BY <1>p
  <2> QED BY <1>n, <1>o, <2>1, <2>2, <2>4, <2>5, <2>6
<1>3. DOMAIN after = low \cup DOMAIN more
  <2>1. \A i \in e.prev.index + 1 .. last_index(a) : i \in low \/ i \in DOMAIN more
    <3> SUFFICES ASSUME NEW i \in e.prev.index + 1 .. last_index(a), i \notin DOMAIN more
                 PROVE  i \in low
      OBVIOUS
    <3>1. i <= a.prev.index
      BY <1>o, <1>t
    <3>2. i \in e.prev.index + 1 .. last_index(e)
      BY <1>f, <1>t, <1>k, <3>1
    <3> QED BY <1>s, <3>1, <3>2
  <2> QED BY <1>n, <1>1, <1>2, <2>1
<1> HIDE DEF low
<1>4. DOMAIN Restrict(slots, low) = low /\ \A i \in low : Restrict(slots, low)[i] = slots[i]
  BY DEF Restrict
<1>5. extend(Restrict(slots, low), more)
        = [i \in low \cup DOMAIN more |-> IF i \in DOMAIN more THEN more[i] ELSE Restrict(slots, low)[i]]
  BY <1>4 DEF extend
<1>6. \A i \in DOMAIN after : after[i] = IF i \in DOMAIN more THEN more[i] ELSE Restrict(slots, low)[i]
  BY <1>1, <1>2, <1>3, <1>4
<1>7. after = extend(Restrict(slots, low), more)
  BY <1>x, <1>3, <1>5, <1>6, Zenon
<1> QED BY <1>7 DEF f, new, slots, more, after, low, a, kept

-------------------------------------------------------------------------------
(***************************************************************************)
(* Checkpoints.                                                            *)
(***************************************************************************)

\* A log with no entries.
LEMMA NewEntriesEffect ==
  ASSUME NEW p \in LogPosition
  PROVE  /\ NewEntries(p) \in LogEntries
         /\ NewEntries(p).prev = p
         /\ last_index(NewEntries(p)) = p.index
         /\ \A q \in LogPosition : contains(NewEntries(p), q) <=> q = p
<1>1. p.index \in Nat /\ \A q \in LogPosition : q.index \in Nat /\ q = [term |-> q.term, index |-> q.index]
  BY BoundsAssumption DEF LogPosition, Indices
<1>2. NewEntries(p).prev = p /\ NewEntries(p).items = <<>> /\ Len(NewEntries(p).items) = 0
  BY DEF NewEntries
<1>3. NewEntries(p) \in LogEntries
  BY DEF NewEntries, LogEntries
<1>4. last_index(NewEntries(p)) = p.index
  BY <1>1, <1>2 DEF last_index
<1>5. term_at(NewEntries(p), p.index) = p.term
  <2>1. \A j \in 1 .. p.index - NewEntries(p).prev.index : FALSE
    BY <1>1, <1>2
  <2> QED BY <1>1, <1>2, <1>3, <2>1, TermAtBase
<1>6. ASSUME NEW q \in LogPosition
      PROVE  contains(NewEntries(p), q) <=> q = p
  <2>1. p.index <= q.index /\ q.index <= p.index <=> q.index = p.index
    BY <1>1
  <2>2. contains(NewEntries(p), q) <=> q.index = p.index /\ term_at(NewEntries(p), q.index) = q.term
    BY <1>2, <1>4, <2>1 DEF contains
  <2> QED BY <1>1, <1>5, <2>2
<1> QED BY <1>2, <1>3, <1>4, <1>6

LEMMA ZeroType == Zero \in LogPosition /\ Zero.index = 0 /\ Zero.term = 0
  BY BoundsAssumption DEF Zero, LogPosition, Terms, Indices

\* What is left of the empty log of a new NodeState after a snapshot.
LEMMA RetainedByDefault ==
  ASSUME NEW p \in LogPosition
  PROVE  retained_log_entries_after_snapshot(NewEntries(Zero), p)
           = IF p.index = 0 /\ p # Zero THEN Failed ELSE NewEntries(p)
<1>1. /\ NewEntries(Zero).prev = Zero /\ last_index(NewEntries(Zero)) = 0
      /\ contains(NewEntries(Zero), p) <=> p = Zero
  BY ZeroType, NewEntriesEffect
<1>2. p.index \in Nat
  BY BoundsAssumption DEF LogPosition, Indices
<1>3. since(NewEntries(Zero), Zero) = NewEntries(Zero)
  <2>1. NewEntries(Zero).items = <<>> /\ Zero.index - NewEntries(Zero).prev.index + 1 = 1
    BY <1>1, ZeroType DEF NewEntries
  <2>2. SubSeq(<<>>, 1, Len(<<>>)) = <<>>
    OBVIOUS
  <2> QED BY <2>1, <2>2 DEF since, NewEntries
<1>4. ~(p.index < NewEntries(Zero).prev.index)
  BY <1>1, <1>2, ZeroType
<1>5. p # Zero /\ p.index # 0 => last_index(NewEntries(Zero)) < p.index
  BY <1>1, <1>2
<1>6. p # Zero /\ p.index = 0 => ~(last_index(NewEntries(Zero)) < p.index)
  BY <1>1
<1>7. CASE p = Zero
  BY <1>1, <1>3, <1>4, <1>7 DEF retained_log_entries_after_snapshot
<1>8. CASE p # Zero
  BY <1>1, <1>4, <1>5, <1>6, <1>8 DEF retained_log_entries_after_snapshot
<1> QED BY <1>7, <1>8

\* The checkpoints that create_node and save_snapshot write.
Checkpoint ==
  { c \in [current_term : Terms, voted_for : Peers \cup {None},
            snapshot : [last_included : LogPosition, config : Configs \cup {EmptyConfig},
                        data : Blobs \cup {EmptyPayload}],
            suffix : [entries : LogEntries, command_payloads : UNION { [S -> Payloads] : S \in SUBSET Indices }]] :
      /\ validate_checkpoint(c)
      /\ last_index(c.suffix.entries) <= MaxIndex
      /\ c.suffix.command_payloads \in [CommandIndices(c.suffix.entries) -> Payloads] }

\* into_state builds exactly the state that the checkpoint describes, unless
\* its snapshot is at index 0 with a term.
LEMMA IntoState ==
  ASSUME NEW c \in Checkpoint
  PROVE  into_state(c) =
           IF c.snapshot.last_included.index = 0 /\ c.snapshot.last_included # Zero THEN Failed
           ELSE [current_term |-> c.current_term, voted_for |-> c.voted_for,
                 log |-> [config |-> c.snapshot.config, entries |-> c.suffix.entries],
                 command_payloads |-> c.suffix.command_payloads,
                 snapshot |-> c.snapshot]
<1> DEFINE p == c.snapshot.last_included
           none == [config |-> EmptyConfig, entries |-> NewEntries(Zero)]
           voted == apply_voted_for(apply_current_term(DefaultState, c.current_term), c.voted_for)
           rooted == apply_snapshot(voted, c.snapshot)
           kept == { i \in DOMAIN << >> : p.index < i }
           empty == Restrict(<< >>, kept)
<1>c. /\ c.current_term \in Terms /\ c.voted_for \in Peers \cup {None}
      /\ c.snapshot \in [last_included : LogPosition, config : Configs \cup {EmptyConfig}, data : Blobs \cup {EmptyPayload}]
      /\ p \in LogPosition /\ c.snapshot.config \in Configs \cup {EmptyConfig}
      /\ c.suffix.entries \in LogEntries
      /\ c.suffix.command_payloads \in [CommandIndices(c.suffix.entries) -> Payloads]
      /\ validate_checkpoint(c) /\ validate(c.suffix) /\ c.suffix.entries.prev = p
  BY DEF Checkpoint, validate_checkpoint
<1>1. voted = [current_term |-> c.current_term, voted_for |-> c.voted_for, log |-> none,
               command_payloads |-> << >>, snapshot |-> None]
  <2>1. apply_current_term(DefaultState, c.current_term) =
          [current_term |-> c.current_term, voted_for |-> None, log |-> none,
           command_payloads |-> << >>, snapshot |-> None]
    BY DEF apply_current_term, DefaultState
  <2> HIDE DEF none
  <2> QED BY <2>1 DEF apply_voted_for
<1>2. retained_log_entries_after_snapshot(voted.log.entries, p) = IF p.index = 0 /\ p # Zero THEN Failed ELSE NewEntries(p)
  BY <1>1, <1>c, RetainedByDefault
<1> HIDE DEF voted
<1>3. CASE p.index = 0 /\ p # Zero
  <2>1. rooted = Failed
    BY <1>2, <1>3 DEF apply_snapshot
  <2> HIDE DEF rooted
  <2>2. into_state(c) = Failed
    BY <2>1 DEF into_state, voted, rooted
  <2> QED BY <1>3, <2>2
<1>4. CASE ~(p.index = 0 /\ p # Zero)
  <2> DEFINE root == [config |-> c.snapshot.config, entries |-> NewEntries(p)]
             based == [current_term |-> c.current_term, voted_for |-> c.voted_for, log |-> root,
                       command_payloads |-> empty, snapshot |-> c.snapshot]
  <2>0. /\ NewEntries(p) \in LogEntries /\ NewEntries(p) # Failed /\ NewEntries(p).prev = p
        /\ contains(NewEntries(p), p)
    BY <1>c, NewEntriesEffect, FailedAssumption
  <2>e. kept = {} /\ empty \in [{} -> Payloads] /\ DOMAIN empty = {}
    <3>1. kept = {}
      OBVIOUS
    <3> QED BY <3>1 DEF Restrict
  <2>1. rooted = based
    <3>1. rooted = [voted EXCEPT !.command_payloads = empty, !.log = root, !.snapshot = c.snapshot]
      BY <1>1, <1>2, <1>4, <2>0 DEF apply_snapshot
    <3> HIDE DEF root, empty, none, rooted
    <3> DEFINE v1 == [voted EXCEPT !.command_payloads = empty]
               v2 == [v1 EXCEPT !.log = root]
    <3>2. [voted EXCEPT !.command_payloads = empty, !.log = root, !.snapshot = c.snapshot]
            = [v2 EXCEPT !.snapshot = c.snapshot]
      OBVIOUS
    <3>3. v1 = [current_term |-> c.current_term, voted_for |-> c.voted_for, log |-> none,
                command_payloads |-> empty, snapshot |-> None]
      BY <1>1
    <3> HIDE DEF v1
    <3>4. v2 = [current_term |-> c.current_term, voted_for |-> c.voted_for, log |-> root,
                command_payloads |-> empty, snapshot |-> None]
      BY <3>3
    <3> HIDE DEF v2
    <3>5. [v2 EXCEPT !.snapshot = c.snapshot] = based
      BY <3>4
    <3> QED BY <3>1, <3>2, <3>5
  <2>2. based \in NodeStates
    <3>1. root \in [config : Configs \cup {EmptyConfig}, entries : LogEntries]
      BY <1>c, <2>0
    <3>2. empty \in UNION { [S -> Payloads] : S \in SUBSET Indices }
      <4>1. {} \in SUBSET Indices
        OBVIOUS
      <4> HIDE DEF empty
      <4> QED BY <2>e, <4>1
    <3> HIDE DEF root, empty
    <3> QED BY <1>c, <3>1, <3>2 DEF NodeStates
  <2>3. /\ based.current_term = c.current_term /\ based.voted_for = c.voted_for
        /\ based.log.config = c.snapshot.config /\ based.log.entries = NewEntries(p)
        /\ based.command_payloads = empty /\ based.snapshot = c.snapshot
    OBVIOUS
  <2> HIDE DEF rooted, based, empty
  <2>4. into_state(c) = apply_append_owned(based, c.suffix)
    BY <1>c, <2>1, <2>2, FailedAssumption DEF into_state, voted, rooted
  <2>5. append_suffix(NewEntries(p), c.suffix.entries) = c.suffix.entries
    <3>1. NewEntries(p).items = <<>> /\ NewEntries(p).prev = p
      BY DEF NewEntries
    <3>2. p.index - p.index = 0
      BY <1>c, BoundsAssumption DEF LogPosition, Indices
    <3>3. SubSeq(<<>>, 1, 0) = <<>>
      OBVIOUS
    <3>4. c.suffix.entries.items \in Seq(LogEntry) /\ c.suffix.entries = [prev |-> p, items |-> c.suffix.entries.items]
      BY <1>c DEF LogEntries
    <3>5. <<>> \o c.suffix.entries.items = c.suffix.entries.items
      BY <3>4
    <3> QED BY <1>c, <3>1, <3>2, <3>3, <3>4, <3>5 DEF append_suffix
  <2>6. \A k : k = {} => extend(Restrict(empty, k), c.suffix.command_payloads) = c.suffix.command_payloads
    <3> DEFINE cp == c.suffix.command_payloads
    <3>1. cp = [i \in DOMAIN cp |-> cp[i]]
      BY <1>c
    <3> HIDE DEF cp
    <3>2. DOMAIN Restrict(empty, {}) = {}
      BY DEF Restrict
    <3>3. extend(Restrict(empty, {}), cp) = [i \in DOMAIN cp |-> IF i \in DOMAIN cp THEN cp[i] ELSE Restrict(empty, {})[i]]
      BY <3>2 DEF extend
    <3>4. extend(Restrict(empty, {}), cp) = cp
      BY <3>1, <3>3
    <3> QED BY <3>4 DEF cp
  <2>7. { i \in DOMAIN based.command_payloads : i <= c.suffix.entries.prev.index } = {}
    BY <2>e, <2>3
  <2>8. apply_append_owned(based, c.suffix) =
          [current_term |-> c.current_term, voted_for |-> c.voted_for,
           log |-> [config |-> c.snapshot.config, entries |-> append_suffix(NewEntries(p), c.suffix.entries)],
           command_payloads |-> extend(Restrict(empty, {}), c.suffix.command_payloads),
           snapshot |-> c.snapshot]
    <3>1. contains(based.log.entries, c.suffix.entries.prev)
      BY <1>c, <2>0, <2>3
    <3> QED BY <1>c, <2>2, <2>3, <2>7, <3>1, ApplyAppend
  <2> QED BY <1>4, <2>4, <2>5, <2>6, <2>8
<1> QED BY <1>3, <1>4

-------------------------------------------------------------------------------
(***************************************************************************)
(* The invariant.                                                          *)
(***************************************************************************)

LEMMA StateFields ==
  ASSUME NEW s \in NodeStates
  PROVE  /\ s = [current_term |-> s.current_term, voted_for |-> s.voted_for, log |-> s.log,
                 command_payloads |-> s.command_payloads, snapshot |-> s.snapshot]
         /\ s.log = [config |-> s.log.config, entries |-> s.log.entries]
         /\ s.current_term \in Terms /\ s.voted_for \in Peers \cup {None}
         /\ s.log \in [config : Configs \cup {EmptyConfig}, entries : LogEntries]
         /\ s.log.config \in Configs \cup {EmptyConfig} /\ s.log.entries \in LogEntries
         /\ s.command_payloads \in UNION { [S -> Payloads] : S \in SUBSET Indices }
         /\ s.snapshot \in [last_included : LogPosition, config : Configs \cup {EmptyConfig},
                            data : Blobs \cup {EmptyPayload}]
  BY DEF NodeStates

LEMMA PayloadTypes ==
  ASSUME NEW s, WellFormed(s)
  PROVE  s.command_payloads \in [CommandIndices(s.log.entries) -> Payloads]
<1>1. PICK S \in SUBSET Indices : s.command_payloads \in [S -> Payloads]
  BY StateFields DEF WellFormed
<1>2. S = CommandIndices(s.log.entries)
  BY <1>1 DEF WellFormed
<1> QED BY <1>1, <1>2

\* Command entries within the indices.
LEMMA CommandTypes ==
  ASSUME NEW e \in LogEntries, last_index(e) <= MaxIndex
  PROVE  CommandIndices(e) \in SUBSET Indices
<1>1. /\ e.prev.index \in Nat /\ last_index(e) \in Nat
      /\ CommandIndices(e) \subseteq e.prev.index + 1 .. last_index(e)
  BY EntriesTypes
<1> QED BY <1>1, BoundsAssumption DEF Indices

\* A state with the given fields.
LEMMA BuildState ==
  ASSUME NEW term \in Terms, NEW vote \in Peers \cup {None}, NEW config \in Configs \cup {EmptyConfig},
         NEW e \in LogEntries, last_index(e) <= MaxIndex,
         NEW payloads \in [CommandIndices(e) -> Payloads],
         NEW snapshot \in [last_included : LogPosition, config : Configs \cup {EmptyConfig},
                           data : Blobs \cup {EmptyPayload}],
         e.prev = snapshot.last_included
  PROVE  LET s == [current_term |-> term, voted_for |-> vote, log |-> [config |-> config, entries |-> e],
                   command_payloads |-> payloads, snapshot |-> snapshot]
         IN  /\ WellFormed(s)
             /\ s # Failed
             /\ View(s) = [current_term |-> term, voted_for |-> vote, snapshot |-> snapshot,
                           slots |-> Slots([entries |-> e, command_payloads |-> payloads])]
<1> DEFINE s == [current_term |-> term, voted_for |-> vote, log |-> [config |-> config, entries |-> e],
                 command_payloads |-> payloads, snapshot |-> snapshot]
<1>1. payloads \in UNION { [S -> Payloads] : S \in SUBSET Indices }
  BY CommandTypes
<1>2. s \in NodeStates
  BY <1>1 DEF NodeStates
<1>3. /\ s.log.entries = e /\ s.command_payloads = payloads /\ s.snapshot = snapshot
      /\ s.current_term = term /\ s.voted_for = vote
  OBVIOUS
<1>4. DOMAIN payloads = CommandIndices(e)
  OBVIOUS
<1> HIDE DEF s
<1>5. WellFormed(s)
  BY <1>2, <1>3, <1>4 DEF WellFormed
<1>6. View(s) = [current_term |-> term, voted_for |-> vote, snapshot |-> snapshot,
                 slots |-> Slots([entries |-> e, command_payloads |-> payloads])]
  BY <1>3 DEF View
<1> QED BY <1>2, <1>5, <1>6, FailedAssumption DEF s

\* The state that a new checkpoint begins.
LEMMA CheckpointState ==
  ASSUME NEW c \in Checkpoint, ~(c.snapshot.last_included.index = 0 /\ c.snapshot.last_included # Zero)
  PROVE  WellFormed(into_state(c)) /\ into_state(c) # Failed /\ View(into_state(c)) = CallerOf(c)
<1>1. into_state(c) = [current_term |-> c.current_term, voted_for |-> c.voted_for,
                       log |-> [config |-> c.snapshot.config, entries |-> c.suffix.entries],
                       command_payloads |-> c.suffix.command_payloads,
                       snapshot |-> c.snapshot]
  BY IntoState
<1>2. /\ c.current_term \in Terms /\ c.voted_for \in Peers \cup {None}
      /\ c.snapshot \in [last_included : LogPosition, config : Configs \cup {EmptyConfig}, data : Blobs \cup {EmptyPayload}]
      /\ c.snapshot.config \in Configs \cup {EmptyConfig}
      /\ c.suffix = [entries |-> c.suffix.entries, command_payloads |-> c.suffix.command_payloads]
      /\ c.suffix.entries \in LogEntries /\ last_index(c.suffix.entries) <= MaxIndex
      /\ c.suffix.command_payloads \in [CommandIndices(c.suffix.entries) -> Payloads]
      /\ c.suffix.entries.prev = c.snapshot.last_included
  BY DEF Checkpoint, validate_checkpoint
<1>3. /\ WellFormed(into_state(c)) /\ into_state(c) # Failed
      /\ View(into_state(c)) = [current_term |-> c.current_term, voted_for |-> c.voted_for, snapshot |-> c.snapshot,
                                slots |-> Slots([entries |-> c.suffix.entries,
                                                 command_payloads |-> c.suffix.command_payloads])]
  BY <1>1, <1>2, BuildState
<1>4. View(into_state(c)) = CallerOf(c)
  BY <1>2, <1>3 DEF CallerOf
<1> QED BY <1>3, <1>4

\* The caller knows the positions that the log contains.
LEMMA KnownIsContained ==
  ASSUME NEW s, WellFormed(s), caller = View(s), NEW p \in LogPosition
  PROVE  Known(p) <=> contains(s.log.entries, p)
<1> DEFINE e == s.log.entries
           slots == Slots([entries |-> e, command_payloads |-> s.command_payloads])
<1>1. e \in LogEntries /\ e.prev = s.snapshot.last_included
  BY StateFields DEF WellFormed
<1>2. caller.snapshot = s.snapshot /\ caller.slots = slots
  BY DEF View
<1> HIDE DEF e
<1>3. /\ DOMAIN slots = e.prev.index + 1 .. last_index(e)
      /\ \A i \in e.prev.index + 1 .. last_index(e) : slots[i].term = term_at(e, i)
  BY DEF Slots
<1> HIDE DEF slots
<1>4. /\ e.prev.index \in Nat /\ last_index(e) \in Nat /\ e.prev.index <= last_index(e)
      /\ e.prev \in LogPosition /\ p.index \in Nat
      /\ p = [term |-> p.term, index |-> p.index] /\ e.prev = [term |-> e.prev.term, index |-> e.prev.index]
  BY <1>1, EntriesTypes, BoundsAssumption DEF LogPosition, Indices
<1>5. term_at(e, e.prev.index) = e.prev.term
  <2>1. \A j \in 1 .. e.prev.index - e.prev.index : FALSE
    BY <1>4
  <2> QED BY <1>1, <1>4, <2>1, TermAtBase
<1>6. Known(p) <=> p = e.prev \/ (p.index \in e.prev.index + 1 .. last_index(e) /\ term_at(e, p.index) = p.term)
  BY <1>1, <1>2, <1>3 DEF Known
<1>7. e.prev.index <= p.index /\ p.index <= last_index(e)
        <=> p.index = e.prev.index \/ p.index \in e.prev.index + 1 .. last_index(e)
  BY <1>4
<1>8. contains(e, p) <=> e.prev.index <= p.index /\ p.index <= last_index(e) /\ term_at(e, p.index) = p.term
  BY DEF contains
<1>9. p.index = e.prev.index /\ term_at(e, p.index) = p.term <=> p = e.prev
  BY <1>4, <1>5
<1> QED BY <1>6, <1>7, <1>8, <1>9 DEF e

\* The state after an append whose anchor the log has.
LEMMA AppendState ==
  ASSUME NEW s, WellFormed(s), NEW append \in LogAppend, contains(s.log.entries, append.entries.prev)
  PROVE  LET r == apply_append_owned(s, append)
             slots == View(s).slots
         IN  /\ WellFormed(r)
             /\ r # Failed
             /\ View(r) = [View(s) EXCEPT !.slots =
                             extend(Restrict(slots, { i \in DOMAIN slots : i <= append.entries.prev.index }), Slots(append))]
<1> DEFINE e == s.log.entries
           f == append_suffix(e, append.entries)
           kept == { i \in DOMAIN s.command_payloads : i <= append.entries.prev.index }
           new == extend(Restrict(s.command_payloads, kept), append.command_payloads)
           r == apply_append_owned(s, append)
           slots == Slots([entries |-> e, command_payloads |-> s.command_payloads])
           later == extend(Restrict(slots, { i \in DOMAIN slots : i <= append.entries.prev.index }), Slots(append))
<1>1. /\ append.entries \in LogEntries /\ last_index(append.entries) <= MaxIndex /\ validate(append)
  BY AppendTypes
<1>2. s \in NodeStates /\ e \in LogEntries /\ last_index(e) <= MaxIndex
      /\ s.current_term \in Terms /\ s.voted_for \in Peers \cup {None} /\ s.log.config \in Configs \cup {EmptyConfig}
      /\ s.snapshot \in [last_included : LogPosition, config : Configs \cup {EmptyConfig}, data : Blobs \cup {EmptyPayload}]
  BY StateFields DEF WellFormed
<1>3. s.command_payloads \in [CommandIndices(e) -> Payloads]
  BY PayloadTypes
<1>4. r = [current_term |-> s.current_term, voted_for |-> s.voted_for,
           log |-> [config |-> s.log.config, entries |-> f], command_payloads |-> new, snapshot |-> s.snapshot]
  BY <1>1, <1>2, ApplyAppend
<1>5. f \in LogEntries /\ f.prev = s.snapshot.last_included /\ last_index(f) <= MaxIndex
  BY <1>1, <1>2, SuffixEffect DEF WellFormed
<1>6. new \in [CommandIndices(f) -> Payloads]
  BY <1>2, <1>3, SuffixPayloads
<1>7. Slots([entries |-> f, command_payloads |-> new]) = later
  BY <1>2, <1>3, SlotsAppend
<1>8. View(s) = [current_term |-> s.current_term, voted_for |-> s.voted_for, snapshot |-> s.snapshot, slots |-> slots]
      /\ View(s).slots = slots
  BY DEF View
<1> HIDE DEF e, kept, f, new, r, slots, later
<1>9. /\ WellFormed(r) /\ r # Failed
      /\ View(r) = [current_term |-> s.current_term, voted_for |-> s.voted_for, snapshot |-> s.snapshot,
                    slots |-> Slots([entries |-> f, command_payloads |-> new])]
  BY <1>2, <1>4, <1>5, <1>6, BuildState
<1>10. View(r) = [View(s) EXCEPT !.slots = later]
  BY <1>7, <1>8, <1>9
<1> QED BY <1>8, <1>9, <1>10 DEF r, later

-------------------------------------------------------------------------------
(***************************************************************************)
(* The checkpoints that the actions write.                                 *)
(***************************************************************************)

LEMMA InitialCheckpoint ==
  initial_checkpoint \in Checkpoint /\ initial_checkpoint.snapshot.last_included = Zero
<1> DEFINE e == NewEntries(Zero)
           snapshot == [last_included |-> Zero, config |-> EmptyConfig, data |-> EmptyPayload]
           suffix == [entries |-> e, command_payloads |-> << >>]
           c == [current_term |-> 0, voted_for |-> None, snapshot |-> snapshot, suffix |-> suffix]
<1>1. Zero \in LogPosition /\ 0 \in Terms
  BY ZeroType, BoundsAssumption DEF Terms
<1>2. Zero.index = 0
  BY DEF Zero
<1>3. e.prev = Zero /\ e.items = << >> /\ e \in LogEntries
  BY <1>1 DEF NewEntries, LogEntries
<1> HIDE DEF e
<1>4. last_index(e) = 0 /\ last_index(e) <= MaxIndex
  BY <1>2, <1>3, BoundsAssumption DEF last_index
<1>5. CommandIndices(e) = {}
  BY <1>2, <1>3, <1>4 DEF CommandIndices
<1>6. DOMAIN << >> = {} /\ << >> \in [{} -> Payloads]
  <2>1. << >> \in Seq(Payloads) /\ Len(<< >>) = 0
    OBVIOUS
  <2> QED BY <2>1
<1>7. << >> \in UNION { [S -> Payloads] : S \in SUBSET Indices }
  BY <1>6
<1>8. snapshot \in [last_included : LogPosition, config : Configs \cup {EmptyConfig},
                    data : Blobs \cup {EmptyPayload}] /\ snapshot.last_included = Zero
  BY <1>1
<1>9. /\ suffix \in [entries : LogEntries, command_payloads : UNION { [S -> Payloads] : S \in SUBSET Indices }]
      /\ suffix.entries = e /\ suffix.command_payloads = << >>
  BY <1>3, <1>7
<1> HIDE DEF snapshot, suffix
<1>10. validate(suffix)
  BY <1>5, <1>6, <1>9 DEF validate
<1>11. c \in [current_term : Terms, voted_for : Peers \cup {None},
              snapshot : [last_included : LogPosition, config : Configs \cup {EmptyConfig},
                          data : Blobs \cup {EmptyPayload}],
              suffix : [entries : LogEntries, command_payloads : UNION { [S -> Payloads] : S \in SUBSET Indices }]]
       /\ c.snapshot = snapshot /\ c.suffix = suffix
  BY <1>1, <1>8, <1>9
<1>12. initial_checkpoint = c
  BY DEF initial_checkpoint, e, snapshot, suffix
<1> HIDE DEF c
<1> QED BY <1>3, <1>4, <1>5, <1>6, <1>8, <1>9, <1>10, <1>11, <1>12 DEF Checkpoint, validate_checkpoint

LEMMA SavedCheckpoint ==
  ASSUME NEW term \in Terms, NEW voted_for \in Peers \cup {None}, NEW snapshot \in Snapshot, NEW suffix \in LogAppend,
         validate_checkpoint([current_term |-> term, voted_for |-> voted_for,
                              snapshot |-> snapshot, suffix |-> suffix])
  PROVE  [current_term |-> term, voted_for |-> voted_for, snapshot |-> snapshot, suffix |-> suffix] \in Checkpoint
<1> DEFINE c == [current_term |-> term, voted_for |-> voted_for, snapshot |-> snapshot, suffix |-> suffix]
<1>1. /\ suffix.entries \in LogEntries /\ last_index(suffix.entries) <= MaxIndex
      /\ suffix.command_payloads \in [CommandIndices(suffix.entries) -> Payloads]
      /\ suffix = [entries |-> suffix.entries, command_payloads |-> suffix.command_payloads]
  BY AppendTypes
<1>2. suffix.command_payloads \in UNION { [S -> Payloads] : S \in SUBSET Indices }
  BY <1>1, CommandTypes
<1>3. suffix \in [entries : LogEntries, command_payloads : UNION { [S -> Payloads] : S \in SUBSET Indices }]
  BY <1>1, <1>2
<1>4. snapshot \in [last_included : LogPosition, config : Configs \cup {EmptyConfig},
                    data : Blobs \cup {EmptyPayload}]
  BY DEF Snapshot
<1>5. c \in [current_term : Terms, voted_for : Peers \cup {None},
             snapshot : [last_included : LogPosition, config : Configs \cup {EmptyConfig},
                         data : Blobs \cup {EmptyPayload}],
             suffix : [entries : LogEntries, command_payloads : UNION { [S -> Payloads] : S \in SUBSET Indices }]]
      /\ c.suffix = suffix
  BY <1>3, <1>4
<1>6. validate_checkpoint(c)
  OBVIOUS
<1> HIDE DEF c
<1>7. c \in Checkpoint
  BY <1>1, <1>5, <1>6 DEF Checkpoint
<1> QED BY <1>7 DEF c

-------------------------------------------------------------------------------
(***************************************************************************)
(* The actions.                                                            *)
(***************************************************************************)

\* The state that save_current_term leaves behind.
LEMMA TermState ==
  ASSUME NEW s, WellFormed(s), NEW term \in Terms
  PROVE  /\ WellFormed(apply_current_term(s, term)) /\ apply_current_term(s, term) # Failed
         /\ View(apply_current_term(s, term)) = [View(s) EXCEPT !.current_term = term]
<1> DEFINE r == [s EXCEPT !.current_term = term]
           slots == Slots([entries |-> s.log.entries, command_payloads |-> s.command_payloads])
<1>1. s \in NodeStates
  BY DEF WellFormed
<1>2. r \in NodeStates
  BY <1>1 DEF NodeStates
<1>3. /\ r.current_term = term /\ r.voted_for = s.voted_for /\ r.log = s.log
      /\ r.command_payloads = s.command_payloads /\ r.snapshot = s.snapshot
  BY <1>1 DEF NodeStates
<1>4. apply_current_term(s, term) = r
  BY DEF apply_current_term
<1> HIDE DEF r
<1>5. WellFormed(r)
  BY <1>2, <1>3 DEF WellFormed
<1>6. /\ View(s) = [current_term |-> s.current_term, voted_for |-> s.voted_for, snapshot |-> s.snapshot, slots |-> slots]
      /\ View(r) = [current_term |-> term, voted_for |-> s.voted_for, snapshot |-> s.snapshot, slots |-> slots]
  BY <1>3 DEF View
<1> HIDE DEF slots
<1>7. View(r) = [View(s) EXCEPT !.current_term = term]
  BY <1>6
<1> QED BY <1>2, <1>4, <1>5, <1>7, FailedAssumption

\* The state that save_voted_for leaves behind.
LEMMA VoteState ==
  ASSUME NEW s, WellFormed(s), NEW vote \in Peers \cup {None}
  PROVE  /\ WellFormed(apply_voted_for(s, vote)) /\ apply_voted_for(s, vote) # Failed
         /\ View(apply_voted_for(s, vote)) = [View(s) EXCEPT !.voted_for = vote]
<1> DEFINE r == [s EXCEPT !.voted_for = vote]
           slots == Slots([entries |-> s.log.entries, command_payloads |-> s.command_payloads])
<1>1. s \in NodeStates
  BY DEF WellFormed
<1>2. r \in NodeStates
  BY <1>1 DEF NodeStates
<1>3. /\ r.voted_for = vote /\ r.current_term = s.current_term /\ r.log = s.log
      /\ r.command_payloads = s.command_payloads /\ r.snapshot = s.snapshot
  BY <1>1 DEF NodeStates
<1>4. apply_voted_for(s, vote) = r
  BY DEF apply_voted_for
<1> HIDE DEF r
<1>5. WellFormed(r)
  BY <1>2, <1>3 DEF WellFormed
<1>6. /\ View(s) = [current_term |-> s.current_term, voted_for |-> s.voted_for, snapshot |-> s.snapshot, slots |-> slots]
      /\ View(r) = [current_term |-> s.current_term, voted_for |-> vote, snapshot |-> s.snapshot, slots |-> slots]
  BY <1>3 DEF View
<1> HIDE DEF slots
<1>7. View(r) = [View(s) EXCEPT !.voted_for = vote]
  BY <1>6
<1> QED BY <1>2, <1>4, <1>5, <1>7, FailedAssumption

\* A checkpoint starts the replay anew, and makes it fail only at index 0.
LEMMA CheckpointNInv ==
  ASSUME NEW c \in Checkpoint, loaded' = into_state(c), caller' = CallerOf(c),
         rejected' = (c.snapshot.last_included.index = 0 /\ c.snapshot.last_included # Zero)
  PROVE  NInv'
<1> DEFINE bad == c.snapshot.last_included.index = 0 /\ c.snapshot.last_included # Zero
<1>1. rejected' \in BOOLEAN /\ (rejected' <=> bad)
  BY Zenon
<1>2. CASE bad
  <2>1. loaded' = Failed
    BY <1>2, IntoState
  <2> QED BY <1>1, <1>2, <2>1 DEF NInv, LoadMatchesCaller
<1>3. CASE ~bad
  <2>1. WellFormed(into_state(c)) /\ into_state(c) # Failed /\ View(into_state(c)) = CallerOf(c)
    BY <1>3, CheckpointState
  <2>2. WellFormed(loaded)' /\ loaded' # Failed /\ View(loaded)' = caller'
    BY <2>1
  <2> QED BY <1>1, <1>3, <2>2 DEF NInv, LoadMatchesCaller
<1> QED BY <1>2, <1>3

LEMMA InitNInv ==
  Init => NInv
<1> SUFFICES ASSUME Init PROVE NInv
  OBVIOUS
<1>1. /\ WellFormed(into_state(initial_checkpoint)) /\ into_state(initial_checkpoint) # Failed
      /\ View(into_state(initial_checkpoint)) = CallerOf(initial_checkpoint)
  BY InitialCheckpoint, CheckpointState
<1>2. WellFormed(loaded) /\ loaded # Failed /\ View(loaded) = caller /\ rejected = FALSE
  BY <1>1 DEF Init
<1> QED BY <1>2 DEF NInv, LoadMatchesCaller

LEMMA StepNInv ==
  NInv /\ [Next]_vars => NInv'
<1> SUFFICES ASSUME NInv, [Next]_vars PROVE NInv'
  OBVIOUS
<1>1. /\ rejected \in BOOLEAN /\ (rejected <=> loaded = Failed)
      /\ ~rejected => WellFormed(loaded) /\ View(loaded) = caller
  BY Zenon DEF NInv, LoadMatchesCaller
<1>2. ASSUME NEW term \in Terms, SaveCurrentTerm(term)
      PROVE  NInv'
  <2>1. CASE rejected
    <3>1. loaded' = Failed /\ rejected' = rejected
      BY <1>1, <1>2, <2>1 DEF SaveCurrentTerm, Replayed
    <3> QED BY <1>1, <2>1, <3>1 DEF NInv, LoadMatchesCaller
  <2>2. CASE ~rejected
    <3>1. /\ loaded' = apply_current_term(loaded, term) /\ caller' = [caller EXCEPT !.current_term = term]
          /\ rejected' = rejected
      BY <1>1, <1>2, <2>2 DEF SaveCurrentTerm, Replayed
    <3>2. /\ WellFormed(apply_current_term(loaded, term)) /\ apply_current_term(loaded, term) # Failed
          /\ View(apply_current_term(loaded, term)) = [caller EXCEPT !.current_term = term]
      BY <1>1, <2>2, TermState
    <3>3. WellFormed(loaded)' /\ loaded' # Failed /\ View(loaded)' = caller'
      BY <3>1, <3>2
    <3> QED BY <1>1, <2>2, <3>1, <3>3 DEF NInv, LoadMatchesCaller
  <2> QED BY <2>1, <2>2
<1>3. ASSUME NEW voted_for \in Peers \cup {None}, SaveVotedFor(voted_for)
      PROVE  NInv'
  <2>1. CASE rejected
    <3>1. loaded' = Failed /\ rejected' = rejected
      BY <1>1, <1>3, <2>1 DEF SaveVotedFor, Replayed
    <3> QED BY <1>1, <2>1, <3>1 DEF NInv, LoadMatchesCaller
  <2>2. CASE ~rejected
    <3>1. /\ loaded' = apply_voted_for(loaded, voted_for) /\ caller' = [caller EXCEPT !.voted_for = voted_for]
          /\ rejected' = rejected
      BY <1>1, <1>3, <2>2 DEF SaveVotedFor, Replayed
    <3>2. /\ WellFormed(apply_voted_for(loaded, voted_for)) /\ apply_voted_for(loaded, voted_for) # Failed
          /\ View(apply_voted_for(loaded, voted_for)) = [caller EXCEPT !.voted_for = voted_for]
      BY <1>1, <2>2, VoteState
    <3>3. WellFormed(loaded)' /\ loaded' # Failed /\ View(loaded)' = caller'
      BY <3>1, <3>2
    <3> QED BY <1>1, <2>2, <3>1, <3>3 DEF NInv, LoadMatchesCaller
  <2> QED BY <2>1, <2>2
<1>4. ASSUME NEW append \in LogAppend, AppendEntries(append)
      PROVE  NInv'
  <2> DEFINE anchor == append.entries.prev
  <2>1. CASE rejected
    <3>1. loaded' = Failed /\ rejected' = TRUE
      BY <1>1, <1>4, <2>1 DEF AppendEntries, Replayed
    <3> QED BY <3>1 DEF NInv, LoadMatchesCaller
  <2>2. CASE ~rejected
    <3>0. anchor \in LogPosition
      BY AppendTypes, EntriesTypes
    <3>1. Known(anchor) <=> contains(loaded.log.entries, anchor)
      BY <1>1, <2>2, <3>0, KnownIsContained
    <3>2. loaded' = apply_append_owned(loaded, append)
      BY <1>1, <1>4, <2>2 DEF AppendEntries, Replayed
    <3>3. CASE Known(anchor)
      <4> DEFINE r == apply_append_owned(loaded, append)
                 after == [caller EXCEPT !.slots =
                             extend(Restrict(@, { i \in DOMAIN @ : i <= anchor.index }), Slots(append))]
      <4>1. caller' = after /\ rejected' = rejected
        BY <1>4, <2>2, <3>3 DEF AppendEntries
      <4>2. WellFormed(r) /\ r # Failed /\ View(r) = after
        BY <1>1, <2>2, <3>1, <3>3, AppendState
      <4> HIDE DEF after
      <4>3. WellFormed(loaded)' /\ loaded' # Failed /\ View(loaded)' = caller'
        BY <3>2, <4>1, <4>2
      <4> QED BY <1>1, <2>2, <4>1, <4>3 DEF NInv, LoadMatchesCaller
    <3>4. CASE ~Known(anchor)
      <4>1. rejected' = TRUE
        BY <1>4, <3>4 DEF AppendEntries
      <4>2. loaded' = Failed
        BY <3>1, <3>2, <3>4 DEF apply_append_owned
      <4> QED BY <4>1, <4>2 DEF NInv, LoadMatchesCaller
    <3> QED BY <3>3, <3>4
  <2> QED BY <2>1, <2>2
<1>5. ASSUME NEW term \in Terms, NEW voted_for \in Peers \cup {None}, NEW snapshot \in Snapshot, NEW suffix \in LogAppend,
             SaveSnapshot([current_term |-> term, voted_for |-> voted_for,
                           snapshot |-> snapshot, suffix |-> suffix])
      PROVE  NInv'
  <2> DEFINE c == [current_term |-> term, voted_for |-> voted_for, snapshot |-> snapshot, suffix |-> suffix]
  <2>1. c \in Checkpoint
    BY <1>5, SavedCheckpoint DEF SaveSnapshot
  <2>2. SaveSnapshot(c)
    BY <1>5
  <2> HIDE DEF c
  <2> QED BY <2>1, <2>2, CheckpointNInv DEF SaveSnapshot
<1>6. ASSUME UNCHANGED vars
      PROVE  NInv'
  BY <1>6 DEF vars, NInv, WellFormed, LoadMatchesCaller, View
<1> QED BY <1>2, <1>3, <1>4, <1>5, <1>6 DEF Next

LEMMA NodeStateInvariance ==
  Spec => []NInv
BY InitNInv, StepNInv, PTL DEF Spec

-------------------------------------------------------------------------------
(***************************************************************************)
(* The theorems.                                                           *)
(***************************************************************************)

\* Whatever records are written, load returns a complete NodeState, with the
\* snapshot of a checkpoint, or an error (NodeState::apply_*, into_state).
THEOREM LoadedStateIsTyped ==
  Spec => []TypeOK
<1>1. NInv => TypeOK
  BY Zenon DEF NInv, WellFormed, TypeOK
<1> QED BY <1>1, NodeStateInvariance, PTL

\* load returns exactly what the caller stored, slot by slot, however its
\* appends overlapped and its checkpoints compacted, and it fails exactly if
\* an append since the newest checkpoint had no anchor in the log or that
\* checkpoint is one at index 0 with a term (apply_append_owned,
\* retained_log_entries_after_snapshot, SnapshotCheckpoint::into_state).
THEOREM LoadReturnsWhatWasStored ==
  Spec => []LoadMatchesCaller
<1>1. NInv => LoadMatchesCaller
  BY DEF NInv
<1> QED BY <1>1, NodeStateInvariance, PTL

\* A loaded state has a payload for each command entry of its log and for no
\* other index: the suffix replacement of apply_append_owned drops the
\* payloads of exactly the entries that it drops.
THEOREM PayloadsStayMatched ==
  Spec => []PayloadsMatchCommands
<1>1. NInv => PayloadsMatchCommands
  BY DEF NInv, WellFormed, PayloadsMatchCommands
<1> QED BY <1>1, NodeStateInvariance, PTL

===============================================================================
