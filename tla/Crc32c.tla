-------------------------------- MODULE Crc32c --------------------------------
(***************************************************************************)
(* CRC-32C as crc32c.rs computes it: sixteen tables, sixteen bytes at a    *)
(* time, the rest byte by byte, and fed in pieces (scan_record_frame).     *)
(* The reference divides bit by bit.                                       *)
(*                                                                         *)
(* A word or byte is the set of the positions of its 1 bits.               *)
(***************************************************************************)
EXTENDS Integers, Sequences, FiniteSets

CONSTANTS
  FirstPieces,  \* sequences of bytes
  LastPieces    \* sequences of bytes that are fed after one of those

Bytes == SUBSET (0 .. 7)
Words == SUBSET (0 .. 31)

Xor(a, b) == (a \ b) \cup (b \ a)

\* The xor of several words: the bits that are in an odd number of them.
XorAll(words) == { b \in 0 .. 31 : Cardinality({ k \in DOMAIN words : b \in words[k] }) % 2 = 1 }

\* w >> n
ShiftRight(w, n) == { k - n : k \in { k \in w : k >= n } }

\* (w >> 8 * n) & 0xFF
ByteOf(w, n) == ShiftRight(w, 8 * n) \cap (0 .. 7)

Not(w) == (0 .. 31) \ w

\* 0x82F6_3B78
POLYNOMIAL == {3, 4, 5, 6, 8, 9, 11, 12, 13, 17, 18, 20, 21, 22, 23, 25, 31}

SLICE == 16

\* One bit of the division.
DivideBit(crc) ==
  IF 0 \in crc THEN Xor(ShiftRight(crc, 1), POLYNOMIAL) ELSE ShiftRight(crc, 1)

DivideByte(crc) ==
  LET after[n \in 0 .. 8] == IF n = 0 THEN crc ELSE DivideBit(after[n - 1])
  IN  IF crc = {} THEN {} ELSE after[8]

-------------------------------------------------------------------------------
(***************************************************************************)
(* The implementation.                                                     *)
(***************************************************************************)

\* table[0]
FirstTable == [i \in Bytes |-> DivideByte(i)]

\* table[slice][i] from table[slice - 1][i]
NextEntry(prev) == Xor(ShiftRight(prev, 8), FirstTable[ByteOf(prev, 0)])

\* make_table
TABLE ==
  [slice \in 0 .. SLICE - 1 |->
    [i \in Bytes |->
      LET entry[k \in 0 .. slice] == IF k = 0 THEN FirstTable[i] ELSE NextEntry(entry[k - 1])
      IN  entry[slice]]]

\* Mutant: the checksum so far is xored into the first byte only.
UpdateSlice_FirstByte(crc, bytes, i) ==
  LET index(k)  == IF k = 0 THEN Xor(bytes[i + k + 1], ByteOf(crc, k)) ELSE bytes[i + k + 1]
      lookup    == [k \in 0 .. SLICE - 1 |-> TABLE[SLICE - 1 - k][index(k)]]
  IN  XorAll(lookup)

\* Sixteen bytes, the first of which follows the first i.  The word w0 has
\* the checksum so far xored into it.
UpdateSlice(crc, bytes, i) ==
  LET index(k)  == IF k < 4 THEN Xor(bytes[i + k + 1], ByteOf(crc, k)) ELSE bytes[i + k + 1]
      lookup    == [k \in 0 .. SLICE - 1 |-> TABLE[SLICE - 1 - k][index(k)]]
  IN  XorAll(lookup)

UpdateByte(crc, byte) == Xor(ShiftRight(crc, 8), TABLE[0][ByteOf(Xor(crc, byte), 0)])

\* Crc32c::update
update(crc, bytes) ==
  LET slices == Len(bytes) \div SLICE
      fast[k \in 0 .. slices] ==
        IF k = 0 THEN crc ELSE UpdateSlice(fast[k - 1], bytes, SLICE * (k - 1))
      rest[i \in SLICE * slices .. Len(bytes)] ==
        IF i = SLICE * slices THEN fast[slices] ELSE UpdateByte(rest[i - 1], bytes[i])
  IN  rest[Len(bytes)]

value(crc) == Not(crc)

\* Crc32c::new
new == 0 .. 31

\* crc32c
crc32c(bytes) == value(update(new, bytes))

\* The division of the reference, byte after byte and bit by bit.
Divide(crc, bytes) ==
  LET after[i \in 0 .. Len(bytes)] == IF i = 0 THEN crc ELSE DivideByte(Xor(after[i - 1], bytes[i]))
  IN  after[Len(bytes)]

\* The checksum loop of scan_record_frame, for a body in two pieces.
Streamed(first, last) == value(update(update(new, first), last))

-------------------------------------------------------------------------------
(***************************************************************************)
(* Property.                                                               *)
(***************************************************************************)

\* The checksum that is written for a body (encode_record_frame, in one
\* piece) and the one that is found (scan_record_frame, in pieces that need
\* not end with a slice) are both its CRC-32C, whichever of the two loops of
\* Crc32c::update its bytes go through.
IsReference ==
  \A first \in FirstPieces, last \in LastPieces :
    LET reference == Not(Divide(0 .. 31, first \o last))
    IN  Streamed(first, last) = reference /\ crc32c(first \o last) = reference
===============================================================================
