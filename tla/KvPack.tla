-------------------------------- MODULE KvPack --------------------------------
(***************************************************************************)
(* The packed rows of a quantized K/V cache: the codebook indices of one   *)
(* vector, bits each, as pack_idx of src/kvquant.rs and the lanes of       *)
(* kv_store_q.comp write them and unpack_idx, attn_scores_q.comp and       *)
(* attn_out_q.comp read them.  Three layouts: groups of eight 3-bit        *)
(* indices in three bytes, byte-aligned planes, and a bit stream for the   *)
(* rest.                                                                   *)
(*                                                                         *)
(* A byte, and an index, is the set of the bits that are one in it: a shift  *)
(* moves them, | is the union.                                             *)
(***************************************************************************)
EXTENDS Integers

CONSTANTS
  Lengths,    \* coordinates of a vector (hd_padded)
  BitWidths,  \* bits of an index
  DeviceRows, \* <<length, bits>> of the rows the device stores
  Patterns    \* rows to store: functions of a coordinate, cut to the width

ASSUME KvPackAssumption ==
  /\ Lengths \subseteq Nat \ {0} /\ BitWidths \subseteq 1..8
  \* The head has whole groups, and a row that is not whole words is refused.
  /\ \A r \in DeviceRows :
       r[1] \in Nat \ {0} /\ r[2] \in 1..8 /\ r[1] % 8 = 0 /\ (r[1] * r[2]) % 32 = 0
  /\ \A p \in Patterns : \A n \in Lengths \cup {r[1] : r \in DeviceRows} :
       \A i \in 0..(n - 1) : p[i] \subseteq 0..7

VARIABLES
  kvAt,     \* "store" (the host), "lanes" (the device), "stored" or "off"
  len, bits,
  idx,      \* the indices to store
  unit,     \* the next index, group or byte
  lanes,    \* bytes of the device's row whose OR is still to come
  packed,   \* the row's bytes; what lies behind it is another row's
  touched   \* history: the bytes written

kvVars == <<kvAt, len, bits, idx, unit, lanes, packed, touched>>

Old == 0..7   \* what the buffer held before

CeilDiv(a, b) == (a + b - 1) \div b
PackedBytes == CeilDiv(len * bits, 8)

Coords == 0..(len - 1)
ByteAt(b) == packed[b]
Shr(v, k) == {j - k : j \in {b \in v : b >= k}}
Shl(v, k) == {j + k : j \in v}
Low(v, k) == {j \in v : j < k}
Shl8(v, k) == Low(Shl(v, k), 8)

\* pack_idx's choice; a plane's field never straddles a byte.
Layout ==
  IF bits = 3 /\ len % 8 = 0 THEN "groups"
  ELSE IF bits \in {1, 2, 4} THEN "planes" ELSE "stream"
PerByte == 8 \div bits

-----------------------------------------------------------------------------
KvIdle ==
  /\ kvAt = "off" /\ len = 1 /\ bits = 1 /\ idx = <<>> /\ unit = 0 /\ lanes = {}
  /\ packed = <<>> /\ touched = {}

\* out.fill(0) first, where the layout does not write every byte anyway.
Cleared == [b \in 0..PackedBytes |-> IF b < PackedBytes /\ Layout # "groups" THEN {} ELSE Old]

\* kv_store_q.comp: the lanes clear the words they build the row in.
ClearedWords == [b \in 0..PackedBytes |-> IF b < PackedBytes THEN {} ELSE Old]

\* Its lanes own a group's three bytes or a byte each; lane 0 has a stream alone.
ByLanes == bits \in {2, 3, 4}
LaneBytes ==
  IF ~ByLanes THEN {} ELSE 0..((IF bits = 3 THEN 3 * (len \div 8) ELSE len \div PerByte) - 1)

KvInit ==
  /\ \/ kvAt = "store" /\ len \in Lengths /\ bits \in BitWidths
        /\ packed = Cleared /\ lanes = {}
     \/ \E r \in DeviceRows :
          /\ kvAt = "lanes" /\ len = r[1] /\ bits = r[2]
          /\ packed = ClearedWords /\ lanes = LaneBytes
  /\ \E p \in Patterns : idx = [i \in Coords |-> Low(p[i], bits)]
  /\ unit = 0 /\ touched = {}

\* The bit stream: index i begins at bit i * bits and may straddle two bytes.
Straddles_AtEnd(off) == off + bits >= 8
Straddles(off) == off + bits > 8

PackOne ==
  /\ kvAt = "store" /\ Layout = "stream" /\ unit < len
  /\ LET byte == (unit * bits) \div 8
         off  == (unit * bits) % 8
         v    == idx[unit]
         one  == [packed EXCEPT ![byte] = @ \cup Shl8(v, off)]
     IN  IF Straddles(off)
         THEN /\ packed' = [one EXCEPT ![byte + 1] = @ \cup Shr(v, 8 - off)]
              /\ touched' = touched \cup {byte, byte + 1}
         ELSE packed' = one /\ touched' = touched \cup {byte}
  /\ unit' = unit + 1
  /\ UNCHANGED <<kvAt, len, bits, idx, lanes>>

\* Eight 3-bit indices as one number of 24 bits, and the coordinates a byte of a
\* plane holds; the last may hold fewer.
GroupBits(g) == UNION {Shl(Low(idx[g * 8 + k], 3), 3 * k) : k \in 0..7}
PlaneByte(b) ==
  UNION {Shl(Low(idx[b * PerByte + k], bits), bits * k) :
         k \in {m \in 0..(PerByte - 1) : b * PerByte + m < len}}

PackGroup ==
  /\ kvAt = "store" /\ Layout = "groups" /\ unit < len \div 8
  /\ LET v == GroupBits(unit)
     IN  packed' = [packed EXCEPT ![3 * unit] = Low(v, 8),
                                  ![3 * unit + 1] = Low(Shr(v, 8), 8),
                                  ![3 * unit + 2] = Shr(v, 16)]
  /\ touched' = touched \cup {3 * unit + k : k \in 0..2}
  /\ unit' = unit + 1
  /\ UNCHANGED <<kvAt, len, bits, idx, lanes>>

PackPlane ==
  /\ kvAt = "store" /\ Layout = "planes" /\ unit < CeilDiv(len, PerByte)
  /\ packed' = [packed EXCEPT ![unit] = PlaneByte(unit)]
  /\ touched' = touched \cup {unit}
  /\ unit' = unit + 1
  /\ UNCHANGED <<kvAt, len, bits, idx, lanes>>

Steps ==
  CASE Layout = "groups" -> len \div 8
    [] Layout = "planes" -> CeilDiv(len, PerByte)
    [] Layout = "stream" -> len

Stored ==
  /\ kvAt = "store" /\ unit = Steps
  /\ kvAt' = "stored"
  /\ UNCHANGED <<len, bits, idx, unit, lanes, packed, touched>>

\* A lane's byte, in whatever order the lanes come: four of them share a word.
LaneByte(b) ==
  IF bits = 3 THEN Low(Shr(GroupBits(b \div 3), 8 * (b % 3)), 8) ELSE PlaneByte(b)

StoreLane ==
  /\ kvAt = "lanes"
  /\ \E b \in lanes :
       /\ packed' = [packed EXCEPT ![b] = @ \cup LaneByte(b)]
       /\ lanes' = lanes \ {b}
  /\ UNCHANGED <<kvAt, len, bits, idx, unit, touched>>

\* Lane 0, index by index: what a shift leaves in the word, and the rest again
\* where the index straddles, in the next word or not.
StoreStream ==
  /\ kvAt = "lanes" /\ ~ByLanes /\ unit < len
  /\ LET byte == (unit * bits) \div 8
         off  == (unit * bits) % 8
         next == IF byte % 4 < 3 \/ off + bits > 8 THEN {byte + 1} ELSE {}
     IN  packed' = [b \in DOMAIN packed |->
           packed[b] \cup (IF b = byte THEN Shl8(idx[unit], off)
                           ELSE IF b \in next THEN Shr(idx[unit], 8 - off) ELSE {})]
  /\ unit' = unit + 1
  /\ UNCHANGED <<kvAt, len, bits, idx, lanes, touched>>

\* Behind the barriers the words go to the row (and the norm behind them).
StoreRow ==
  /\ kvAt = "lanes" /\ lanes = {} /\ (ByLanes \/ unit = len)
  /\ kvAt' = "stored"
  /\ touched' = 0..(PackedBytes - 1)
  /\ UNCHANGED <<len, bits, idx, unit, lanes, packed>>

KvNext ==
  PackOne \/ PackGroup \/ PackPlane \/ Stored \/ StoreLane \/ StoreStream \/ StoreRow
KvSpec == KvInit /\ [][KvNext]_kvVars

-----------------------------------------------------------------------------
\* A group as one 24-bit number.
Group(g) == ByteAt(3 * g) \cup Shl(ByteAt(3 * g + 1), 8) \cup Shl(ByteAt(3 * g + 2), 16)

\* unpack_bits: the byte, and the next one only where the index straddles.
FromStream(i) ==
  LET byte == (i * bits) \div 8
      off  == (i * bits) % 8
  IN  Low(IF off + bits > 8 THEN Shr(ByteAt(byte), off) \cup Shl(ByteAt(byte + 1), 8 - off)
          ELSE Shr(ByteAt(byte), off), bits)

\* unpack_idx
Unpacked(i) ==
  CASE Layout = "groups" -> Low(Shr(Group(i \div 8), 3 * (i % 8)), 3)
    [] Layout = "planes" -> Low(Shr(ByteAt(i \div PerByte), bits * (i % PerByte)), bits)
    [] Layout = "stream" -> FromStream(i)

\* The device reads 32-bit words: what a shift leaves of the word that byte b is
\* in, cut to the low bits.
InWord(b, off) ==
  Shr(ByteAt(b), off) \cup (IF b % 4 < 3 THEN Shl(ByteAt(b + 1), 8 - off) ELSE {})

\* attn_scores_q.comp walks the coordinates, attn_out_q.comp has a lane for each:
\* 3 bits are always groups there, 2 and 4 bits fields of a byte, the rest a
\* stream whose index may continue in the next word.
Device(i) ==
  CASE bits = 3 -> Low(Shr(Group(i \div 8), 3 * (i % 8)), 3)
    [] bits = 2 -> Low(InWord(i \div 4, 2 * (i % 4)), 2)
    [] bits = 4 -> Low(InWord(i \div 2, 4 * (i % 2)), 4)
    [] OTHER ->
         LET byte == (i * bits) \div 8
             off  == (i * bits) % 8
             lo   == Low(InWord(byte, off), bits)
         IN  IF off + bits > 8
             THEN lo \cup Shl(Low(ByteAt(byte + 1), off + bits - 8), 8 - off)
             ELSE lo

-----------------------------------------------------------------------------
\* What is read back is what was stored, in every layout, for lengths that do
\* not fill the last byte and whatever the buffer held before.
UnpacksAsPacked == kvAt = "stored" => \A i \in Coords : Unpacked(i) = idx[i]

\* The attention kernels read the same row the same way, whichever of the two
\* wrote it, where the device keeps rows at all: whole words and whole groups.
DeviceReadsTheRow ==
  kvAt = "stored" /\ len % 8 = 0 /\ PackedBytes % 4 = 0 => \A i \in Coords : Device(i) = idx[i]

\* A row never spills over: the index that ends in the last byte does not touch
\* the byte behind it, which is the next row's, and every byte of a row is
\* written before it is read.
RowKeepsItsBytes ==
  /\ kvAt # "off" => touched \subseteq 0..(PackedBytes - 1) /\ packed[PackedBytes] = Old
  /\ kvAt = "stored" => touched = 0..(PackedBytes - 1)

\* A packed row, of the host or of the device's lanes in any order, is read back
\* by both as it was stored, and stays within its own bytes.
StoresTheRow == UnpacksAsPacked /\ DeviceReadsTheRow /\ RowKeepsItsBytes
=============================================================================
