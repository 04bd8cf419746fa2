--------------------------------- MODULE Mach ---------------------------------
(***************************************************************************)
(* Byte encodings of mach0data, shared by the redo log records (MtrLog)    *)
(* and the undo log records (UndoRec).  mach0data is not part of the       *)
(* repository; the encodings follow the format its callers in mtr0log.cc   *)
(* and trx0rec.cc write and read.                                          *)
(*                                                                         *)
(* Compressed integers take 1 to 5 bytes: < 0x80 one byte; < 0x4000 two,   *)
(* flagged 0x8000; < 0x200000 three, flagged 0xC00000; < 0x10000000 four,  *)
(* flagged 0xE0000000; otherwise 0xF0 and the four bytes.  A 32-bit value  *)
(* of 2^31 or more (ULINT32_UNDEFINED, UNIV_SQL_NULL) is held as the       *)
(* negative number v - 2^32, which TLC can represent.  A 64-bit value is   *)
(* [high, low]: compressed, the high word compressed and the low word in   *)
(* four bytes; "much compressed", the low word alone when the high word is *)
(* 0, else 0xFF, then both words compressed.                              *)
(***************************************************************************)
EXTENDS Integers, Sequences

\* Mutant: the bytes are not truncated to 8 bits.
BigEndianWide(v, n) == [k \in 1..n |-> v \div (2 ^ (8 * (n - k)))]

\* mach_write_to_n: n bytes, most significant first.
BigEndian(v, n) == [k \in 1..n |-> (v \div (2 ^ (8 * (n - k)))) % 256]

mach_write_compressed(v) ==
  CASE v < 0         -> <<240>> \o BigEndian(v, 4)
    [] v < 128       -> BigEndian(v, 1)
    [] v < 16384     -> BigEndian(v + 32768, 2)
    [] v < 2097152   -> BigEndian(v + 12582912, 3)
    [] v < 268435456 -> <<224 + v \div 16777216>> \o BigEndian(v % 16777216, 3)
    [] OTHER         -> <<240>> \o BigEndian(v, 4)

mach_uint64_write_compressed(v) ==
  mach_write_compressed(v.high) \o BigEndian(v.low, 4)

mach_uint64_write_much_compressed(v) ==
  IF v.high = 0 THEN mach_write_compressed(v.low)
  ELSE <<255>> \o mach_write_compressed(v.high) \o mach_write_compressed(v.low)

\* The value of the n bytes of s from position i on.
RECURSIVE ReadBE(_, _, _)
ReadBE(s, i, n) == IF n = 0 THEN 0 ELSE ReadBE(s, i, n - 1) * 256 + s[i + n - 1]

\* The four bytes at s[i] as a 32-bit value (negative from 2^31 on).
ReadU32(s, i) == (IF s[i] >= 128 THEN s[i] - 256 ELSE s[i]) * 16777216 + ReadBE(s, i + 1, 3)

\* The bytes of a compressed integer whose first byte is b.
CompressedLen(b) ==
  CASE b < 128 -> 1 [] b < 192 -> 2 [] b < 224 -> 3 [] b < 240 -> 4 [] OTHER -> 5

\* The value of the n-byte compressed integer at s[i], first byte b.
CompressedVal(s, i, b, n) ==
  CASE n = 1 -> b
    [] n = 2 -> ReadBE(s, i, 2) - 32768
    [] n = 3 -> ReadBE(s, i, 3) - 12582912
    [] n = 4 -> (b - 224) * 16777216 + ReadBE(s, i + 1, 3)
    [] OTHER -> ReadU32(s, i + 1)

ParseCompressedN(s, i, e, n) ==
  IF i + n > e THEN [val |-> 0, next |-> -1]
  ELSE [val |-> CompressedVal(s, i, s[i], n), next |-> i + n]

\* mach_parse_compressed on the bytes s[i..e-1] (e is end_ptr): [val, next],
\* or next = -1 when the bytes end inside the number.
mach_parse_compressed(s, i, e) ==
  IF i >= e THEN [val |-> 0, next |-> -1]
  ELSE ParseCompressedN(s, i, e, CompressedLen(s[i]))

\* The low word after the compressed high word h.
ParseUint64Low(s, e, h) ==
  IF h.next = -1 \/ h.next + 4 > e THEN [val |-> 0, next |-> -1]
  ELSE [val |-> [high |-> h.val, low |-> ReadU32(s, h.next)], next |-> h.next + 4]

mach_uint64_parse_compressed(s, i, e) ==
  ParseUint64Low(s, e, mach_parse_compressed(s, i, e))

\* The low word after the 0xFF marker and the high word h.
ParseMuchLow(s, e, h) ==
  LET l == IF h.next = -1 THEN h ELSE mach_parse_compressed(s, h.next, e)
  IN IF l.next = -1 THEN [val |-> 0, next |-> -1]
     ELSE [val |-> [high |-> h.val, low |-> l.val], next |-> l.next]

\* mach_uint64_read_much_compressed with its size
\* (mach_uint64_get_much_compressed_size).
mach_uint64_parse_much_compressed(s, i, e) ==
  IF i >= e THEN [val |-> 0, next |-> -1]
  ELSE IF s[i] # 255
  THEN LET l == mach_parse_compressed(s, i, e)
       IN [val |-> [high |-> 0, low |-> l.val], next |-> l.next]
  ELSE ParseMuchLow(s, e, mach_parse_compressed(s, i + 1, e))

====
