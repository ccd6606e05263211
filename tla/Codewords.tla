----------------------------- MODULE Codewords -----------------------------
(***************************************************************************)
(* kompura.c, encode_codeword: what kompura wants to say (a literal, a     *)
(* length, a distance, the end, a length of the code tables) as a deflate  *)
(* symbol with extra bits, and what a reader makes of it (RFC 1951, 3.2.5  *)
(* and 3.2.7).  Table words keep their source form: `ld` times `lit`.      *)
(***************************************************************************)
EXTENDS Integers, Sequences

Symbol(code, bits, extra) == [code |-> code, num_extra_bits |-> bits, extra_bits |-> extra]
Plain(code) == Symbol(code, 0, 0)

Row(from, bits, first) == [from |-> from, bits |-> bits, first |-> first]

\* The branches of find_length_code and find_distance_code: the smallest value
\* of a branch, its extra bits and its first symbol.
LengthRows ==
  { Row(128, 5, 281), Row(64, 4, 277), Row(32, 3, 273), Row(16, 2, 269),
    Row(8, 1, 265), Row(0, 0, 257) }

DistanceRows ==
  { Row(16384, 13, 28), Row(8192, 12, 26), Row(4096, 11, 24), Row(2048, 10, 22),
    Row(1024, 9, 20), Row(512, 8, 18), Row(256, 7, 16), Row(128, 6, 14),
    Row(64, 5, 12), Row(32, 4, 10), Row(16, 3, 8), Row(8, 2, 6), Row(4, 1, 4),
    Row(0, 0, 0) }

RowOf(rows, code) ==
  CHOOSE r \in rows : /\ code >= r.from
                      /\ \A q \in rows : code >= q.from => q.from <= r.from

InRow(rows, code) ==
  LET r == RowOf(rows, code)
  IN  Symbol(r.first + (code - r.from) \div 2 ^ r.bits, r.bits, code % 2 ^ r.bits)

LengthSymbol(ld) == IF ld = 258 THEN Plain(285) ELSE InRow(LengthRows, ld - 3)
DistanceSymbol(ld) == InRow(DistanceRows, ld - 1)

\* The subtractions are unsigned and write_bits keeps the low bits.
Field(n, bits) == Symbol(0, bits, n % 2 ^ bits)

\* ld times the same length; a repeat has no room for fewer than 3.
TableSymbol(lit, ld) ==
  IF ld = 1 THEN Plain(lit)
  ELSE IF lit # 0 THEN [Field(ld - 3, 2) EXCEPT !.code = 16]
  ELSE IF ld < 11 THEN [Field(ld - 3, 3) EXCEPT !.code = 17]
  ELSE [Field(ld - 11, 7) EXCEPT !.code = 18]

encode_codeword(c) ==
  CASE c.type = "CW_LENGTH"   -> LengthSymbol(c.ld)
    [] c.type = "CW_DISTANCE" -> DistanceSymbol(c.ld)
    [] c.type = "CW_END"      -> Plain(256)
    [] c.type = "CW_TABLE"    -> TableSymbol(c.lit, c.ld)
    [] OTHER                  -> Plain(c.lit)

-----------------------------------------------------------------------------
(* The reader.                                                             *)

\* A symbol's extra bits, and the first length or distance it stands for.
LengthExtra(s) == IF s < 265 \/ s = 285 THEN 0 ELSE (s - 261) \div 4
DistanceExtra(s) == IF s < 4 THEN 0 ELSE (s - 2) \div 2

LengthBase[s \in 257 .. 285] ==
  CASE s = 257 -> 3
    [] s = 285 -> 258
    [] OTHER   -> LengthBase[s - 1] + 2 ^ LengthExtra(s - 1)

DistanceBase[s \in 0 .. 29] ==
  IF s = 0 THEN 1 ELSE DistanceBase[s - 1] + 2 ^ DistanceExtra(s - 1)

\* The lengths a reader of the tables appends, `last` being the one before.
Expand(symbol, last) ==
  CASE symbol.code = 16 -> [i \in 1 .. 3 + symbol.extra_bits |-> last]
    [] symbol.code = 17 -> [i \in 1 .. 3 + symbol.extra_bits |-> 0]
    [] symbol.code = 18 -> [i \in 1 .. 11 + symbol.extra_bits |-> 0]
    [] OTHER            -> <<symbol.code>>
=============================================================================
