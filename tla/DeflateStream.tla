---------------------------- MODULE DeflateStream ----------------------------
(***************************************************************************)
(* kompura.c, write_bits and write_compressed_data: blocks of code words   *)
(* become a string of bits in zeroed bytes, the lowest bit first.          *)
(*                                                                         *)
(* The end symbol of the last block is only written if the byte at hand    *)
(* has room for it (unless apple_gzip is set): the shell reads the program *)
(* from a pipe and does not mind that the stream breaks off.  What a       *)
(* reader makes of the padding is part of the question.                    *)
(*                                                                         *)
(* Code words are encode_codeword's, with all its numbers.  The tables of  *)
(* a dynamic block are the subject of TableLengths; here the reader knows  *)
(* the codes of a block.                                                   *)
(***************************************************************************)
EXTENDS Codewords, FiniteSets, SequencesExt, FiniteSetsExt

CONSTANTS
  ByteBits,   \* [8]
  LenBytes    \* [2] bytes of a stored block's length

ASSUME StreamAssumption == ByteBits \in Nat \ {0, 1, 2} /\ LenBytes \in Nat \ {0}

\* A code, as a function from symbols to the bits as sent.
IsCode(code) ==
  /\ \A s, t \in DOMAIN code : s # t => ~IsPrefix(code[s], code[t])
  /\ \A s \in DOMAIN code : code[s] \in Seq({0, 1}) /\ Len(code[s]) \in 1 .. 2 * ByteBits

VARIABLES
  dest, pos,     \* dest and pos: bytes, and the number of bits in them
  apple_gzip,    \* apple_gzip
  block,         \* the block being written, NoBlock between two
  written,       \* history: the blocks so far, `block` included
  sent           \* history: the bits so far

svars == <<dest, pos, apple_gzip, block, written, sent>>

Byte == 2 ^ ByteBits
NoBlock == [words |-> <<>>, next |-> 1]

-----------------------------------------------------------------------------
\* a | b of two bytes.
Or(a, b) ==
  FoldLeft(LAMBDA n, k : n + (IF ((a \div 2 ^ k) % 2) + ((b \div 2 ^ k) % 2) > 0 THEN 2 ^ k ELSE 0),
           0, [k \in 1 .. ByteBits |-> k - 1])

\* Mutant of Put: what does not fit in the byte is lost.
PutTruncated(d, at, data, bits) ==
  [d EXCEPT ![at \div ByteBits] = Or(@, ((data % 2 ^ bits) * 2 ^ (at % ByteBits)) % Byte)]

\* At most a byte of bits, into one byte or two.
Put(d, at, data, bits) ==
  LET v     == (data % 2 ^ bits) * 2 ^ (at % ByteBits)
      first == [d EXCEPT ![at \div ByteBits] = Or(@, v % Byte)]
  IN  IF (at % ByteBits) + bits > ByteBits
      THEN [first EXCEPT ![at \div ByteBits + 1] = Or(@, v \div Byte)]
      ELSE first

write_bits(d, at, data, bits) ==
  IF bits > ByteBits
  THEN Put(Put(d, at, data % Byte, ByteBits), at + ByteBits, data \div Byte, bits - ByteBits)
  ELSE Put(d, at, data, bits)

\* Bits, the first one lowest, as the number write_bits takes.
Value(s) == FoldLeft(LAMBDA n, k : n + s[k] * 2 ^ (k - 1), 0, [k \in DOMAIN s |-> k])

\* The calls of write_bits for these strings of bits, one after the other.
WriteString(acc, s) ==
  [d |-> write_bits(acc.d, acc.at, Value(s), Len(s)), at |-> acc.at + Len(s)]

Writing(strings) ==
  LET after == FoldLeft(WriteString, [d |-> dest, at |-> pos], strings)
  IN  /\ dest' = after.d /\ pos' = after.at
      /\ sent' = sent \o FlattenSeq(strings)

Ones(n) == [k \in 1 .. n |-> 1]
Zeros(n) == [k \in 1 .. n |-> 0]
LowBits(n, bits) == [k \in 1 .. bits |-> (n \div 2 ^ (k - 1)) % 2]

\* compress_with_nocompress: a byte stands for itself.
Raw == [items |-> [symbol \in 0 .. Byte - 1 |-> LowBits(symbol, ByteBits)], distances |-> <<>>]

-----------------------------------------------------------------------------
SInit(bytes) ==
  /\ dest = [n \in 0 .. bytes |-> 0] /\ pos = 0
  /\ apple_gzip \in BOOLEAN
  /\ block = NoBlock
  /\ written = <<>> /\ sent = <<>>

RawWord(byte) == [type |-> "CW_RAW", lit |-> byte, ld |-> 0]
EndWord == [type |-> "CW_END", lit |-> 0, ld |-> 0]

\* The bytes of a stored block's length and of its complement.
RawLengthWords(n) ==
  LET of(v) == [k \in 1 .. LenBytes |-> RawWord((v \div 2 ^ (ByteBits * (k - 1))) % Byte)]
  IN  of(n) \o of(2 ^ (ByteBits * LenBytes) - 1 - n)

Block(type, final, code, tables, words) ==
  [type |-> type, is_final |-> final, code |-> code, tables |-> tables, words |-> words, next |-> 1]

Started(b) ==
  /\ block = NoBlock
  /\ block' = b /\ written' = Append(written, b)
  /\ UNCHANGED apple_gzip

Final(final) == <<IF final THEN 1 ELSE 0>>

\* The header of a static or a dynamic block; the tables of the latter are bits
\* that say nothing here.
StartCoded(final, code, tables, words) ==
  /\ Started(Block("coded", final, code, tables, Append(words, EndWord)))
  /\ Writing(<<Final(final), LowBits(IF tables = 0 THEN 1 ELSE 2, 2)>>
              \o [k \in 1 .. tables \div (2 * ByteBits) |-> Ones(2 * ByteBits)]
              \o <<Ones(tables % (2 * ByteBits))>>)

\* Mutant of Padding: a stored block starts at once.
PaddingNone(at) == <<>>

Padding(at) ==
  IF at % ByteBits = 0 THEN <<>> ELSE <<Zeros(ByteBits - (at % ByteBits))>>

StartRaw(final, words) ==
  /\ Started(Block("raw", final, Raw, 0, words))
  /\ Writing(<<Final(final), LowBits(0, 2)>> \o Padding(pos + 3))

Word == block.words[block.next]
HasWord == block.next <= Len(block.words)
IsEnd == Word.type = "CW_END"

\* Symbol and extra bits of the word, and the bits of the symbol.
Encoded == encode_codeword(Word)
BitsOfWord(word, code) ==
  (IF word.type = "CW_DISTANCE" THEN code.distances ELSE code.items)[encode_codeword(word).code]
Bits == BitsOfWord(Word, block.code)

\* The end of the last block is left out if it does not fit in the byte.
LeavesOut ==
  /\ block.is_final /\ IsEnd
  /\ ~apple_gzip
  /\ \/ pos % ByteBits = 0
     \/ (pos % ByteBits) + Len(Bits) + Encoded.num_extra_bits > ByteBits

WriteWord ==
  /\ HasWord /\ ~LeavesOut
  /\ Writing(<<Bits>> \o IF Encoded.num_extra_bits = 0 THEN <<>>
                           ELSE <<LowBits(Encoded.extra_bits, Encoded.num_extra_bits)>>)
  /\ block' = [block EXCEPT !.next = @ + 1]
  /\ UNCHANGED <<apple_gzip, written>>

LeaveOutEnd ==
  /\ HasWord /\ LeavesOut
  /\ block' = NoBlock
  /\ UNCHANGED <<dest, pos, apple_gzip, written, sent>>

BlockOver ==
  /\ block # NoBlock /\ ~HasWord
  /\ block' = NoBlock
  /\ UNCHANGED <<dest, pos, apple_gzip, written, sent>>

SNext == WriteWord \/ LeaveOutEnd \/ BlockOver

-----------------------------------------------------------------------------
(* Properties.                                                             *)

\* write_bits: the bytes hold the bits that were sent, in order, and nothing
\* behind them, however words and bytes overlap.
BitsInOrder ==
  written # <<>> =>
    /\ pos = Len(sent)
    /\ \A n \in DOMAIN dest :
         LET end  == (n + 1) * ByteBits
             here == SubSeq(sent, n * ByteBits + 1, IF end > pos THEN pos ELSE end)
         IN  dest[n] = IF n * ByteBits >= pos THEN 0 ELSE Value(here)
=============================================================================
