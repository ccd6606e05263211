----------------------------- MODULE BlockChoice -----------------------------
(***************************************************************************)
(* kompura.c, kompura: how the image is cut into deflate blocks, and the   *)
(* stream that is made of them.                                            *)
(*                                                                         *)
(* The linker's blocks may be joined with their neighbours.  Every run of  *)
(* them is packed in Items ways (dispatch_apply, one slot of w each; they  *)
(* share nothing they write).  The shortest way moves to the first slot    *)
(* of its group, an odometer goes through all ways to cut the image, and   *)
(* the blocks of the best one are written.  comb[i] is the number of       *)
(* linker blocks that a block starting with linker block i has, less one.  *)
(*                                                                         *)
(* What the ways of packing make of a run of bytes is given: a coding is a *)
(* code, the bits of its tables (none if it is static) and the words.      *)
(***************************************************************************)
EXTENDS DeflateStream

CONSTANTS
  LinkerBlocks,  \* bound: values of linker_blocks, sequences of sizes
  Image(_),      \* the bytes of the image, from 1
  Items,         \* [8] CW_BLOCK_ITEMS
  Codings,       \* bound: results of packing, functions from names to codings
  Ways,          \* bound: by size, the tuples of codings of all ways but storing
  MaxRaw,        \* [65535] size of the longest block that can be stored
  HdrLen,        \* hdr_len, the shell stub and the header of gzip
  Room(_)        \* bound: by size of the image, the bytes of the buffer that are looked at

Sum(s) == FoldLeft(LAMBDA m, n : m + n, 0, s)

\* The bits of a word with its extra bits.
WordLength(word, code) ==
  Len(BitsOfWord(word, code)) + encode_codeword(word).num_extra_bits

CodedLength(coding) ==
  LET words == Append(coding.words, EndWord)
  IN  1 + 2 + coding.tables + Sum([k \in DOMAIN words |-> WordLength(words[k], coding.code)])

LengthOf == [c \in DOMAIN Codings |-> CodedLength(Codings[c])]

\* The name of no coding.
Storing == <<>>

\* Literals with the static code at their longest.
StaticLength(n) == 1 + 2 + (ByteBits + 1) * n + (ByteBits - 1)

\* The code has a symbol for the word.
Sendable(word, code) ==
  LET symbol == encode_codeword(word)
  IN  /\ symbol.code \in DOMAIN (IF word.type = "CW_DISTANCE" THEN code.distances ELSE code.items)
      /\ symbol.num_extra_bits \in 0 .. 2 * ByteBits /\ symbol.extra_bits \in Nat

ASSUME BlockAssumption ==
  /\ LinkerBlocks \subseteq Seq(Nat \ {0}) \ {<<>>}
  /\ Items \in Nat \ {0, 1} /\ MaxRaw \in Nat /\ HdrLen \in Nat
  /\ Storing \notin DOMAIN Codings
  /\ \A c \in DOMAIN Codings :
       LET code  == Codings[c].code
           words == Codings[c].words
       IN  /\ IsCode(code.items) /\ IsCode(code.distances) /\ 256 \in DOMAIN code.items
           /\ Codings[c].tables \in Nat
           /\ words \in Seq(Range(words)) /\ \A word \in Range(words) : Sendable(word, code)
  \* One of the ways is the static code, whose literals take 9 bits at most.
  /\ \A n \in DOMAIN Ways :
       /\ Ways[n] \subseteq [1 .. Items - 1 -> DOMAIN Codings]
       /\ \A names \in Ways[n] : \E way \in 1 .. Items - 1 : LengthOf[names[way]] <= StaticLength(n)
  /\ \A b \in LinkerBlocks :
       LET upto(k) == Sum(SubSeq(b, 1, k))
           n       == upto(Len(b))
       IN  /\ Room(n) \in Nat
           /\ \A k \in 1 .. n : Image(k) \in 0 .. Byte - 1
           /\ \A j \in 0 .. Len(b), k \in 0 .. Len(b) : j < k => upto(k) - upto(j) \in DOMAIN Ways
           \* LATURI_generate's least file is much longer than stub and headers.
           /\ HdrLen + (StaticLength(n) + ByteBits - 1) \div ByteBits <= 2 * n

VARIABLES
  blocks,                  \* linker_blocks
  w,                       \* w
  comb, best_comb,         \* comb, best_comb
  best_length,             \* best_length, -1 for ~0U
  i,                       \* i of the loop at hand
  out,                     \* history: the workloads written
  phase

vars == <<svars, blocks, w, comb, best_comb, best_length, i, out, phase>>

-----------------------------------------------------------------------------
lb_count == Len(blocks)

RawHeader == 2 * LenBytes

\* Mutant of RawLength: the bits up to the next byte are not counted.
RawLengthAligned(n) ==
  IF n > MaxRaw THEN 2 * ByteBits * n ELSE 1 + 2 + (n + RawHeader) * ByteBits

\* compress_with_nocompress: byte orientation is not known yet, and what is too
\* long to be stored gets a length that nobody chooses.
RawLength(n) ==
  IF n > MaxRaw THEN 2 * ByteBits * n
  ELSE 1 + 2 + (ByteBits - 1) + (n + RawHeader) * ByteBits

\* Slot x packs the linker blocks from First(x) to before Behind(x), in way Way(x);
\* it is filled if there are so many.
First(x) == (x % (lb_count * Items)) \div Items
Behind(x) == First(x) + x \div (lb_count * Items) + 1
Way(x) == x % Items
Offset(j) == Sum(SubSeq(blocks, 1, j))
Size(x) == Offset(Behind(x)) - Offset(First(x))

\* process_compress_workload; a coding's name, or Storing.
Workload(x, coding) ==
  [start_offset |-> Offset(First(x)), end_offset |-> Offset(Behind(x)), coding |-> coding,
   length |-> IF coding = Storing THEN RawLength(Size(x)) ELSE LengthOf[coding]]

Slot(c, j) == (c[j] * lb_count + j) * Items

Init ==
  /\ blocks \in LinkerBlocks
  /\ w = <<>>
  /\ comb = [j \in 0 .. lb_count - 1 |-> 0] /\ best_comb = comb
  /\ best_length = -1
  /\ i = 0 /\ out = <<>>
  /\ phase = "pack"
  /\ SInit(Room(Sum(blocks)))

-----------------------------------------------------------------------------
\* A group of Items slots packs one run of linker blocks.
Group(g) == g * Items .. g * Items + Items - 1

\* The calls that dispatch_apply makes for group i, a workload of its own each.
Pack ==
  /\ phase = "pack" /\ i < lb_count * lb_count
  /\ IF Behind(i * Items) > lb_count THEN w' = w
     ELSE \E names \in Ways[Size(i * Items)] :
            w' = [x \in DOMAIN w \cup Group(i) |->
                    IF x \notin Group(i) THEN w[x]
                    ELSE Workload(x, IF Way(x) = 0 THEN Storing ELSE names[Way(x)])]
  /\ i' = i + 1
  /\ UNCHANGED <<svars, blocks, comb, best_comb, best_length, out, phase>>

Packed ==
  /\ phase = "pack" /\ i = lb_count * lb_count
  /\ i' = 0 /\ phase' = "order"
  /\ UNCHANGED <<svars, blocks, w, comb, best_comb, best_length, out>>

-----------------------------------------------------------------------------
Exchange(v, x, y) == [v EXCEPT ![x] = v[y], ![y] = v[x]]

\* The shortest way to the front of group g, exchanged with what was there.
ShortestFirst(g) ==
  FoldLeft(LAMBDA v, j : IF v[g * Items].length > v[g * Items + j].length
                         THEN Exchange(v, g * Items, g * Items + j) ELSE v,
           w, [j \in 1 .. Items - 1 |-> j])

Order ==
  /\ phase = "order" /\ i < lb_count * lb_count
  /\ w' = IF i * Items \in DOMAIN w THEN ShortestFirst(i) ELSE w
  /\ i' = i + 1
  /\ UNCHANGED <<svars, blocks, comb, best_comb, best_length, out, phase>>

Ordered ==
  /\ phase = "order" /\ i = lb_count * lb_count
  /\ phase' = "measure"
  /\ UNCHANGED <<svars, blocks, w, comb, best_comb, best_length, i, out>>

-----------------------------------------------------------------------------
\* The first linker blocks of the blocks that c stands for.
Cut(c) ==
  LET from[j \in 0 .. 2 * lb_count] ==
        IF j >= lb_count THEN <<>> ELSE <<j>> \o from[j + c[j] + 1]
  IN  from[0]

\* Where the walk over c ends.
End(c) == LET last == Cut(c)[Len(Cut(c))] IN last + c[last] + 1

\* Mutant of Better: the comparison is the wrong way round.
BetterLonger(tmp_length) == best_length = -1 \/ tmp_length > best_length

Better(tmp_length) == best_length = -1 \/ tmp_length < best_length

Measure ==
  /\ phase = "measure"
  /\ LET tmp_length == Sum([n \in DOMAIN Cut(comb) |-> w[Slot(comb, Cut(comb)[n])].length])
     IN  IF Better(tmp_length)
         THEN best_length' = tmp_length /\ best_comb' = comb
         ELSE UNCHANGED <<best_length, best_comb>>
  /\ phase' = "advance"
  /\ UNCHANGED <<svars, blocks, w, comb, i, out>>

Wraps(c, j) == c[j] + 1 = lb_count - j

\* Mutant of Advanced: digits that wrap are not set back.
AdvancedKeep(c, j) == [c EXCEPT ![j] = @ + 1]

\* Digit j moves on, those behind it start again.
Advanced(c, j) ==
  [n \in DOMAIN c |-> IF n < j THEN c[n] ELSE IF n = j THEN c[n] + 1 ELSE 0]

Advance ==
  /\ phase = "advance"
  /\ \E j \in DOMAIN comb :
       /\ ~Wraps(comb, j) /\ \A n \in DOMAIN comb : n > j => Wraps(comb, n)
       /\ comb' = Advanced(comb, j)
       /\ phase' = IF End(comb') = lb_count THEN "measure" ELSE "advance"
  /\ UNCHANGED <<svars, blocks, w, best_comb, best_length, i, out>>

Exhausted ==
  /\ phase = "advance"
  /\ \A j \in DOMAIN comb : Wraps(comb, j)
  /\ i' = 0 /\ phase' = "write"
  /\ UNCHANGED <<svars, blocks, w, comb, best_comb, best_length, out>>

-----------------------------------------------------------------------------
IsFinal(j) == j + best_comb[j] + 1 = lb_count

Bytes(x) == [k \in 1 .. x.end_offset - x.start_offset |-> RawWord(Image(x.start_offset + k))]

\* compress_with_nocompress gives up on what is too long.
RawWords(x) ==
  IF Len(Bytes(x)) > MaxRaw THEN <<>> ELSE RawLengthWords(Len(Bytes(x))) \o Bytes(x)

\* The header of write_compressed_data; its loop is WriteWord.
Write ==
  /\ phase = "write" /\ i < lb_count
  /\ LET x == w[Slot(best_comb, i)]
     IN  /\ out' = Append(out, x)
         /\ IF x.coding = Storing THEN StartRaw(IsFinal(i), RawWords(x))
            ELSE LET c == Codings[x.coding] IN StartCoded(IsFinal(i), c.code, c.tables, c.words)
  /\ i' = i + best_comb[i] + 1
  /\ UNCHANGED <<blocks, w, comb, best_comb, best_length, phase>>

WriteOn == SNext /\ UNCHANGED <<blocks, w, comb, best_comb, best_length, i, out, phase>>

Finished == phase = "write" /\ i >= lb_count /\ block = NoBlock

\* The bytes of the compressed file.
retlen == (pos + ByteBits - 1) \div ByteBits + HdrLen

Terminating == Finished /\ UNCHANGED vars

Next ==
  \/ Pack \/ Packed \/ Order \/ Ordered
  \/ Measure \/ Advance \/ Exhausted
  \/ Write \/ WriteOn
  \/ Terminating

Spec == Init /\ [][Next]_vars

-----------------------------------------------------------------------------
(* Properties.                                                             *)

\* What is written covers the image once, in order, and cannot be beaten by any
\* other way to cut the image and to pack the pieces.
Shortest ==
  Finished =>
    LET starts == [n \in DOMAIN out |-> out[n].start_offset]
        ends   == [n \in DOMAIN out |-> out[n].end_offset]
        ways(j) == {x \in DOMAIN w : First(x) = j}
        best[j \in 0 .. lb_count] ==
          IF j = lb_count THEN 0
          ELSE LET sums == {w[x].length + best[Behind(x)] : x \in ways(j)}
               IN  CHOOSE s \in sums : \A t \in sums : s <= t
    IN  /\ <<0>> \o ends = Append(starts, Sum(blocks))
        /\ Sum([n \in DOMAIN out |-> out[n].length]) = best[0]

\* The lengths compared are upper bounds of what is written.
NoLongerThanPlanned == Finished => pos <= best_length

\* The buffer is twice as long as the image, and the stub is in it as well.
BufferHolds == phase = "write" => retlen <= 2 * Sum(blocks)
=============================================================================
