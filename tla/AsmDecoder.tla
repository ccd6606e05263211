----------------------------- MODULE AsmDecoder -----------------------------
(***************************************************************************)
(* The arithmetic half of the unpacker that ships in the intro             *)
(* (onekpaq_decompressor32.asm, modes 1/3 single section and 2/4 multi     *)
(* section).  It keeps no lengths and no counters it can do without:       *)
(*                                                                         *)
(*  - the end of a source byte is found by a one bit shifted in behind its *)
(*    last bit; in the first byte the stream itself has to carry it;       *)
(*  - a single section ends when a symbol leaves a zero flag anywhere but  *)
(*    at the end of a byte; a multi section stream counts bytes down in    *)
(*    the header words CreateAsmHeader wrote;                              *)
(*  - ebp, the value, is used uninitialised.                               *)
(*                                                                         *)
(* A byte of the stream is the sequence of its bits, the top one first.    *)
(* The module holds the actions only; AsmCodec says when they run.         *)
(***************************************************************************)
EXTENDS Integers, Sequences

CONSTANTS
  DecoderType,  \* "SingleAsm" or "MultiAsm"
  Threshold,    \* [0x4000'0000] eax doubled sets its sign bit from here on
  ByteBits,     \* [8] bits in a byte of the unpacked data
  StreamByte,   \* [8] bits in a byte of the packed stream
  LenWord       \* [65536] range of a block length in the header

VARIABLES
  mem,      \* the packed stream, its bytes by address; shifted out in place
  ptr,      \* ebx: address of the byte being shifted out
  range,    \* eax
  value,    \* ebp, a word of 4 * Threshold values
  started,  \* the first, unconditional pass of normalize_loop is over
  count,    \* cl: symbols until the byte of the unpacked data is full
  left,     \* dx word of the block: bytes to go
  headers,  \* the length words of the blocks that follow, 0 at the end
  phase     \* "running" or "done"

avars == <<mem, ptr, range, value, started, count, left, headers, phase>>

Word == 4 * Threshold
ByteValues == [1 .. StreamByte -> {0, 1}]

\* shl and rcl of a byte; the bit that comes out is its first.
Shifted(byte, carry) ==
  [k \in 1 .. StreamByte |-> IF k = StreamByte THEN carry ELSE byte[k + 1]]

\* mem, left and headers are what the packer handed over; ebp is whatever
\* the loader left in it; ecx is one because the word it is read from is zero.
Enter(stream, lengths) ==
  /\ mem' = stream
  /\ ptr' = 0
  /\ range' = 1
  /\ value' \in 0 .. Word - 1
  /\ started' = FALSE
  /\ count' = 1
  /\ left' = Head(lengths)
  /\ headers' = Tail(lengths)
  /\ phase' = "running"

-----------------------------------------------------------------------------
Looping == phase = "running" /\ (~started \/ range < Threshold)
Ready   == phase = "running" /\ started /\ range >= Threshold

\* normalize_loop: shl byte; when nothing is left in it the bit that came out
\* is the sentinel, and goes in at the bottom of the next byte (rcl).
ByteEmpty == \A k \in 2 .. StreamByte : mem[ptr][k] = 0

Take(carry) ==
  /\ value' = (2 * value + carry) % Word
  /\ range' = IF started THEN 2 * range ELSE range
  /\ started' = TRUE
  /\ UNCHANGED <<count, left, headers, phase>>

ReadBit ==
  /\ Looping
  /\ ~ByteEmpty
  /\ mem' = [mem EXCEPT ![ptr] = Shifted(@, 0)]
  /\ ptr' = ptr
  /\ Take(mem[ptr][1])

\* Past the stream lies whatever the memory holds.
Stored(a) == IF a \in DOMAIN mem THEN {mem[a]} ELSE ByteValues

\* Mutant of ReadBitOfNextByte: shl for rcl, the sentinel is not passed on.
ReadBitOfNextByteShl ==
  /\ Looping
  /\ ByteEmpty
  /\ \E byte \in Stored(ptr + 1) :
       /\ mem' = [a \in DOMAIN mem \cup {ptr + 1} |->
                    IF a = ptr + 1 THEN Shifted(byte, 0) ELSE mem[a]]
       /\ Take(byte[1])
  /\ ptr' = ptr + 1

ReadBitOfNextByte ==
  /\ Looping
  /\ ByteEmpty
  /\ \E byte \in Stored(ptr + 1) :
       /\ mem' = [a \in DOMAIN mem \cup {ptr + 1} |->
                    IF a = ptr THEN Shifted(mem[ptr], 0)
                    ELSE IF a = ptr + 1 THEN Shifted(byte, mem[ptr][1])
                    ELSE mem[a]]
       /\ Take(byte[1])
  /\ ptr' = ptr + 1

-----------------------------------------------------------------------------
\* The bit shifted into the unpacked byte (carry of cmp ebp,eax).
Bit(sub) == IF value < range - sub THEN 1 ELSE 0

ByteFull == count = 1

\* Mode 1/3: jbe keeps a value equal to the split on the one-side, and both
\* cmp and sub leave ZF set by an exact hit.
SingleSymbol(sub) ==
  LET split == range - sub
      zero  == value \in {split, split + 1}
  IN  /\ Ready
      /\ DecoderType = "SingleAsm"
      /\ IF value <= split
         THEN range' = split /\ value' = value
         ELSE range' = sub /\ value' = value - (split + 1)
      /\ count' = IF ByteFull THEN ByteBits ELSE count - 1
      /\ phase' = IF zero /\ ~ByteFull THEN "done" ELSE "running"
      /\ UNCHANGED <<mem, ptr, started, left, headers>>

\* Mode 2/4: a full byte counts the block down; the next block's length is
\* behind the zero that ends this block's models; a zero length is the end.
MultiSymbol(sub) ==
  LET split == range - sub
      rest  == (left - 1) % LenWord
  IN  /\ Ready
      /\ DecoderType = "MultiAsm"
      /\ IF value < split
         THEN range' = split /\ value' = value
         ELSE range' = sub /\ value' = value - split
      /\ count' = IF ByteFull THEN ByteBits ELSE count - 1
      /\ \/ ~ByteFull /\ UNCHANGED <<left, headers, phase>>
         \/ ByteFull /\ rest # 0 /\ left' = rest /\ UNCHANGED <<headers, phase>>
         \/ /\ ByteFull /\ rest = 0
            /\ left' = Head(headers)
            /\ headers' = Tail(headers)
            /\ phase' = IF Head(headers) = 0 THEN "done" ELSE "running"
      /\ UNCHANGED <<mem, ptr, started>>

=============================================================================
