---------------------------- MODULE ArithEncoder ----------------------------
(***************************************************************************)
(* The arithmetic encoder of oneKpaq (ArithEncoder.cpp), driven the way    *)
(* BlockCodec::Encode and StreamCodec::Encode drive it: for every block    *)
(* PreEncode, one Encode per bit, EndSection; after the last block         *)
(* Finalize.                                                               *)
(*                                                                         *)
(* value is a register of one machine word (64 bits in the source).  Its   *)
(* top bit is reserved for a carry, the bit below is the next one to send. *)
(* The first WarmUp doublings send nothing: they only move the first       *)
(* symbol's bits to the top of the register.  Every call that narrows the  *)
(* range ends with Normalize(); its loop is the three actions Shift,       *)
(* SendBit and Overflow, and no other call can start before the loop is    *)
(* over (Ready).                                                           *)
(*                                                                         *)
(* Word sizes are constants so that TLC can reach what needs 2^30 symbols  *)
(* in the source.  The source's values are in brackets.                    *)
(***************************************************************************)
EXTENDS Integers, Sequences

CONSTANTS
  EncoderType,  \* "SingleAsm", "MultiAsm" or "Standard"
  Threshold,    \* [0x4000'0000] smallest range after Normalize
  WarmUp,       \* [33] doublings before the first bit is sent
  Unit,         \* [b |-> 2^(63-b)] powers of two; up to WarmUp the width of the
                \* whole interval when b warm-up doublings are left
  FlushBits,    \* [63] iterations of Finalize
  ByteBits,     \* [8] bits in a byte of the data being packed
  StreamByte,   \* [8] bits in a byte of the packed stream
  MaxBits,      \* bound: data bits encoded in one behaviour
  MaxBlocks     \* bound: blocks encoded in one behaviour

ASSUME EncoderTypeAssumption ==
  EncoderType \in {"SingleAsm", "MultiAsm", "Standard"}
ASSUME WidthAssumption ==
  /\ Threshold \in Nat /\ Threshold >= 4
  /\ FlushBits \in Nat /\ WarmUp \in 3 .. FlushBits
  /\ Unit \in [0 .. FlushBits -> Nat]
  /\ Unit[WarmUp] = Threshold /\ Unit[FlushBits] = 1
  /\ \A b \in 1 .. FlushBits : Unit[b - 1] = 2 * Unit[b]
  /\ StreamByte \in Nat /\ StreamByte >= 4
ASSUME BoundAssumption ==
  /\ ByteBits \in Nat \ {0} /\ MaxBits \in Nat /\ MaxBits % ByteBits = 0
  /\ MaxBlocks \in Nat

VARIABLES
  range,      \* _range
  value,      \* _value, a word
  bitCount,   \* _bitCount
  dest,       \* _dest, as the sequence of its bits; _destPos is its length
  hasPreBit,  \* _hasPreBit
  section,    \* "closed" between blocks, "open" inside one
  coded,      \* data bits encoded so far
  blockBits,  \* data bits encoded in the present block
  blocks,     \* blocks opened so far
  flushed,    \* iterations of Finalize done
  phase,      \* "coding", "flushing", "done", or the ASSERT that ended it
  payload     \* history: the sent bits, framing left out, as a number

evars == <<range, value, bitCount, dest, hasPreBit, section, coded, blockBits,
           blocks, flushed, phase, payload>>

callvars == <<hasPreBit, section, coded, blockBits, blocks>>

Carry == Unit[0]              \* [2^63] the bit no sum may reach when sending
Top   == Carry \div 2         \* [2^62] the bit that is sent
Word  == 2 * Carry            \* [2^64]
Skip  == IF EncoderType = "SingleAsm" THEN 1 ELSE 0
Framed == EncoderType # "Standard"

-----------------------------------------------------------------------------
\* The asm decoder finds the end of a byte by a sentinel bit that has to be
\* planted in the first byte: start bit, anchor bit and filler bit.
Framing(d) ==
  IF ~Framed THEN <<>>
  ELSE IF Len(d) = 0 THEN <<0>>
  ELSE IF Len(d) = StreamByte - 2 THEN <<1, 0>>
  ELSE <<>>

\* The calls of one behaviour run one after the other; Normalize is over.
Ready == phase = "coding" /\ range >= Threshold

\* Mutant of ValidSub: <= for < and no room for the end symbol.
ValidSubLoose(sub) == sub # 0 /\ sub <= range

\* ASSERT(subRange&&subRange<_range-1)
ValidSub(sub) == sub # 0 /\ sub < range - 1

\* Mutant of Narrow: the + 1 of SingleAsm is forgotten.
NarrowWithoutSkip(bit, sub) ==
  \/ bit = 1 /\ range' = range - sub /\ value' = value
  \/ bit = 0 /\ range' = sub /\ value' = (value + (range - sub)) % Word

\* The narrowing step of Encode; the source's comment says that
\* "_range=subRange-1 would be correct" for SingleAsm.
Narrow(bit, sub) ==
  \/ /\ bit = 1
     /\ range' = range - sub
     /\ value' = value
  \/ /\ bit = 0
     /\ range' = sub
     /\ value' = (value + (range - sub) + Skip) % Word

Init ==
  /\ range = Threshold
  /\ value = 0
  /\ bitCount = WarmUp
  /\ dest = <<>>
  /\ hasPreBit = FALSE
  /\ section = "closed"
  /\ coded = 0
  /\ blockBits = 0
  /\ blocks = 0
  /\ flushed = 0
  /\ phase = "coding"
  /\ payload = 0

-----------------------------------------------------------------------------
(* Normalize(), one iteration of its loop per step.                        *)

Looping == phase \in {"coding", "flushing"} /\ range < Threshold

Shift ==
  /\ Looping
  /\ bitCount > 0
  /\ bitCount' = bitCount - 1
  /\ value' = (2 * value) % Word
  /\ range' = 2 * range
  /\ UNCHANGED <<dest, flushed, phase, payload, callvars>>

SendBit ==
  /\ Looping
  /\ bitCount = 0
  /\ value < Carry
  /\ LET bit == IF value >= Top THEN 1 ELSE 0
     IN  /\ dest' = Append(dest \o Framing(dest), bit)
         /\ payload' = 2 * payload + bit
         /\ value' = (2 * (value - bit * Top)) % Word
  /\ range' = 2 * range
  /\ UNCHANGED <<bitCount, flushed, phase, callvars>>

\* ASSERT(!(_value&0x8000'0000'0000'0000ULL),"Overflow"): a carry wants into
\* bits that have been sent.
Overflow ==
  /\ Looping
  /\ bitCount = 0
  /\ value >= Carry
  /\ dest' = dest \o Framing(dest)
  /\ phase' = "overflow"
  /\ UNCHANGED <<range, value, bitCount, flushed, payload, callvars>>

-----------------------------------------------------------------------------
(* The calls.                                                              *)

\* StreamCodec::Encode packs everything into one block in the single modes.
\* No block is empty: onekpaq_main.cpp asserts "Empty/missing file".
MayOpen ==
  /\ section = "closed"
  /\ coded < MaxBits
  /\ blocks < (IF EncoderType = "SingleAsm" THEN 1 ELSE MaxBlocks)

PreEncode(sub) ==
  /\ Ready
  /\ MayOpen
  /\ Framed /\ ~hasPreBit
  /\ ValidSub(sub)
  /\ Narrow(0, sub)
  /\ hasPreBit' = TRUE
  /\ section' = "open"
  /\ blocks' = blocks + 1
  /\ blockBits' = 0
  /\ UNCHANGED <<bitCount, dest, coded, flushed, phase, payload>>

PreEncodeNothing ==
  /\ Ready
  /\ MayOpen
  /\ ~Framed \/ hasPreBit
  /\ section' = "open"
  /\ blocks' = blocks + 1
  /\ blockBits' = 0
  /\ UNCHANGED <<range, value, bitCount, dest, hasPreBit, coded, flushed,
                 phase, payload>>

Encode(bit, sub) ==
  /\ Ready
  /\ section = "open"
  /\ coded < MaxBits
  /\ ValidSub(sub)
  /\ Narrow(bit, sub)
  /\ coded' = coded + 1
  /\ blockBits' = blockBits + 1
  /\ UNCHANGED <<bitCount, dest, hasPreBit, section, blocks, flushed, phase,
                 payload>>

EndSection(sub) ==
  /\ Ready
  /\ section = "open"
  /\ blockBits > 0 /\ blockBits % ByteBits = 0
  /\ ValidSub(sub)
  /\ IF EncoderType = "SingleAsm"
     THEN /\ value' = (value + (range - sub)) % Word
          /\ range' = 1
     ELSE UNCHANGED <<value, range>>
  /\ section' = "closed"
  /\ UNCHANGED <<bitCount, dest, hasPreBit, coded, blockBits, blocks, flushed,
                 phase, payload>>

\* ASSERT(...,"probability error"): the sub-range comes from a float formula
\* that nothing clamps.
ProbabilityError(sub) ==
  /\ Ready
  /\ \/ MayOpen /\ Framed /\ ~hasPreBit
     \/ section = "open"
  /\ ~ValidSub(sub)
  /\ phase' = "probability"
  /\ UNCHANGED <<range, value, bitCount, dest, flushed, payload, callvars>>

FinalizeStart ==
  /\ Ready
  /\ section = "closed"
  /\ blocks > 0
  /\ phase' = "flushing"
  /\ UNCHANGED <<range, value, bitCount, dest, flushed, payload, callvars>>

\* Mutant of FinalizeStep: the range is halved without a Normalize between.
FinalizeStepUnnormalized ==
  /\ phase = "flushing"
  /\ flushed < FlushBits
  /\ range' = range \div 2
  /\ flushed' = flushed + 1
  /\ UNCHANGED <<value, bitCount, dest, phase, payload, callvars>>

\* One iteration of Finalize: _range>>=1; Normalize().
FinalizeStep ==
  /\ phase = "flushing"
  /\ range >= Threshold
  /\ flushed < FlushBits
  /\ range' = range \div 2
  /\ flushed' = flushed + 1
  /\ UNCHANGED <<value, bitCount, dest, phase, payload, callvars>>

\* Mutant of FinalizeEnd: 62 iterations are thought to do.
FinalizeEndEarly ==
  /\ phase = "flushing"
  /\ range >= Threshold
  /\ flushed >= FlushBits - 1
  /\ phase' = "done"
  /\ UNCHANGED <<range, value, bitCount, dest, flushed, payload, callvars>>

\* Mutant of FinalizeEnd: as many iterations as the warm-up had are thought to do.
FinalizeEndAsWarmUp ==
  /\ phase = "flushing"
  /\ range >= Threshold
  /\ flushed >= WarmUp
  /\ phase' = "done"
  /\ UNCHANGED <<range, value, bitCount, dest, flushed, payload, callvars>>

FinalizeEnd ==
  /\ phase = "flushing"
  /\ range >= Threshold
  /\ flushed = FlushBits
  /\ phase' = "done"
  /\ UNCHANGED <<range, value, bitCount, dest, flushed, payload, callvars>>

\* CalculateSubRange may return any number up to the range.
SubRanges == 0 .. range

ENext ==
  \/ Shift \/ SendBit \/ Overflow
  \/ \E sub \in SubRanges :
       \/ PreEncode(sub)
       \/ \E bit \in {0, 1} : Encode(bit, sub)
       \/ EndSection(sub)
       \/ ProbabilityError(sub)
  \/ PreEncodeNothing
  \/ FinalizeStart \/ FinalizeStep \/ FinalizeEnd

Spec == Init /\ [][ENext]_evars

-----------------------------------------------------------------------------
(* Properties.                                                             *)

\* Every field keeps to its type; in particular the range never reaches zero
\* (Normalize would loop for ever) and stays a positive 32-bit int.
TypeOK ==
  /\ range \in 1 .. (2 * Threshold - 1)
  /\ value \in 0 .. (Word - 1)
  /\ bitCount \in 0 .. WarmUp
  /\ dest \in Seq({0, 1})
  /\ hasPreBit \in BOOLEAN
  /\ section \in {"open", "closed"}
  /\ coded \in Nat /\ blockBits \in Nat /\ blocks \in Nat
  /\ flushed \in 0 .. FlushBits
  /\ phase \in {"coding", "flushing", "done", "overflow", "probability"}
  /\ payload \in Nat

\* The register never holds more than one and a half times the interval that
\* is still open, so no sum or shift leaves the 64-bit word: a carry that wants
\* into the sent bits is always seen by the "Overflow" ASSERT in Normalize.
RegisterBound == 2 * value + 3 * range <= 3 * Unit[bitCount]

\* The sent bits and the register hold between them the exact low end of the
\* interval: the shifts, the warm-up, the bits cut off by Normalize and the
\* carries that PreEncode, Encode and EndSection add lose nothing.
Exact == INSTANCE ArithInterval WITH low <- payload * Carry + value

ImplementsExact == Exact!Spec

\* Finalize has pushed every bit of the register into the stream: 63
\* iterations are enough whatever the warm-up counter held when it started.
RegisterDrained == phase = "done" => bitCount = 0 /\ value = 0

=============================================================================
