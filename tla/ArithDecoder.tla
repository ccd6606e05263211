---------------------------- MODULE ArithDecoder ----------------------------
(***************************************************************************)
(* The arithmetic decoder of oneKpaq (ArithDecoder.cpp): the mirror image  *)
(* of ArithEncoder that the packer uses to check its own output.  Its      *)
(* ASSERTs are what stands between a stream the intro's own unpacker       *)
(* cannot read and the binary that ships, so each of them is a phase in    *)
(* which the decoder stops.                                                *)
(*                                                                         *)
(* The module holds the actions only; ArithCodec says when they run.       *)
(***************************************************************************)
EXTENDS Integers, Sequences

CONSTANTS
  DecoderType,  \* "SingleAsm", "MultiAsm" or "Standard"
  Threshold,    \* [0x4000'0000]
  ByteBits,     \* [8] bits in a byte of the unpacked data
  StreamByte    \* [8] bits in a byte of the packed stream

VARIABLES
  src,        \* _src, as the sequence of its bits; never written
  range,      \* _range
  value,      \* _value
  srcPos,     \* _srcPos
  destPos,    \* _destPos, calls of Decode so far
  hasPreBit,  \* _hasPreBit
  phase       \* "running", or the ASSERT that ended it

dvars == <<range, value, srcPos, destPos, hasPreBit, phase>>

Framed == DecoderType # "Standard"

Init ==
  /\ range = 1
  /\ value = 0
  /\ srcPos = 0
  /\ destPos = 0
  /\ hasPreBit = FALSE
  /\ phase = "running"

\* decodeBit() at a position: the stream goes on with zeros.
BitAt(pos) == IF pos < Len(src) THEN src[pos + 1] ELSE 0

\* What Normalize expects before the next bit of the number.
Framing ==
  IF ~Framed THEN <<>>
  ELSE IF srcPos = 0 THEN <<0>>
  ELSE IF srcPos = StreamByte - 2 THEN <<1, 0>>
  ELSE <<>>

FramingRead == \A i \in 1 .. Len(Framing) : BitAt(srcPos + i - 1) = Framing[i]

Looping == phase = "running" /\ range < Threshold
Ready   == phase = "running" /\ range >= Threshold

\* One iteration of Normalize: "Wrong start bit", "Wrong anchor bit" and
\* "Wrong filler bit" are one outcome.
ReadBit ==
  /\ Looping
  /\ IF FramingRead
     THEN /\ range' = 2 * range
          /\ value' = 2 * value + BitAt(srcPos + Len(Framing))
          /\ srcPos' = srcPos + Len(Framing) + 1
          /\ phase' = phase
     ELSE /\ phase' = "framing"
          /\ UNCHANGED <<range, value, srcPos>>
  /\ UNCHANGED <<src, destPos, hasPreBit>>

-----------------------------------------------------------------------------
ValidSub(sub) == sub # 0 /\ sub < range - 1

\* Mutant of Bit: > for >=.
BitStrict(sub) == IF value > range - sub THEN 0 ELSE 1

\* The bit Decode returns.
Bit(sub) == IF value >= range - sub THEN 0 ELSE 1

\* "End of section detected in middle of stream"
FalseEnd(sub) == DecoderType = "SingleAsm" /\ value = range - sub

\* Mutant of Ambiguous: the pre-bit is not counted in _destPos.
AmbiguousEarly(sub) ==
  /\ DecoderType = "SingleAsm"
  /\ destPos % ByteBits # 1
  /\ value = range - sub + 1

\* "Encoder encoded a symbol we bug on": the asm decoder takes a zero
\* difference for the end of the data unless a byte has just been finished.
Ambiguous(sub) ==
  /\ DecoderType = "SingleAsm"
  /\ destPos % ByteBits # 0
  /\ value = range - sub + 1

\* The ASSERTs of Decode, in their order.
Verdict(sub) ==
  CASE ~ValidSub(sub) -> "probability"
    [] ValidSub(sub) /\ FalseEnd(sub) -> "false end"
    [] ValidSub(sub) /\ Ambiguous(sub) -> "ambiguous"
    [] OTHER -> "running"

\* Mutant of Narrow: a one leaves the range as it was.
NarrowZeroOnly(sub) ==
  IF Bit(sub) = 0 THEN value' = value - (range - sub) /\ range' = sub
  ELSE UNCHANGED <<value, range>>

\* Mutant of Narrow: the + 1 of SingleAsm is forgotten.
NarrowWithoutSkip(sub) ==
  IF Bit(sub) = 0 THEN value' = value - (range - sub) /\ range' = sub
  ELSE value' = value /\ range' = range - sub

\* A one keeps the bottom range - sub points. For a zero the source notes
\* that "_range=subRange-1 would be correct".
Narrow(sub) ==
  LET high == IF DecoderType = "SingleAsm" THEN range - sub + 1 ELSE range - sub
  IN  IF Bit(sub) = 0
      THEN value' = value - high /\ range' = sub
      ELSE value' = value /\ range' = range - sub

Decode(sub) ==
  /\ Ready
  /\ IF Verdict(sub) = "running"
     THEN Narrow(sub) /\ destPos' = destPos + 1
     ELSE UNCHANGED <<range, value, destPos>>
  /\ phase' = Verdict(sub)
  /\ UNCHANGED <<src, srcPos, hasPreBit>>

\* PreDecode: ASSERT(!Decode(subRange),"Wrong purge bit")
PreDecode(sub) ==
  /\ Ready
  /\ Framed /\ ~hasPreBit
  /\ IF Verdict(sub) = "running"
     THEN Narrow(sub) /\ destPos' = destPos + 1
     ELSE UNCHANGED <<range, value, destPos>>
  /\ hasPreBit' = (Verdict(sub) = "running" /\ Bit(sub) = 0)
  /\ phase' = IF Verdict(sub) = "running" /\ Bit(sub) = 1
              THEN "purge" ELSE Verdict(sub)
  /\ UNCHANGED <<src, srcPos>>

\* "End of section not detected"; the other types have nothing to detect.
ProcessEndOfSection(sub) ==
  /\ Ready
  /\ IF DecoderType # "SingleAsm" THEN UNCHANGED <<range, value, phase>>
     ELSE IF ~ValidSub(sub) \/ value # range - sub
     THEN phase' = "no end" /\ UNCHANGED <<range, value>>
     ELSE range' = 1 /\ value' = 0 /\ phase' = phase
  /\ UNCHANGED <<src, srcPos, destPos, hasPreBit>>

=============================================================================
