------------------------------ MODULE AsmCodec ------------------------------
(***************************************************************************)
(* ArithCodec and then the unpacker of the intro on the same stream.       *)
(*                                                                         *)
(* onekpaq_encode checks a stream with DecodeAsmStream before it is used;  *)
(* laturi (onekpaq_integration.cpp) does not.  In the single section modes *)
(* some streams cannot be unpacked at all, so what matters is that the     *)
(* ASSERTs of the C++ decoder reject exactly those.                        *)
(***************************************************************************)
EXTENDS ArithCodec

CONSTANT LenWord  \* [65536]

ASSUME LenWordAssumption == LenWord \in Nat /\ MaxBits \div ByteBits < LenWord
\* The end of a single section is one symbol behind the end of a byte.
ASSUME ByteAssumption == ByteBits >= 2

VARIABLES
  rawLengths,  \* _rawLength of every block, in bytes
  mem, ptr, aRange, aValue, started, count, left, headers, aPhase,
  ends,        \* history: how many calls there were at the end of every block
  symbol,      \* how many of the calls the unpacker is through with
  verdict      \* "idle", "unpacking", then "right" or "wrong"

A == INSTANCE AsmDecoder
       WITH DecoderType <- EncoderType, range <- aRange, value <- aValue,
            phase <- aPhase

avars == <<mem, ptr, aRange, aValue, started, count, left, headers, aPhase>>
allvars == <<vars, rawLengths, ends, avars, symbol, verdict>>

AInit ==
  /\ CInit
  /\ rawLengths = <<>> /\ ends = <<>>
  /\ mem = <<>> /\ ptr = 0 /\ aRange = 1 /\ aValue = 0 /\ started = FALSE
  /\ count = 1 /\ left = 0 /\ headers = <<>>
  /\ aPhase = "idle"
  /\ symbol = 0
  /\ verdict = "idle"

-----------------------------------------------------------------------------
\* encodeBit: the bits fill bytes from the top; the last byte ends in zeros.
Byte(bits, i) ==
  [k \in 1 .. StreamByte |->
     IF StreamByte * i + k <= Len(bits) THEN bits[StreamByte * i + k] ELSE 0]

Bytes(bits) ==
  [i \in 0 .. (Len(bits) - 1) \div StreamByte |-> Byte(bits, i)]

\* Mutant of AsmLengths: the pre-bit is not counted as a byte.
AsmLengthsRaw ==
  [i \in 1 .. Len(rawLengths) + 1 |->
     IF i > Len(rawLengths) THEN 0 ELSE rawLengths[i]]

\* CreateAsmHeader, the lengths of a multi section stream: two bytes each,
\* one byte more for the first block because the pre-bit counts as a byte.
AsmLengths ==
  [i \in 1 .. Len(rawLengths) + 1 |->
     IF i > Len(rawLengths) THEN 0
     ELSE (rawLengths[i] + (IF i = 1 THEN 1 ELSE 0)) % LenWord]

BlockCloses == section = "open" /\ section' = "closed"

Codec ==
  /\ CNext
  /\ IF BlockCloses
     THEN /\ rawLengths' = Append(rawLengths, blockBits \div ByteBits)
          /\ ends' = Append(ends, Len(calls'))
     ELSE UNCHANGED <<rawLengths, ends>>
  /\ UNCHANGED <<avars, symbol, verdict>>

\* The unpacker knows no Standard streams.
Load ==
  /\ EncoderType # "Standard"
  /\ phase = "done" /\ Finished /\ verdict = "idle"
  /\ verdict' = "unpacking"
  /\ UNCHANGED <<vars, rawLengths, ends, symbol>>
  /\ A!Enter(Bytes(dest), AsmLengths)

AsmRead ==
  /\ verdict = "unpacking"
  /\ A!ReadBit \/ A!ReadBitOfNextByte
  /\ UNCHANGED <<vars, rawLengths, ends, symbol, verdict>>

\* The multi section unpacker knows no end-of-section symbols: what it answers
\* after the last bit of a block is the first symbol of the next.
PastEnd(k) ==
  IF EncoderType = "MultiAsm" /\ k < Len(calls) /\ calls[k + 1].op = "end"
  THEN k + 1 ELSE k

\* One symbol, and whether it is the bit that was packed and the unpacker
\* stops after the last one and only there.
AsmSymbol ==
  LET asked == calls[symbol + 1]
      last  == symbol' = Len(calls)
  IN  /\ verdict = "unpacking"
      /\ A!SingleSymbol(asked.sub) \/ A!MultiSymbol(asked.sub)
      /\ symbol' = PastEnd(symbol + 1)
      /\ verdict' = IF \/ asked.op # "end" /\ A!Bit(asked.sub) # asked.bit
                       \/ (aPhase' = "done") # last
                    THEN "wrong"
                    ELSE IF last THEN "right" ELSE "unpacking"
      /\ UNCHANGED <<vars, rawLengths, ends>>

AsmFinished ==
  \/ phase \in {"overflow", "probability"}
  \/ EncoderType = "Standard" /\ Finished
  \/ verdict \in {"right", "wrong"}

AsmTerminating == AsmFinished /\ UNCHANGED allvars

ANext ==
  \/ Codec \/ Load \/ AsmRead \/ AsmSymbol
  \/ AsmTerminating

ASpec == AInit /\ [][ANext]_allvars

-----------------------------------------------------------------------------
(* Properties.                                                             *)

\* DecodeAsmStream accepts a stream exactly when the unpacker of the intro
\* unpacks it, whatever ebp held at the start: the check neither lets a bad
\* stream through nor turns a good one down.
CheckPredictsUnpacker ==
  verdict \in {"right", "wrong"} => (verdict = "right") = (dPhase = "running")

\* Multi section streams always come out right: every bit, and the end of the
\* last block where the length words run out.
MultiUnpacks == EncoderType = "MultiAsm" => verdict # "wrong"

\* While the symbols come out right the unpacker reads no byte behind the
\* stream: the sentinel bit planted in the first byte marks the end of each.
UnpackerStaysInside ==
  verdict \in {"unpacking", "right"}
    => ptr <= (Len(dest) - 1) \div StreamByte

=============================================================================
