----------------------------- MODULE ArithCodec -----------------------------
(***************************************************************************)
(* The encoder and the decoder on one stream: StreamCodec::Encode packs    *)
(* the blocks, then StreamCodec::Decode (type Standard) or DecodeAsmStream *)
(* (types SingleAsm and MultiAsm) unpacks them, block by block, with the   *)
(* calls in the order BlockCodec::Encode and BlockCodec::Decode make them. *)
(*                                                                         *)
(* Both sides ask the same compressor model for the sub-range of a symbol. *)
(* The model is a function of the data before the symbol and of the coder  *)
(* range, so the decoder gets the encoder's number as long as it has       *)
(* decoded the same bits and has the same range.  calls records what the   *)
(* encoder was asked; the decoder replays it and stops at the first bit    *)
(* that comes out differently ("wrong bit"), because from there on it asks *)
(* the model other questions.                                              *)
(***************************************************************************)
EXTENDS ArithEncoder

\* The decoder's first value takes in the whole framing of the first byte: it
\* reads FlushBits - WarmUp bits of the number (Threshold has that many zeros).
ASSUME FramingAssumption == StreamByte - 3 < FlushBits - WarmUp

VARIABLES
  dRange, dValue, dSrcPos, dDestPos, dHasPreBit, dPhase,  \* the decoder
  calls,      \* history: the encoder's calls, in order
  marks,      \* history: see Doubling
  replayed,   \* how many of them the decoder has answered
  ceiling     \* history: see CeilingAfter

D == INSTANCE ArithDecoder
       WITH DecoderType <- EncoderType, src <- dest, range <- dRange,
            value <- dValue, srcPos <- dSrcPos, destPos <- dDestPos,
            hasPreBit <- dHasPreBit, phase <- dPhase

dvars == <<dRange, dValue, dSrcPos, dDestPos, dHasPreBit, dPhase>>
vars == <<evars, dvars, calls, marks, replayed, ceiling>>

\* A call, the low end of the interval it found, and the doublings since.
Call(op, bit, sub) ==
  [op |-> op, bit |-> bit, sub |-> sub, range |-> range,
   low |-> payload * Carry + value, scale |-> 1]

CInit ==
  /\ Init
  /\ D!Init
  /\ calls = <<>>
  /\ marks = <<[pos |-> 0, number |-> 0, unit |-> Threshold]>>
  /\ replayed = 0
  /\ ceiling = Threshold

-----------------------------------------------------------------------------
(***************************************************************************)
(* The SingleAsm decoder has three outcomes: below range - sub a one,      *)
(* range - sub the end of the data, above it a zero.  A zero leaves        *)
(* sub - 1 points but both coders keep a range of sub, so a later symbol   *)
(* may move the encoder onto a point an earlier choice excludes.  ceiling  *)
(* is the distance from the encoder's low end to the nearest such point,   *)
(* in the present scale: a stream the decoder can follow ends below it.    *)
(***************************************************************************)
LowerOf(x, y) == IF x < y THEN x ELSE y

CeilingAfter(bit, sub) ==
  IF bit = 1 THEN LowerOf(ceiling, range - sub)
  ELSE ceiling - (range - sub + Skip)

ENarrow(op, bit, sub) ==
  /\ calls' = Append(calls, Call(op, bit, sub))
  /\ ceiling' = CeilingAfter(bit, sub)

\* What was noted earlier is kept in the present scale.  For every bit sent
\* there is a mark: where it is in the stream, the number that the bits up to it
\* make, and how wide the numbers are that begin like this.
Doubled(m) == [m EXCEPT !.unit = 2 * @]
Marked == [n \in DOMAIN marks |-> Doubled(marks[n])]
Mark == [pos |-> Len(dest'), number |-> payload', unit |-> Carry]

Doubling ==
  /\ calls' = [k \in DOMAIN calls |->
                 [calls[k] EXCEPT !.low = 2 * @, !.scale = 2 * @]]
  /\ ceiling' = 2 * ceiling

Narrowing ==
  \E sub \in SubRanges :
    \/ PreEncode(sub) /\ ENarrow("pre", 0, sub)
    \/ \E bit \in {0, 1} : Encode(bit, sub) /\ ENarrow("bit", bit, sub)
    \/ /\ EndSection(sub)
       /\ calls' = Append(calls, Call("end", 0, sub))
       /\ ceiling' = IF EncoderType = "SingleAsm"
                     THEN ceiling - (range - sub) ELSE ceiling

Plain ==
  \/ Overflow \/ \E sub \in SubRanges : ProbabilityError(sub)
  \/ PreEncodeNothing
  \/ FinalizeStart \/ FinalizeStep \/ FinalizeEnd

EncoderStep ==
  /\ \/ Shift /\ Doubling /\ marks' = Marked
     \/ SendBit /\ Doubling /\ marks' = Append(Marked, Mark)
     \/ Narrowing /\ marks' = marks
     \/ Plain /\ UNCHANGED <<calls, marks, ceiling>>
  /\ UNCHANGED <<dvars, replayed>>

-----------------------------------------------------------------------------
More == replayed < Len(calls)
Asked == calls[replayed + 1]

Answered ==
  /\ replayed' = replayed + 1
  /\ UNCHANGED <<evars, calls, marks, ceiling>>

DecoderReadBit ==
  /\ phase = "done" /\ D!ReadBit
  /\ UNCHANGED <<evars, calls, marks, replayed, ceiling>>

DecoderPreBit ==
  /\ phase = "done" /\ More /\ Asked.op = "pre"
  /\ D!PreDecode(Asked.sub)
  /\ Answered

\* The bit is the one packed, or one of Decode's ASSERTs ends the run.
DecoderBit ==
  /\ phase = "done" /\ More /\ Asked.op = "bit"
  /\ D!Verdict(Asked.sub) = "running" => D!Bit(Asked.sub) = Asked.bit
  /\ D!Decode(Asked.sub)
  /\ Answered

\* The decoder is content with its stream but the bit is not the one packed.
DecoderWrongBit ==
  /\ phase = "done" /\ More /\ Asked.op = "bit"
  /\ D!Ready
  /\ D!Verdict(Asked.sub) = "running" /\ D!Bit(Asked.sub) # Asked.bit
  /\ dPhase' = "wrong bit"
  /\ UNCHANGED <<dRange, dValue, dSrcPos, dDestPos, dHasPreBit>>
  /\ Answered

DecoderEnd ==
  /\ phase = "done" /\ More /\ Asked.op = "end"
  /\ D!ProcessEndOfSection(Asked.sub)
  /\ Answered

\* Every call has been answered.
Unpacked == phase = "done" /\ ~More /\ D!Ready

\* Nothing is left to do: the stream is decoded or somebody gave up.
Finished ==
  \/ phase \in {"overflow", "probability"}
  \/ dPhase # "running"
  \/ Unpacked

CNext ==
  \/ EncoderStep
  \/ DecoderReadBit \/ DecoderPreBit \/ DecoderBit \/ DecoderWrongBit
  \/ DecoderEnd

CSpec == CInit /\ [][CNext]_vars

-----------------------------------------------------------------------------
(* Properties.                                                             *)

\* MultiAsm and Standard streams always come out as they went in: no ASSERT of
\* the decoder fires and no bit differs, whatever the sub-ranges, the blocks
\* and the state the 63 iterations of Finalize start from.
DecoderFollows == EncoderType # "SingleAsm" => dPhase = "running"

\* When the decoder asks the compressor model for a sub-range, its range is
\* the one the encoder had at the same symbol.  CalculateSubRange depends on
\* it, so the two would drift apart for good if they ever differed.
MirrorRange == phase = "done" /\ D!Ready /\ More => dRange = Asked.range

\* The decoder looks at the whole stream and never beyond it: the zeros that
\* decodeBit invents behind _src are not needed by a good stream.
ReadsWhatWasSent ==
  /\ dSrcPos <= Len(dest)
  /\ Unpacked => dSrcPos = Len(dest)

\* In SingleAsm mode the decoder's ASSERTs tell good streams from bad ones: a
\* stream that ends at or above a point given away by an earlier choice is
\* rejected, and one below them all is rejected only for a symbol that would
\* look like the end of the data to the asm decoder.
SingleAsmVerdict ==
  EncoderType = "SingleAsm" /\ phase = "done" =>
    /\ ceiling > 0 => dPhase \in {"running", "ambiguous"}
    /\ Unpacked => ceiling > 0

\* What ArithDecoder::Decode asserts of a stream ("End of section detected in
\* middle of stream"): no symbol of the data looks like the end symbol.
NoFalseEnd == dPhase # "false end"

=============================================================================
