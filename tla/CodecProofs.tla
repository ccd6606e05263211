---------------------------- MODULE CodecProofs ----------------------------
(***************************************************************************)
(* Proofs about ArithEncoder and ArithCodec for every word size, encoder   *)
(* type, any number of blocks and all sub-ranges: the encoder implements   *)
(* exact interval arithmetic; what the MultiAsm and Standard encoders pack *)
(* the C++ decoder unpacks, it asks the compressor model the same          *)
(* questions, and of the streams of a SingleAsm encoder it rejects the     *)
(* right ones.                                                             *)
(*                                                                         *)
(* The encoder's invariant is TypeOK with RegisterBound and WarmUpSilent.  *)
(* RegisterBound is what makes the words large enough: it keeps every sum  *)
(* and every shift below 2^64, so % Word changes nothing and the register  *)
(* agrees with exact arithmetic (ImplementsExact).  WarmUpSilent says why  *)
(* a shift that sends nothing still doubles the exact number.              *)
(*                                                                         *)
(* For the decoder all numbers are taken in the encoder's present scale.   *)
(* The encoder keeps every interval it ever had around the one it has, and *)
(* the number it has sent, followed by anything, around its low end.  The  *)
(* decoder goes through the same intervals: its value is what the bits     *)
(* read so far are above the low end.                                      *)
(*                                                                         *)
(* That both normalize to the same range needs the numbers to be powers of *)
(* two; that the decoder does not read behind the stream needs Finalize to *)
(* double as often as the register is long.                                *)
(*                                                                         *)
(* In the single section mode the decoder follows as long as the number    *)
(* sent is none of those a call has given away (Above) and none that looks *)
(* like the end of the data (Stuck).  Both are facts about the number and  *)
(* the calls, known before anything is decoded; ceiling reaches to the     *)
(* nearest number given away.                                              *)
(***************************************************************************)
EXTENDS AsmCodec, Induction, TLAPS

-----------------------------------------------------------------------------
(* The encoder by itself.                                                  *)

\* Nothing is sent before the warm-up is over.
WarmUpSilent == bitCount > 0 => payload = 0

Inv == TypeOK /\ RegisterBound /\ WarmUpSilent

-----------------------------------------------------------------------------
(* Facts about the constants.                                              *)

LEMMA Widths ==
  /\ Threshold \in Nat /\ Threshold >= 4
  /\ WarmUp \in Nat /\ WarmUp >= 3
  /\ FlushBits \in Nat /\ WarmUp <= FlushBits
  /\ \A b \in 0 .. FlushBits : Unit[b] \in Nat
  /\ \A b \in 1 .. FlushBits : Unit[b - 1] = 2 * Unit[b]
  /\ \A b \in 0 .. WarmUp : Unit[b] \in Nat
  /\ \A b \in 1 .. WarmUp : Unit[b - 1] = 2 * Unit[b]
  /\ Unit[WarmUp] = Threshold /\ Unit[FlushBits] = 1
<1>1. /\ Threshold \in Nat /\ Threshold >= 4 /\ FlushBits \in Nat
      /\ WarmUp \in 3 .. FlushBits /\ Unit \in [0 .. FlushBits -> Nat]
  BY WidthAssumption
<1>2. 0 .. WarmUp \subseteq 0 .. FlushBits /\ 1 .. WarmUp \subseteq 1 .. FlushBits
  BY <1>1
<1>3. /\ WarmUp \in Nat /\ WarmUp >= 3 /\ WarmUp <= FlushBits
  BY <1>1
<1>4. \A b \in 0 .. FlushBits : Unit[b] \in Nat
  BY <1>1
<1>5. QED
  BY <1>1, <1>2, <1>3, <1>4, WidthAssumption

\* No width exceeds the whole interval: by induction on b.
LEMMA UnitShrinks == \A b \in 0 .. WarmUp : Unit[b] <= Unit[0]
<1> DEFINE T == {b \in Nat : b <= WarmUp => Unit[b] <= Unit[0]}
<1>1. 0 \in T
  BY Widths
<1>2. ASSUME NEW b \in T PROVE b + 1 \in T
  <2> SUFFICES ASSUME b + 1 <= WarmUp PROVE Unit[b + 1] <= Unit[0]
    OBVIOUS
  <2>1. b \in 0 .. WarmUp /\ b + 1 \in 1 .. WarmUp /\ (b + 1) - 1 = b
    BY Widths
  <2>2. Unit[b] <= Unit[0] /\ Unit[b] = 2 * Unit[b + 1]
    BY <2>1, Widths
  <2>3. Unit[b] \in Nat /\ Unit[b + 1] \in Nat /\ Unit[0] \in Nat
    BY <2>1, Widths
  <2>4. QED
    BY <2>2, <2>3
<1> HIDE DEF T
<1>3. T = Nat
  <2>1. T \in SUBSET Nat
    BY DEF T
  <2>2. QED
    BY <1>1, <1>2, <2>1, SetInduction
<1>4. QED
  BY <1>3 DEF T

\* Twice the sent bit is the carry bit.  The whole interval is at least eight
\* thresholds wide: this is all that the 33 warm-up doublings have to provide.
LEMMA CarryTop ==
  /\ Carry \in Nat /\ Top \in Nat /\ Word \in Nat
  /\ Carry = 2 * Top /\ Word = 2 * Carry
  /\ Carry >= 8 * Threshold
  /\ \A b \in 1 .. WarmUp : 2 * Unit[b] <= Carry
<1>1. Unit[0] \in Nat /\ Unit[1] \in Nat /\ Unit[0] = 2 * Unit[1]
  BY Widths
<1>2. Unit[WarmUp - 3] = 8 * Unit[WarmUp]
  <2>1. /\ Unit[WarmUp - 1] = 2 * Unit[WarmUp]
        /\ Unit[(WarmUp - 1) - 1] = 2 * Unit[WarmUp - 1]
        /\ Unit[(WarmUp - 2) - 1] = 2 * Unit[WarmUp - 2]
    BY Widths
  <2>2. (WarmUp - 1) - 1 = WarmUp - 2 /\ (WarmUp - 2) - 1 = WarmUp - 3
    BY Widths
  <2>3. Unit[WarmUp] \in Nat
    BY Widths
  <2>4. QED
    BY <2>1, <2>2, <2>3
<1>3. Unit[0] >= 8 * Threshold
  BY <1>2, UnitShrinks, Widths
<1>4. ASSUME NEW b \in 1 .. WarmUp PROVE 2 * Unit[b] <= Unit[0]
  <2>1. Unit[b - 1] = 2 * Unit[b] /\ b - 1 \in 0 .. WarmUp
    BY Widths
  <2>2. QED
    BY <2>1, UnitShrinks
<1>5. QED
  BY <1>1, <1>3, <1>4 DEF Carry, Top, Word

\* A number that fits the word is not changed by cutting it to the word.
LEMMA FitsWord == \A n \in 0 .. (Word - 1) : n % Word = n
BY CarryTop, Widths

-----------------------------------------------------------------------------
(* Facts about the register.                                               *)

\* A register within its bound leaves room for one more shift or sum.
LEMMA RegisterFits ==
  ASSUME Inv
  PROVE  /\ value \in Nat /\ range \in Nat /\ range >= 1
         /\ range < 2 * Threshold
         /\ Unit[bitCount] \in Nat /\ Unit[bitCount] <= Carry
         /\ bitCount > 0 => 2 * Unit[bitCount] <= Carry
         /\ bitCount = 0 => Unit[bitCount] = Carry
         /\ 2 * value + 3 * range <= 3 * Unit[bitCount]
<1>1. bitCount \in 0 .. WarmUp /\ (bitCount > 0 => bitCount \in 1 .. WarmUp)
  BY Widths DEF Inv, TypeOK
<1>2. Unit[bitCount] \in Nat /\ Unit[bitCount] <= Carry
  BY <1>1, Widths, UnitShrinks DEF Carry
<1>3. bitCount > 0 => 2 * Unit[bitCount] <= Carry
  BY <1>1, CarryTop
<1>4. bitCount = 0 => Unit[bitCount] = Carry
  BY DEF Carry
<1>5. /\ value \in Nat /\ range \in Nat /\ range >= 1 /\ range < 2 * Threshold
  BY Widths, CarryTop DEF Inv, TypeOK
<1>6. QED
  BY <1>2, <1>3, <1>4, <1>5 DEF Inv, RegisterBound

\* A sum that leaves the lower branch out stays within the bound.
LEMMA NarrowFits ==
  ASSUME Inv, Ready, NEW sub \in SubRanges, ValidSub(sub)
  PROVE  /\ sub \in 1 .. (range - 2)
         /\ value + (range - sub) + Skip \in 0 .. (Word - 1)
         /\ value + (range - sub) \in 0 .. (Word - 1)
         /\ 2 * (value + (range - sub) + Skip) + 3 * sub <= 3 * Unit[bitCount]
         /\ 2 * (value + (range - sub)) + 3 <= 3 * Unit[bitCount]
         /\ 2 * value + 3 * (range - sub) <= 3 * Unit[bitCount]
<1>1. sub \in 1 .. (range - 2)
  BY RegisterFits DEF SubRanges, ValidSub
<1>2. Skip \in {0, 1}
  BY DEF Skip
<1>3. range >= Threshold /\ Threshold >= 4
  BY Widths DEF Ready
<1>4. QED
  BY <1>1, <1>2, <1>3, RegisterFits, CarryTop, Widths

\* The same of the step itself: % Word is the identity.
LEMMA NarrowExact ==
  ASSUME Inv, Ready, NEW sub \in SubRanges, ValidSub(sub),
         NEW bit \in {0, 1}, Narrow(bit, sub)
  PROVE  /\ range' = IF bit = 1 THEN range - sub ELSE sub
         /\ value' = IF bit = 1 THEN value ELSE value + (range - sub) + Skip
         /\ range' \in 1 .. (2 * Threshold - 1)
         /\ value' \in 0 .. (Word - 1)
         /\ 2 * value' + 3 * range' <= 3 * Unit[bitCount]
<1>1. (value + (range - sub) + Skip) % Word = value + (range - sub) + Skip
  BY NarrowFits, FitsWord
<1>2. /\ range' = IF bit = 1 THEN range - sub ELSE sub
      /\ value' = IF bit = 1 THEN value ELSE value + (range - sub) + Skip
  BY <1>1 DEF Narrow
<1>3. value \in 0 .. (Word - 1)
  BY DEF Inv, TypeOK
<1>4. CASE bit = 1
  BY <1>2, <1>3, <1>4, NarrowFits, RegisterFits, Widths
<1>5. CASE bit = 0
  BY <1>2, <1>5, NarrowFits, RegisterFits, Widths
<1>6. QED
  BY <1>4, <1>5

\* Shifting while bits of the warm-up are left.
LEMMA ShiftExact ==
  ASSUME Inv, Shift
  PROVE  /\ range' = 2 * range /\ range' \in 1 .. (2 * Threshold - 1)
         /\ value' = 2 * value /\ value' \in 0 .. (Word - 1)
         /\ bitCount' \in 0 .. WarmUp
         /\ 2 * value' + 3 * range' <= 3 * Unit[bitCount']
<1>1. bitCount \in 1 .. WarmUp /\ bitCount' = bitCount - 1
  BY Widths DEF Inv, TypeOK, Shift
<1>2. Unit[bitCount'] = 2 * Unit[bitCount]
  BY <1>1, Widths
<1>3. 2 * value \in 0 .. (Word - 1)
  BY <1>1, RegisterFits, CarryTop
<1>4. value' = 2 * value
  BY <1>3, FitsWord DEF Shift
<1>5. range' = 2 * range /\ range < Threshold
  BY DEF Shift, Looping
<1>6. QED
  BY <1>1, <1>2, <1>3, <1>4, <1>5, RegisterFits, Widths

\* Sending a bit takes it out of the register and shifts what is left.
LEMMA SendBitExact ==
  ASSUME Inv, SendBit
  PROVE  \E bit \in {0, 1} :
           /\ range' = 2 * range /\ range' \in 1 .. (2 * Threshold - 1)
           /\ value' = 2 * value - bit * Carry /\ value' \in 0 .. (Word - 1)
           /\ value' < Carry
           /\ 2 * value' + 3 * range' <= 3 * Unit[bitCount]
           /\ dest' = Append(dest \o Framing(dest), bit)
           /\ payload' = 2 * payload + bit
<1>1. bitCount = 0 /\ value < Carry /\ range < Threshold /\ range' = 2 * range
  BY DEF SendBit, Looping
<1>2. /\ value \in Nat /\ range \in Nat /\ range >= 1
      /\ Threshold \in Nat /\ Top \in Nat /\ Carry = 2 * Top
      /\ Carry >= 8 * Threshold /\ Unit[bitCount] = Carry
  BY <1>1, RegisterFits, CarryTop, Widths
<1>3. ASSUME NEW rest \in Int, 0 <= rest, rest < Top, value' = (2 * rest) % Word
      PROVE  /\ value' = 2 * rest
             /\ value' \in 0 .. (Word - 1) /\ value' < Carry
             /\ 2 * value' + 3 * range' <= 3 * Unit[bitCount]
  <2>1. 2 * rest \in 0 .. (Word - 1)
    BY <1>2, <1>3, CarryTop
  <2>2. value' = 2 * rest
    BY <1>3, <2>1, FitsWord
  <2>3. QED
    BY <1>1, <1>2, <1>3, <2>1, <2>2
<1>4. range' \in 1 .. (2 * Threshold - 1)
  BY <1>1, <1>2
<1>5. CASE value >= Top
  <2>1. /\ dest' = Append(dest \o Framing(dest), 1)
        /\ payload' = 2 * payload + 1
        /\ value' = (2 * (value - 1 * Top)) % Word
    BY <1>5 DEF SendBit
  <2>2. value' = (2 * (value - Top)) % Word
    BY <1>2, <2>1
  <2>3. value - Top \in Int /\ 0 <= value - Top /\ value - Top < Top
    BY <1>1, <1>2, <1>5
  <2>4. /\ value' = 2 * (value - Top)
        /\ value' \in 0 .. (Word - 1) /\ value' < Carry
        /\ 2 * value' + 3 * range' <= 3 * Unit[bitCount]
    BY <1>3, <2>2, <2>3
  <2>5. value' = 2 * value - 1 * Carry
    BY <1>2, <2>4
  <2>6. QED
    BY <1>1, <1>4, <2>1, <2>4, <2>5
<1>6. CASE ~(value >= Top)
  <2>1. /\ dest' = Append(dest \o Framing(dest), 0)
        /\ payload' = 2 * payload + 0
        /\ value' = (2 * (value - 0 * Top)) % Word
    BY <1>6 DEF SendBit
  <2>2. value' = (2 * value) % Word
    BY <1>2, <2>1
  <2>3. value \in Int /\ 0 <= value /\ value < Top
    BY <1>2, <1>6
  <2>4. /\ value' = 2 * value
        /\ value' \in 0 .. (Word - 1) /\ value' < Carry
        /\ 2 * value' + 3 * range' <= 3 * Unit[bitCount]
    BY <1>3, <2>2, <2>3
  <2>5. value' = 2 * value - 0 * Carry
    BY <1>2, <2>4
  <2>6. QED
    BY <1>1, <1>4, <2>1, <2>4, <2>5
<1>7. QED
  BY <1>5, <1>6

-----------------------------------------------------------------------------
(* The invariant.                                                          *)

\* The framing is a piece of bit string, and so is what it is appended to.
LEMMA FramingType ==
  ASSUME dest \in Seq({0, 1})
  PROVE  /\ dest \o Framing(dest) \in Seq({0, 1})
         /\ \A bit \in {0, 1} :
              Append(dest \o Framing(dest), bit) \in Seq({0, 1})
<1>1. Framing(dest) \in Seq({0, 1})
  <2>1. /\ <<>> \in Seq({0, 1}) /\ <<0>> \in Seq({0, 1})
        /\ <<1, 0>> \in Seq({0, 1})
    OBVIOUS
  <2>2. QED
    BY <2>1 DEF Framing
<1>2. dest \o Framing(dest) \in Seq({0, 1})
  BY <1>1
<1>3. ASSUME NEW s \in Seq({0, 1}), NEW bit \in {0, 1}
      PROVE  Append(s, bit) \in Seq({0, 1})
  OBVIOUS
<1>4. QED
  BY <1>2, <1>3

LEMMA InitInv == Init => Inv
<1> SUFFICES ASSUME Init PROVE Inv
  OBVIOUS
<1>1. TypeOK
  <2>1. range \in 1 .. (2 * Threshold - 1) /\ bitCount \in 0 .. WarmUp
    BY Widths DEF Init
  <2>2. value \in 0 .. (Word - 1) /\ flushed \in 0 .. FlushBits
    BY Widths, CarryTop, WidthAssumption DEF Init
  <2>3. dest \in Seq({0, 1})
    BY DEF Init
  <2>4. QED
    BY <2>1, <2>2, <2>3 DEF Init, TypeOK
<1>2. RegisterBound
  BY Widths DEF Init, RegisterBound
<1>3. WarmUpSilent
  BY DEF Init, WarmUpSilent
<1>4. QED
  BY <1>1, <1>2, <1>3 DEF Inv

\* The steps of Normalize.
LEMMA NormalizeInv ==
  ASSUME Inv, Shift \/ SendBit \/ Overflow
  PROVE  Inv'
<1> USE DEF Inv, TypeOK, RegisterBound, WarmUpSilent
<1>1. CASE Shift
  BY <1>1, ShiftExact DEF Shift, callvars
<1>2. CASE SendBit
  <2>1. PICK bit \in {0, 1} :
          /\ range' \in 1 .. (2 * Threshold - 1)
          /\ value' \in 0 .. (Word - 1)
          /\ 2 * value' + 3 * range' <= 3 * Unit[bitCount]
          /\ dest' = Append(dest \o Framing(dest), bit)
          /\ payload' = 2 * payload + bit
    BY <1>2, SendBitExact
  <2>2. dest' \in Seq({0, 1}) /\ payload' \in Nat
    BY <2>1, FramingType
  <2>3. QED
    BY <1>2, <2>1, <2>2 DEF SendBit, callvars
<1>3. CASE Overflow
  <2>1. dest' \in Seq({0, 1})
    BY <1>3, FramingType DEF Overflow
  <2>2. QED
    BY <1>3, <2>1 DEF Overflow, callvars
<1>4. QED
  BY <1>1, <1>2, <1>3

\* The calls with a sub-range.
LEMMA SubRangeCallInv ==
  ASSUME Inv, NEW sub \in SubRanges,
         \/ PreEncode(sub)
         \/ \E bit \in {0, 1} : Encode(bit, sub)
         \/ EndSection(sub)
         \/ ProbabilityError(sub)
  PROVE  Inv'
<1> USE DEF Inv, TypeOK, RegisterBound, WarmUpSilent
<1>1. CASE PreEncode(sub)
  BY <1>1, NarrowExact DEF PreEncode
<1>2. CASE \E bit \in {0, 1} : Encode(bit, sub)
  BY <1>2, NarrowExact DEF Encode
<1>3. CASE EndSection(sub)
  <2>1. CASE EncoderType = "SingleAsm"
    <3>1. value' = (value + (range - sub)) % Word /\ range' = 1
      BY <1>3, <2>1 DEF EndSection
    <3>2. value' = value + (range - sub) /\ value' \in 0 .. (Word - 1)
      BY <1>3, <3>1, NarrowFits, FitsWord DEF EndSection
    <3>3. 2 * value' + 3 * range' <= 3 * Unit[bitCount]
      BY <1>3, <3>1, <3>2, NarrowFits DEF EndSection
    <3>4. range' \in 1 .. (2 * Threshold - 1)
      BY <3>1, Widths
    <3>5. QED
      BY <1>3, <3>2, <3>3, <3>4 DEF EndSection
  <2>2. CASE EncoderType # "SingleAsm"
    BY <1>3, <2>2 DEF EndSection
  <2>3. QED
    BY <2>1, <2>2
<1>4. CASE ProbabilityError(sub)
  BY <1>4 DEF ProbabilityError, callvars
<1>5. QED
  BY <1>1, <1>2, <1>3, <1>4

\* The other calls.
LEMMA PlainCallInv ==
  ASSUME Inv, PreEncodeNothing \/ FinalizeStart \/ FinalizeStep \/ FinalizeEnd
  PROVE  Inv'
<1> USE DEF Inv, TypeOK, RegisterBound, WarmUpSilent
<1>1. CASE PreEncodeNothing
  BY <1>1 DEF PreEncodeNothing
<1>2. CASE FinalizeStart
  BY <1>2 DEF FinalizeStart, callvars
<1>3. CASE FinalizeStep
  <2>1. /\ range' = range \div 2 /\ value' = value /\ bitCount' = bitCount
        /\ range >= Threshold
    BY <1>3 DEF FinalizeStep
  <2>2. range' \in 1 .. (2 * Threshold - 1) /\ range' <= range
    BY <2>1, Widths
  <2>3. 2 * value' + 3 * range' <= 3 * Unit[bitCount']
    BY <2>1, <2>2, RegisterFits
  <2>4. flushed' \in 0 .. FlushBits
    BY <1>3, WidthAssumption DEF FinalizeStep
  <2>5. QED
    BY <1>3, <2>1, <2>2, <2>3, <2>4 DEF FinalizeStep, callvars
<1>4. CASE FinalizeEnd
  BY <1>4 DEF FinalizeEnd, callvars
<1>5. QED
  BY <1>1, <1>2, <1>3, <1>4

LEMMA NextInv == Inv /\ [ENext]_evars => Inv'
<1> SUFFICES ASSUME Inv, [ENext]_evars PROVE Inv'
  OBVIOUS
<1>1. CASE ENext
  BY <1>1, NormalizeInv, SubRangeCallInv, PlainCallInv DEF ENext
<1>2. CASE UNCHANGED evars
  BY <1>2 DEF evars, Inv, TypeOK, RegisterBound, WarmUpSilent
<1>3. QED
  BY <1>1, <1>2

\* The encoder keeps its types and its register bound for every width of its
\* words, every model (any sub-range the ASSERT lets through) and any number
\* of blocks and bits.
THEOREM Invariance == Spec => []Inv
<1>1. Init => Inv
  BY InitInv
<1>2. Inv /\ [ENext]_evars => Inv'
  BY NextInv
<1>3. QED
  BY <1>1, <1>2, PTL DEF Spec

\* The types alone: the range stays positive and below 2^31.
THEOREM TypeCorrect == Spec => []TypeOK
<1>1. Inv => TypeOK
  BY DEF Inv
<1>2. QED
  BY <1>1, Invariance, PTL

\* No sum and no shift of the encoder leaves the 64-bit word, so the ASSERT
\* on the top bit sees every carry into the bits already sent.
THEOREM NoCarryLost == Spec => []RegisterBound
<1>1. Inv => RegisterBound
  BY DEF Inv
<1>2. QED
  BY <1>1, Invariance, PTL

-----------------------------------------------------------------------------
(* Finalize.                                                               *)

\* Doublings since Finalize was called.
Drains == IF range >= Threshold THEN flushed ELSE flushed - 1

\* Every doubling adds a zero at the low end of the register, and either one bit
\* leaves at the top or the warm-up is one doubling shorter.
Draining ==
  /\ phase = "coding" => flushed = 0
  /\ phase \in {"flushing", "done"} =>
       /\ Drains >= 0
       /\ \E m \in Int : value * Unit[Drains] = m * Carry
       /\ (bitCount = 0 /\ value < Carry) \/ Drains + bitCount <= WarmUp
       /\ range < Threshold => 2 * range >= Threshold
       /\ phase = "done" => range >= Threshold /\ flushed = FlushBits

\* The register is longer than the warm-up, and the threshold can be halved.
LEMMA FlushLonger == WarmUp < FlushBits /\ \E h \in Nat : Threshold = 2 * h
<1>1. WarmUp < FlushBits
  BY Widths
<1>2. WarmUp + 1 \in 1 .. FlushBits /\ (WarmUp + 1) - 1 = WarmUp
  BY <1>1, Widths
<1>3. Threshold = 2 * Unit[WarmUp + 1] /\ Unit[WarmUp + 1] \in Nat
  BY <1>2, Widths
<1>4. QED
  BY <1>1, <1>3

\* One doubling of Normalize while Finalize runs.
LEMMA DrainingDoubles ==
  ASSUME Inv, Draining, Shift \/ SendBit
  PROVE  /\ Draining'
         /\ phase = "flushing" =>
              flushed \in 1 .. FlushBits /\ Drains = flushed - 1 /\ Drains' = flushed
<1>1. /\ range' = 2 * range /\ range < Threshold /\ phase' = phase /\ flushed' = flushed
      /\ phase \in {"coding", "flushing"}
  BY DEF Shift, SendBit, Looping
<1>2. /\ flushed \in Nat /\ flushed <= FlushBits /\ FlushBits \in Nat /\ Carry \in Nat
      /\ range \in Nat /\ value \in Nat /\ Threshold \in Nat
  BY CarryTop, RegisterFits, Widths DEF Inv, TypeOK
<1>3. CASE phase = "coding"
  BY <1>1, <1>3 DEF Draining
<1>4. CASE phase = "flushing"
  <2>1. Drains = flushed - 1
    BY <1>1, <1>2 DEF Drains
  <2>2. /\ Drains >= 0 /\ 2 * range >= Threshold
        /\ (bitCount = 0 /\ value < Carry) \/ Drains + bitCount <= WarmUp
    BY <1>1, <1>4 DEF Draining
  <2>3. PICK m \in Int : value * Unit[flushed - 1] = m * Carry
    BY <1>4, <2>1 DEF Draining
  <2>4. range' >= Threshold /\ Drains' = flushed
    BY <1>1, <2>2 DEF Drains
  <2>5. flushed \in 1 .. FlushBits
    BY <1>2, <2>1, <2>2
  <2>6. Unit[flushed - 1] = 2 * Unit[flushed] /\ Unit[flushed] \in Nat
    BY <1>2, <2>5, Widths
  <2>7. (bitCount' = 0 /\ value' < Carry) \/ flushed + bitCount' <= WarmUp
    <3>1. CASE Shift
      <4>1. bitCount > 0 /\ bitCount' = bitCount - 1 /\ bitCount \in Nat /\ WarmUp \in Nat
        BY <3>1, Widths DEF Shift, Inv, TypeOK
      <4>2. flushed - 1 + bitCount <= WarmUp
        BY <2>1, <2>2, <4>1
      <4>3. QED
        BY <1>2, <4>1, <4>2
    <3>2. CASE SendBit
      BY <3>2, SendBitExact DEF SendBit
    <3>3. QED
      BY <3>1, <3>2
  <2>8. \E b \in {0, 1} : value' = 2 * value - b * Carry
    <3>1. CASE Shift
      <4>1. value' = 2 * value - 0 * Carry
        BY <1>2, <3>1, ShiftExact
      <4>2. QED
        BY <4>1
    <3>2. CASE SendBit
      BY <3>2, SendBitExact
    <3>3. QED
      BY <3>1, <3>2
  <2>9. \E k \in Int : value' * Unit[flushed] = k * Carry
    <3>1. PICK b \in {0, 1} : value' = 2 * value - b * Carry
      BY <2>8
    <3>2. \A v, u, c \in Nat, x \in {0, 1} :
            (2 * v - x * c) * u = v * (2 * u) - (x * u) * c
      OBVIOUS
    <3>3. value' * Unit[flushed] = value * (2 * Unit[flushed]) - (b * Unit[flushed]) * Carry
      BY <1>2, <2>6, <3>1, <3>2
    <3>4. value' * Unit[flushed] = m * Carry - (b * Unit[flushed]) * Carry
      BY <2>3, <2>6, <3>3
    <3>5. b * Unit[flushed] \in Int
      BY <2>6
    <3>6. \A x, y \in Int : x * Carry - y * Carry = (x - y) * Carry
      BY <1>2
    <3>7. value' * Unit[flushed] = (m - b * Unit[flushed]) * Carry
      BY <3>4, <3>5, <3>6
    <3>8. m - b * Unit[flushed] \in Int
      BY <3>5
    <3>9. QED
      BY <3>7, <3>8
  <2>10. Carry' = Carry
    BY DEF Carry
  <2>11. /\ Drains' >= 0 /\ \E k \in Int : value' * Unit[Drains'] = k * Carry'
         /\ (bitCount' = 0 /\ value' < Carry') \/ Drains' + bitCount' <= WarmUp
    BY <1>2, <2>4, <2>7, <2>9, <2>10
  <2>12. ~(range' < Threshold) /\ phase' # "coding" /\ phase' # "done"
    BY <1>1, <1>2, <1>4, <2>4
  <2>13. QED
    BY <2>1, <2>4, <2>5, <2>11, <2>12 DEF Draining
<1>5. QED
  BY <1>1, <1>3, <1>4

\* Finalize's own steps: it begins with no doubling done, and halves a range
\* that Normalize makes good with one doubling.
LEMMA DrainingCalls ==
  ASSUME Inv, Draining, FinalizeStart \/ FinalizeStep \/ FinalizeEnd
  PROVE  /\ Draining' /\ range' \in Nat /\ range' <= range /\ range >= Threshold
         /\ phase = "coding" => Drains' = 0
         /\ phase # "coding" => Drains' = Drains
<1>1. /\ range \in Nat /\ flushed \in Nat /\ bitCount \in Nat /\ bitCount <= WarmUp
      /\ value \in Nat /\ Carry \in Nat /\ Threshold \in Nat /\ Unit[0] = Carry /\ WarmUp \in Nat
  BY CarryTop, RegisterFits, Widths DEF Carry, Inv, TypeOK
<1>2. /\ range >= Threshold /\ UNCHANGED <<value, bitCount>> /\ Carry' = Carry
  BY DEF FinalizeStart, FinalizeStep, FinalizeEnd, Ready, Carry
<1>3. CASE FinalizeStart
  <2>1. flushed = 0 /\ flushed' = 0 /\ range' = range /\ phase' = "flushing" /\ phase = "coding"
    BY <1>3 DEF FinalizeStart, Ready, Draining
  <2>2. Drains' = 0
    BY <1>2, <2>1 DEF Drains
  <2>3. value' * Unit[Drains'] = value * Carry /\ value \in Int
    BY <1>1, <1>2, <2>2
  <2>4. \E m \in Int : value' * Unit[Drains'] = m * Carry'
    BY <1>2, <2>3
  <2>5. Drains' >= 0 /\ Drains' + bitCount' <= WarmUp
    BY <1>1, <1>2, <2>2
  <2>6. ~(range' < Threshold) /\ range' \in Nat /\ range' <= range
    BY <1>1, <1>2, <2>1
  <2>7. phase' # "coding" /\ phase' # "done"
    BY <2>1
  <2>8. QED
    BY <1>2, <2>1, <2>2, <2>4, <2>5, <2>6, <2>7 DEF Draining
<1>4. CASE FinalizeStep \/ FinalizeEnd
  <2>1. phase = "flushing" /\ phase' \in {"flushing", "done"} /\ Drains = flushed
    BY <1>1, <1>2, <1>4 DEF FinalizeStep, FinalizeEnd, Drains
  <2>2. Drains' = flushed /\ range' \in Nat /\ range' <= range
        /\ (range' < Threshold => 2 * range' >= Threshold)
        /\ (phase' = "done" => range' >= Threshold /\ flushed' = FlushBits)
    <3>1. CASE FinalizeStep
      <4>1. range' = range \div 2 /\ flushed' = flushed + 1 /\ phase' = "flushing"
        BY <2>1, <3>1 DEF FinalizeStep
      <4>2. PICK h \in Nat : Threshold = 2 * h
        BY FlushLonger
      <4>3. range < 2 * Threshold
        BY RegisterFits
      <4>4. range' \in Nat /\ range' <= range /\ range' < Threshold /\ 2 * range' >= Threshold
        BY <1>1, <1>2, <4>1, <4>2, <4>3
      <4>5. Drains' = flushed' - 1
        BY <1>1, <4>4 DEF Drains
      <4>6. QED
        BY <1>1, <4>1, <4>4, <4>5
    <3>2. CASE FinalizeEnd
      BY <1>1, <1>2, <3>2 DEF FinalizeEnd, Drains
    <3>3. QED
      BY <1>4, <3>1, <3>2
  <2>3. /\ Drains >= 0 /\ \E m \in Int : value * Unit[Drains] = m * Carry
        /\ (bitCount = 0 /\ value < Carry) \/ Drains + bitCount <= WarmUp
    BY <2>1 DEF Draining
  <2>4. Drains' >= 0 /\ (\E m \in Int : value' * Unit[Drains'] = m * Carry')
        /\ ((bitCount' = 0 /\ value' < Carry') \/ Drains' + bitCount' <= WarmUp)
    BY <1>2, <2>1, <2>2, <2>3
  <2>5. phase' # "coding" /\ phase # "coding" /\ Drains' = Drains
    BY <2>1, <2>2
  <2>6. QED
    BY <1>2, <2>2, <2>4, <2>5 DEF Draining
<1>5. QED
  BY <1>3, <1>4

LEMMA DrainingNext == Inv /\ Draining /\ [ENext]_evars => Draining'
<1> SUFFICES ASSUME Inv, Draining, [ENext]_evars PROVE Draining'
  OBVIOUS
<1>1. CASE Shift \/ SendBit
  BY <1>1, DrainingDoubles
<1>2. CASE FinalizeStart \/ FinalizeStep \/ FinalizeEnd
  BY <1>2, DrainingCalls
<1>3. CASE Overflow \/ \E sub \in SubRanges : ProbabilityError(sub)
  BY <1>3 DEF Overflow, ProbabilityError, Draining
<1>4. CASE \/ PreEncodeNothing
           \/ \E sub \in SubRanges :
                \/ PreEncode(sub) \/ (\E bit \in {0, 1} : Encode(bit, sub))
                \/ EndSection(sub)
  <2>1. phase = "coding" /\ phase' = phase /\ flushed' = flushed
    BY <1>4 DEF PreEncodeNothing, PreEncode, Encode, EndSection, Ready
  <2>2. QED
    BY <2>1 DEF Draining
<1>5. CASE UNCHANGED evars
  BY <1>5 DEF evars, Draining, Drains, Carry
<1>6. QED
  BY <1>1, <1>2, <1>3, <1>4, <1>5 DEF ENext

\* When Finalize is over the register's doublings outnumber the warm-up's.
LEMMA DrainingEnds ==
  ASSUME Inv, Draining, phase = "done"
  PROVE  Drains = FlushBits /\ bitCount = 0 /\ value < Carry /\ value = 0
<1>1. Drains = FlushBits /\ range \in Nat /\ Threshold \in Nat
  BY RegisterFits, Widths DEF Draining, Drains
<1>2. bitCount = 0 /\ value < Carry
  <2>1. bitCount \in Nat /\ WarmUp < FlushBits /\ WarmUp \in Nat /\ FlushBits \in Nat
    BY FlushLonger, Widths DEF Inv, TypeOK
  <2>2. ~(Drains + bitCount <= WarmUp)
    BY <1>1, <2>1
  <2>3. QED
    BY <2>2 DEF Draining
<1>3. PICK m \in Int : value * 1 = m * Carry
  BY <1>1, Widths DEF Draining
<1>4. value \in Nat /\ Carry \in Nat /\ value = m * Carry
  BY <1>3, RegisterFits, CarryTop
<1>5. m < 1
  <2> SUFFICES ASSUME m >= 1 PROVE FALSE
    BY <1>3
  <2>1. PICK d \in Nat : m = d + 1
    <3>1. m - 1 \in Nat /\ m = (m - 1) + 1
      OBVIOUS
    <3>2. QED
      BY <3>1
  <2>2. (d + 1) * Carry = d * Carry + Carry /\ d * Carry \in Nat
    BY <1>4
  <2>3. QED
    BY <1>2, <1>4, <2>1, <2>2
<1>6. m >= 0
  <2> SUFFICES ASSUME m < 0 PROVE FALSE
    BY <1>3
  <2>1. PICK d \in Nat : m = -(d + 1)
    <3>1. (-m) - 1 \in Nat /\ m = -(((-m) - 1) + 1)
      OBVIOUS
    <3>2. QED
      BY <3>1
  <2>2. (-(d + 1)) * Carry = -(d * Carry) - Carry /\ d * Carry \in Nat
    BY <1>4
  <2>3. Carry >= 1
    BY CarryTop, Widths
  <2>4. QED
    BY <1>4, <2>1, <2>2, <2>3
<1>7. m = 0
  BY <1>5, <1>6
<1>8. QED
  BY <1>1, <1>2, <1>4, <1>7

\* 63 rounds of Finalize push every bit out of the register, however much of the
\* warm-up was left and whatever carry was waiting.
THEOREM FinalizeSuffices == Spec => []RegisterDrained
<1>1. Init => Inv /\ Draining
  <2>1. Init => Draining
    BY DEF Init, Draining
  <2>2. QED
    BY <2>1, InitInv
<1>2. Inv /\ Draining /\ [ENext]_evars => (Inv /\ Draining)'
  BY NextInv, DrainingNext
<1>3. Inv /\ Draining => RegisterDrained
  BY DrainingEnds DEF RegisterDrained
<1>4. QED
  BY <1>1, <1>2, <1>3, PTL DEF Spec

-----------------------------------------------------------------------------
(* The refinement: one lemma per kind of step.                             *)

\* The exact low end, as ArithEncoder maps it.
Low == payload * Carry + value

\* A step that keeps the sent bits moves Low as it moves the register.
LEMMA LowMoves ==
  ASSUME Inv, payload' = payload, NEW d \in Int, value' = value + d
  PROVE  Low' = Low + d
<1>1. payload * Carry \in Int /\ value \in Int
  BY CarryTop DEF Inv, TypeOK
<1>2. Carry' = Carry
  BY DEF Carry
<1>3. QED
  BY <1>1, <1>2 DEF Low

\* Both ways to double the register double the exact low end: what SendBit
\* takes out of the register it puts behind the sent bits.
LEMMA LowDoubles ==
  ASSUME Inv, Shift \/ SendBit
  PROVE  Low' = 2 * Low
<1>1. /\ payload \in Nat /\ value \in Nat /\ Carry \in Nat
      /\ payload * Carry \in Nat /\ Carry' = Carry
  <2>1. payload \in Nat /\ value \in Nat /\ Carry \in Nat
    BY CarryTop, RegisterFits DEF Inv, TypeOK
  <2>2. \A m, n \in Nat : m * n \in Nat
    OBVIOUS
  <2>3. QED
    BY <2>1, <2>2 DEF Carry
<1>2. CASE Shift
  <2>1. value' = 2 * value /\ payload = 0 /\ payload' = 0
    BY <1>2, ShiftExact DEF Shift, Inv, TypeOK, WarmUpSilent
  <2>2. 0 * Carry = 0
    BY <1>1
  <2>3. QED
    BY <1>1, <2>1, <2>2 DEF Low
<1>3. CASE SendBit
  <2>1. PICK bit \in {0, 1} : /\ value' = 2 * value - bit * Carry
                              /\ payload' = 2 * payload + bit
    BY <1>3, SendBitExact
  <2>2. \A m, n \in Nat : (2 * m + 1) * n = 2 * (m * n) + n
    OBVIOUS
  <2>3. \A m, n \in Nat : (2 * m + 0) * n = 2 * (m * n)
    OBVIOUS
  <2>4. CASE bit = 0
    <3>1. payload' * Carry = 2 * (payload * Carry)
      BY <1>1, <2>1, <2>3, <2>4
    <3>2. value' = 2 * value
      BY <1>1, <2>1, <2>4
    <3>3. QED
      BY <1>1, <3>1, <3>2 DEF Low
  <2>5. CASE bit = 1
    <3>1. payload' * Carry = 2 * (payload * Carry) + Carry
      BY <1>1, <2>1, <2>2, <2>5
    <3>2. value' = 2 * value - Carry
      BY <1>1, <2>1, <2>5
    <3>3. QED
      BY <1>1, <3>1, <3>2 DEF Low
  <2>6. QED
    BY <2>4, <2>5
<1>4. QED
  BY <1>2, <1>3

LEMMA NarrowRefines ==
  ASSUME Inv, Ready, NEW sub \in SubRanges, ValidSub(sub),
         NEW bit \in {0, 1}, Narrow(bit, sub), payload' = payload
  PROVE  Exact!Narrow(bit, sub) /\ sub \in 1 .. (range - 2)
<1>1. sub \in 1 .. (range - 2) /\ range \in Nat /\ Skip \in Int /\ value \in Nat
  BY NarrowFits, RegisterFits DEF Skip
<1>2. CASE bit = 1
  <2>1. range' = range - sub /\ value' = value + 0
    BY <1>1, <1>2, NarrowExact
  <2>2. Low' = Low + 0
    BY <2>1, LowMoves
  <2>3. Low \in Int
    BY CarryTop DEF Inv, TypeOK, Low
  <2>4. Low' = Low /\ range >= Threshold
    BY <2>2, <2>3 DEF Ready
  <2>5. QED
    BY <1>1, <1>2, <2>1, <2>4 DEF Exact!Narrow, Low
<1>3. CASE bit = 0
  <2>1. range' = sub /\ value' = value + (range - sub) + Skip
    BY <1>1, <1>3, NarrowExact
  <2>2. value' = value + ((range - sub) + Skip)
    BY <1>1, <2>1
  <2>3. Low' = Low + ((range - sub) + Skip)
    BY <1>1, <2>2, LowMoves
  <2>4. Low \in Int
    BY CarryTop DEF Inv, TypeOK, Low
  <2>5. Low' = Low + (range - sub) + Skip
    BY <1>1, <2>3, <2>4
  <2>6. QED
    BY <1>1, <1>3, <2>1, <2>5 DEF Exact!Narrow, Low, Ready
<1>4. QED
  BY <1>2, <1>3

LEMMA EndSectionRefines ==
  ASSUME Inv, NEW sub \in SubRanges, EndSection(sub)
  PROVE  \/ Exact!Close(sub) /\ sub \in 1 .. (range - 2)
         \/ UNCHANGED Exact!avars
<1>1. Ready /\ ValidSub(sub) /\ payload' = payload
  BY DEF EndSection
<1>2. CASE EncoderType = "SingleAsm"
  <2>1. /\ sub \in 1 .. (range - 2) /\ range \in Nat
        /\ value + (range - sub) \in 0 .. (Word - 1)
    BY <1>1, NarrowFits, RegisterFits
  <2>2. range' = 1 /\ value' = value + (range - sub)
    BY <1>2, <2>1, FitsWord DEF EndSection
  <2>3. Low' = Low + (range - sub)
    BY <1>1, <2>1, <2>2, LowMoves
  <2>4. range >= Threshold
    BY <1>1 DEF Ready
  <2>5. QED
    BY <2>1, <2>2, <2>3, <2>4 DEF Exact!Close, Low
<1>3. CASE EncoderType # "SingleAsm"
  BY <1>1, <1>3 DEF EndSection, Exact!avars, Carry
<1>4. QED
  BY <1>2, <1>3

LEMMA StepRefines ==
  Inv /\ [ENext]_evars => [Exact!Next]_(Exact!avars)
<1> SUFFICES ASSUME Inv, [ENext]_evars PROVE [Exact!Next]_(Exact!avars)
  OBVIOUS
<1>1. CASE Shift \/ SendBit
  <2>1. Low' = 2 * Low
    BY <1>1, LowDoubles
  <2>2. range < Threshold /\ range' = 2 * range
    BY <1>1 DEF Shift, SendBit, Looping
  <2>3. QED
    BY <2>1, <2>2 DEF Exact!Next, Exact!Refine, Low
<1>2. CASE Overflow \/ PreEncodeNothing \/ FinalizeStart \/ FinalizeEnd
  BY <1>2 DEF Overflow, PreEncodeNothing, FinalizeStart, FinalizeEnd,
              Exact!avars, Carry
<1>3. CASE FinalizeStep
  <2>1. range >= Threshold /\ range' = range \div 2
        /\ payload' = payload /\ value' = value
    BY <1>3 DEF FinalizeStep
  <2>2. Low' = Low
    BY <2>1 DEF Low, Carry
  <2>3. QED
    BY <2>1, <2>2 DEF Exact!Next, Exact!Halve, Low
<1>4. ASSUME NEW sub \in SubRanges, PreEncode(sub)
      PROVE  Exact!Next
  <2>1. Exact!Narrow(0, sub) /\ sub \in 1 .. (range - 2)
    BY <1>4, NarrowRefines DEF PreEncode
  <2>2. QED
    BY <2>1 DEF Exact!Next
<1>5. ASSUME NEW sub \in SubRanges, NEW bit \in {0, 1}, Encode(bit, sub)
      PROVE  Exact!Next
  <2>1. Exact!Narrow(bit, sub) /\ sub \in 1 .. (range - 2)
    BY <1>5, NarrowRefines DEF Encode
  <2>2. QED
    BY <2>1 DEF Exact!Next
<1>6. ASSUME NEW sub \in SubRanges, EndSection(sub)
      PROVE  [Exact!Next]_(Exact!avars)
  BY <1>6, EndSectionRefines DEF Exact!Next
<1>7. ASSUME NEW sub \in SubRanges, ProbabilityError(sub)
      PROVE  UNCHANGED Exact!avars
  BY <1>7 DEF ProbabilityError, Exact!avars, Carry
<1>8. CASE UNCHANGED evars
  BY <1>8 DEF evars, Exact!avars, Carry
<1>9. QED
  BY <1>1, <1>2, <1>3, <1>4, <1>5, <1>6, <1>7, <1>8 DEF ENext

\* What ArithEncoder sends is the exact interval coder's low end: for every
\* word size that eight thresholds fit in, warm-up, truncation, bits sent early
\* and carries never make the stream differ from exact arithmetic.
THEOREM Refinement == Spec => ImplementsExact
<1>1. Init => Exact!Init
  <2> SUFFICES ASSUME Init PROVE Exact!Init
    OBVIOUS
  <2>1. payload * Carry + value = 0
    BY CarryTop DEF Init
  <2>2. QED
    BY <2>1 DEF Init, Exact!Init
<1>2. Inv /\ [ENext]_evars => [Exact!Next]_(Exact!avars)
  BY StepRefines
<1>3. QED
  BY <1>1, <1>2, Invariance, PTL DEF Spec, ImplementsExact, Exact!Spec

-----------------------------------------------------------------------------
(* Encoder and decoder.                                                    *)

\* The two encoders whose intervals are exact.
Exactly == EncoderType # "SingleAsm"

-----------------------------------------------------------------------------
(* What a call makes of the interval it finds.                             *)

CallTypes ==
  [op : {"pre", "bit", "end"}, bit : {0, 1}, sub : Nat \ {0},
   range : Threshold .. (2 * Threshold - 1), low : Nat, scale : Powers]
MarkTypes == [pos : Nat, number : Nat, unit : Powers]

Split(c) == c.range - c.sub

Kept(c) ==
  IF c.op = "end" THEN IF Exactly THEN c.range ELSE 1
  ELSE IF c.bit = 1 THEN Split(c) ELSE c.sub
Skipped(c) ==
  IF c.op = "end" THEN IF Exactly THEN 0 ELSE Split(c)
  ELSE IF c.bit = 1 THEN 0 ELSE Split(c) + Skip

Width(c) == c.range * c.scale
Sound(c) == c.sub < c.range - 1 /\ (c.op = "pre" => c.bit = 0)

\* The interval after k calls.
LowAfter(k) == IF k = 0 THEN 0 ELSE calls[k].low + Skipped(calls[k]) * calls[k].scale
WidthAfter(k) == IF k = 0 THEN marks[1].unit ELSE Kept(calls[k]) * calls[k].scale

-----------------------------------------------------------------------------
(* The encoder's half of the invariant.                                    *)

Types ==
  /\ calls \in Seq(CallTypes)
  /\ \A k \in DOMAIN calls : Sound(calls[k])
  /\ marks \in Seq(MarkTypes) /\ marks # <<>>

\* Every call found what the call before had left.
Chain ==
  \A k \in DOMAIN calls :
    calls[k].low = LowAfter(k - 1) /\ Width(calls[k]) = WidthAfter(k - 1)

Latest ==
  /\ LowAfter(Len(calls)) = Low
  /\ phase = "coding" => WidthAfter(Len(calls)) = range

\* The open interval lies in all those before it; that of a single section
\* encoder lies above their low ends, but may stand out at the top.
Nested ==
  \A k \in 0 .. Len(calls) :
    /\ LowAfter(k) <= Low /\ range <= WidthAfter(k)
    /\ Exactly => Low + range <= LowAfter(k) + WidthAfter(k)

\* Finalize makes every earlier interval as wide as a whole register, and the
\* last one exactly as wide as the range it began with makes it.
Drained ==
  phase \in {"flushing", "done"} =>
    /\ \A k \in 0 .. Len(calls) : WidthAfter(k) * Unit[Drains] >= Threshold * Carry
    /\ \E r \in Threshold .. (2 * Threshold - 1) :
         WidthAfter(Len(calls)) * Unit[Drains] = r * Carry

\* The framing bits that come at a position of the stream.
FramingAt(pos) ==
  IF ~Framed THEN <<>>
  ELSE IF pos = 0 THEN <<0>>
  ELSE IF pos = StreamByte - 2 THEN <<1, 0>>
  ELSE <<>>

LastMark == marks[Len(marks)]

Ends ==
  /\ marks[1].pos = 0 /\ marks[1].number = 0
  /\ phase # "overflow" => LastMark.pos = Len(dest)
  /\ LastMark.number = payload
  /\ LastMark.unit = Unit[bitCount]

\* What lies between two marks: framing and one bit of the number.
Follows(d, m, n) ==
  /\ n.pos = m.pos + Len(FramingAt(m.pos)) + 1
  /\ n.pos <= Len(d)
  /\ \A i \in 1 .. Len(FramingAt(m.pos)) : d[m.pos + i] = FramingAt(m.pos)[i]
  /\ n.number = 2 * m.number + d[n.pos]
  /\ m.unit = 2 * n.unit

Sent == \A j \in 1 .. Len(marks) - 1 : Follows(dest, marks[j], marks[j + 1])

\* The number sent begins with the bits up to every mark.
Begun ==
  \A j \in DOMAIN marks :
    /\ marks[j].number * marks[j].unit <= payload * Carry
    /\ payload * Carry + Unit[bitCount] <= (marks[j].number + 1) * marks[j].unit
    /\ marks[j].unit >= Unit[bitCount]

EncoderInv ==
  /\ Inv /\ Draining /\ Types /\ Chain /\ Latest /\ Nested /\ Drained
  /\ Ends /\ Sent /\ Begun

\* The end of the one section is the last call there is.
OneSection ==
  ~Exactly =>
    /\ section = "open" => blocks >= 1
    /\ \A k \in DOMAIN calls :
         calls[k].op = "end" => k = Len(calls) /\ section = "closed" /\ blocks >= 1

\* The points that are given away: those from the split on by a one, and all
\* that are outside from the beginning.
Bounded(k) == k = 0 \/ (calls[k].op # "end" /\ calls[k].bit = 1)
Bound(k) == LowAfter(k) + WidthAfter(k)

\* ceiling reaches up to the nearest of them.
CeilingInv ==
  /\ ceiling \in Int
  /\ \A k \in 0 .. Len(calls) : Bounded(k) => Low + ceiling <= Bound(k)
  /\ \E k \in 0 .. Len(calls) : Bounded(k) /\ Low + ceiling = Bound(k)

-----------------------------------------------------------------------------
(* The decoder's half.                                                     *)

\* Whoever has read the bits up to mark j and answered k calls, and has range r
\* and value v, is in the interval the encoder was in after those calls.
InStep(r, v, j, k) ==
  /\ 0 <= v /\ v < r
  /\ r * marks[j].unit = WidthAfter(k)
  /\ (marks[j].number - v) * marks[j].unit = LowAfter(k)

\* The number sent is one that call k has given away.
Above(k) == Bounded(k) /\ Bound(k) <= Low

\* It hits the point above the split, and not at the end of a byte.
Stuck(k) ==
  /\ ~Exactly /\ calls[k].op # "end" /\ (k - 1) % ByteBits # 0
  /\ calls[k].low + (Split(calls[k]) + 1) * calls[k].scale <= Low
  /\ Low < calls[k].low + (Split(calls[k]) + 2) * calls[k].scale

Accepts(k) == ~Above(k) /\ ~Stuck(k)

\* The decoder has accepted all it has been asked, or all but the last.
Judged ==
  IF dPhase = "running" THEN \A k \in 1 .. replayed : Accepts(k)
  ELSE /\ replayed >= 1 /\ ~Accepts(replayed)
       /\ \A k \in 1 .. replayed - 1 : Accepts(k)
       /\ dPhase # "ambiguous" => Above(replayed)

AtMark(j) ==
  /\ dSrcPos = marks[j].pos
  /\ dPhase = "running" => InStep(dRange, dValue, j, replayed)

DecoderInv ==
  /\ dRange \in 1 .. (2 * Threshold - 1) /\ dValue \in Int
  /\ replayed \in 0 .. Len(calls)
  /\ phase # "done" => /\ dPhase = "running" /\ dRange = 1 /\ dValue = 0
                       /\ dSrcPos = 0 /\ dDestPos = 0 /\ replayed = 0
  /\ ~Exactly /\ dPhase = "running" /\ replayed < Len(calls) => dDestPos = replayed
  /\ \E j \in DOMAIN marks : AtMark(j)
  /\ Judged

CodecInv == EncoderInv /\ OneSection /\ CeilingInv /\ DecoderInv

-----------------------------------------------------------------------------
(* Facts about the constants.                                              *)

LEMMA UnitPowers == \A b \in 0 .. FlushBits : Unit[b] \in Powers
<1> DEFINE T == {n \in Nat : n <= FlushBits => Unit[FlushBits - n] \in Powers}
<1>1. 0 \in T
  <2>1. FlushBits - 0 = FlushBits
    BY Widths
  <2>2. QED
    BY <2>1, Widths, OneIsPower
<1>2. ASSUME NEW n \in T PROVE n + 1 \in T
  <2> SUFFICES ASSUME n + 1 <= FlushBits PROVE Unit[FlushBits - (n + 1)] \in Powers
    OBVIOUS
  <2>1. FlushBits - n \in 1 .. FlushBits /\ (FlushBits - n) - 1 = FlushBits - (n + 1)
    BY Widths
  <2>2. Unit[FlushBits - (n + 1)] = 2 * Unit[FlushBits - n]
    BY <2>1, Widths
  <2>3. Unit[FlushBits - n] \in Powers
    BY Widths
  <2>4. QED
    BY <2>2, <2>3, DoubledPower
<1> HIDE DEF T
<1>3. T = Nat
  <2>1. T \in SUBSET Nat
    BY DEF T
  <2>2. QED
    BY <1>1, <1>2, <2>1, SetInduction
<1>4. ASSUME NEW b \in 0 .. FlushBits PROVE Unit[b] \in Powers
  <2>1. FlushBits - b \in Nat /\ FlushBits - b <= FlushBits /\ FlushBits - (FlushBits - b) = b
    BY Widths
  <2>2. QED
    BY <1>3, <2>1 DEF T
<1>5. QED
  BY <1>4

LEMMA Sizes == Carry \in Powers /\ Threshold \in Powers /\ Unit[0] = Carry
<1>1. 0 \in 0 .. FlushBits /\ WarmUp \in 0 .. FlushBits
  BY Widths
<1>2. QED
  BY <1>1, UnitPowers, Widths DEF Carry

\* Both programs expect the framing at the same places.
LEMMA FramingPlaces ==
  /\ Framing(dest) = FramingAt(Len(dest))
  /\ D!Framing = FramingAt(dSrcPos)
BY DEF Framing, D!Framing, FramingAt, Framed, D!Framed

LEMMA FramingShort ==
  ASSUME NEW pos \in Nat
  PROVE  FramingAt(pos) \in Seq({0, 1}) /\ Len(FramingAt(pos)) \in Nat
<1>1. /\ <<>> \in Seq({0, 1}) /\ <<0>> \in Seq({0, 1})
      /\ <<1, 0>> \in Seq({0, 1})
  OBVIOUS
<1>2. FramingAt(pos) \in Seq({0, 1})
  BY <1>1 DEF FramingAt
<1>3. QED
  BY <1>2

LEMMA FunctionIsSequence ==
  ASSUME NEW S, NEW n \in Nat, NEW f \in [1 .. n -> S]
  PROVE  f \in Seq(S) /\ Len(f) = n
OBVIOUS

-----------------------------------------------------------------------------
(* Facts about calls.                                                      *)

\* Fields of a call, and what is left of the interval it found.
LEMMA CallFacts ==
  ASSUME Types, NEW k \in 1 .. Len(calls)
  PROVE  /\ k \in DOMAIN calls
         /\ calls[k] \in CallTypes
         /\ calls[k].low \in Nat /\ calls[k].scale \in Nat /\ calls[k].scale >= 1
         /\ calls[k].scale \in Powers
         /\ calls[k].range \in Threshold .. (2 * Threshold - 1)
         /\ calls[k].sub \in 1 .. (calls[k].range - 2)
         /\ Split(calls[k]) \in Nat /\ Split(calls[k]) >= 1
         /\ Kept(calls[k]) \in Nat /\ Kept(calls[k]) >= 1
         /\ Skipped(calls[k]) \in Nat
         /\ LowAfter(k) \in Nat /\ WidthAfter(k) \in Nat
<1>1. k \in DOMAIN calls /\ calls[k] \in CallTypes
  BY DEF Types
<1>2. /\ calls[k].low \in Nat /\ calls[k].scale \in Powers
      /\ calls[k].range \in Threshold .. (2 * Threshold - 1)
      /\ calls[k].sub \in Nat \ {0} /\ calls[k].sub < calls[k].range - 1
  BY <1>1 DEF CallTypes, Types, Sound
<1>3. calls[k].scale \in Nat /\ calls[k].scale >= 1
  BY <1>2, PowersPositive
<1>4. calls[k].sub \in 1 .. (calls[k].range - 2) /\ calls[k].range \in Nat
  <2>1. ASSUME NEW r \in Threshold .. (2 * Threshold - 1), NEW x \in Nat \ {0}, x < r - 1
        PROVE  x \in 1 .. (r - 2) /\ r \in Nat
    <3>1. Threshold \in Nat
      BY Widths
    <3>2. QED
      BY <2>1, <3>1
  <2>2. QED
    BY <1>2, <2>1
<1>5. /\ Split(calls[k]) \in Nat /\ Split(calls[k]) >= 1
      /\ Kept(calls[k]) \in Nat /\ Kept(calls[k]) >= 1 /\ Skipped(calls[k]) \in Nat
  <2>1. ASSUME NEW r \in Nat, NEW x \in 1 .. (r - 2)
        PROVE  /\ r >= 1 /\ r - x \in Nat /\ r - x + 1 \in Nat
               /\ r - x >= 1 /\ x \in Nat /\ x >= 1
    OBVIOUS
  <2>2. /\ calls[k].range >= 1 /\ Split(calls[k]) \in Nat /\ Split(calls[k]) + 1 \in Nat
        /\ Split(calls[k]) >= 1 /\ calls[k].sub \in Nat /\ calls[k].sub >= 1
    BY <1>4, <2>1 DEF Split
  <2>3. Kept(calls[k]) \in {calls[k].range, Split(calls[k]), calls[k].sub, 1}
    BY DEF Kept
  <2>4. Skipped(calls[k]) \in {0, Split(calls[k]), Split(calls[k]) + 1}
    <3>1. Split(calls[k]) + 0 = Split(calls[k])
      BY <2>2
    <3>2. QED
      BY <3>1 DEF Skipped, Skip
  <2>5. QED
    BY <1>4, <2>2, <2>3, <2>4
<1>6. k # 0
  OBVIOUS
<1>7. LowAfter(k) \in Nat /\ WidthAfter(k) \in Nat
  <2>1. \A x, y \in Nat : x * y \in Nat
    OBVIOUS
  <2>2. Kept(calls[k]) * calls[k].scale \in Nat /\ Skipped(calls[k]) * calls[k].scale \in Nat
    BY <1>3, <1>5, <2>1
  <2>3. calls[k].low + Skipped(calls[k]) * calls[k].scale \in Nat
    BY <1>2, <2>2
  <2>4. QED
    BY <1>6, <2>2, <2>3 DEF LowAfter, WidthAfter
<1>8. QED
  BY <1>1, <1>2, <1>3, <1>4, <1>5, <1>7

\* The same for all intervals, the one before the first call included.
LEMMA AfterFacts ==
  ASSUME Types, NEW k \in 0 .. Len(calls)
  PROVE  LowAfter(k) \in Nat /\ WidthAfter(k) \in Nat
<1>1. CASE k = 0
  <2>1. marks[1] \in MarkTypes
    BY DEF Types
  <2>2. marks[1].unit \in Nat
    BY <2>1, PowersPositive DEF MarkTypes
  <2>3. QED
    BY <1>1, <2>2 DEF LowAfter, WidthAfter
<1>2. CASE k # 0
  <2>1. k \in 1 .. Len(calls)
    BY <1>2 DEF Types
  <2>2. QED
    BY <2>1, CallFacts
<1>3. QED
  BY <1>1, <1>2

LEMMA MarkFacts ==
  ASSUME Types, NEW j \in DOMAIN marks
  PROVE  /\ marks[j].pos \in Nat /\ marks[j].number \in Nat
         /\ marks[j].unit \in Nat /\ marks[j].unit >= 1 /\ marks[j].unit \in Powers
         /\ marks[j] = [pos |-> marks[j].pos, number |-> marks[j].number, unit |-> marks[j].unit]
<1>1. marks[j] \in MarkTypes
  BY DEF Types
<1>2. QED
  BY <1>1, PowersPositive DEF MarkTypes

-----------------------------------------------------------------------------
(* Normalize.                                                              *)

\* Doubling takes all that was noted to the new scale.
LEMMA DoublingScales ==
  ASSUME Types, Doubling, dest' \in Seq({0, 1}), payload' \in Nat,
         marks' = Marked \/ marks' = Append(Marked, Mark)
  PROVE  /\ Types'
         /\ Len(calls') = Len(calls)
         /\ \A k \in 1 .. Len(calls) :
              /\ Width(calls[k])' = 2 * Width(calls[k]) /\ calls'[k].low = 2 * calls[k].low
              /\ calls'[k].op = calls[k].op /\ calls'[k].bit = calls[k].bit
         /\ \A k \in 0 .. Len(calls) :
              LowAfter(k)' = 2 * LowAfter(k) /\ WidthAfter(k)' = 2 * WidthAfter(k)
         /\ \A j \in 1 .. Len(marks) :
              /\ marks'[j].pos = marks[j].pos /\ marks'[j].number = marks[j].number
              /\ marks'[j].unit = 2 * marks[j].unit
         /\ Len(marks) \in Nat \ {0}
         /\ marks' = Marked => Len(marks') = Len(marks)
         /\ marks' = Append(Marked, Mark) =>
              Len(marks') = Len(marks) + 1 /\ marks'[Len(marks) + 1] = Mark
<1>1. /\ calls \in Seq(CallTypes) /\ Len(calls) \in Nat /\ DOMAIN calls = 1 .. Len(calls)
      /\ marks \in Seq(MarkTypes) /\ Len(marks) \in Nat \ {0} /\ DOMAIN marks = 1 .. Len(marks)
  BY DEF Types
<1>2. calls' = [k \in 1 .. Len(calls) |-> [calls[k] EXCEPT !.low = 2 * @, !.scale = 2 * @]]
  BY <1>1 DEF Doubling
<1>3. ASSUME NEW k \in 1 .. Len(calls)
      PROVE  /\ calls'[k] \in CallTypes
             /\ calls'[k].low = 2 * calls[k].low /\ calls'[k].scale = 2 * calls[k].scale
             /\ calls'[k].range = calls[k].range /\ calls'[k].sub = calls[k].sub
             /\ calls'[k].op = calls[k].op /\ calls'[k].bit = calls[k].bit
             /\ Kept(calls'[k]) = Kept(calls[k]) /\ Skipped(calls'[k]) = Skipped(calls[k])
             /\ Sound(calls[k]) => Sound(calls'[k])
  <2>1. calls[k] \in CallTypes
    BY <1>1
  <2>2. calls'[k] = [calls[k] EXCEPT !.low = 2 * @, !.scale = 2 * @]
    BY <1>2
  <2>3. 2 * calls[k].low \in Nat /\ 2 * calls[k].scale \in Powers
    BY <2>1, DoubledPower DEF CallTypes
  <2>4. calls'[k] \in CallTypes
    BY <2>1, <2>2, <2>3 DEF CallTypes
  <2>5. /\ calls'[k].low = 2 * calls[k].low /\ calls'[k].scale = 2 * calls[k].scale
        /\ calls'[k].range = calls[k].range /\ calls'[k].sub = calls[k].sub
        /\ calls'[k].op = calls[k].op /\ calls'[k].bit = calls[k].bit
    BY <2>1, <2>2 DEF CallTypes
  <2>6. QED
    BY <2>4, <2>5 DEF Kept, Skipped, Split, Sound
<1>4. calls' \in Seq(CallTypes) /\ Len(calls') = Len(calls) /\ DOMAIN calls' = 1 .. Len(calls)
  <2>1. DOMAIN calls' = 1 .. Len(calls) /\ calls' = [k \in 1 .. Len(calls) |-> calls'[k]]
    BY <1>2
  <2>2. calls' \in [1 .. Len(calls) -> CallTypes]
    BY <1>3, <2>1
  <2>3. QED
    BY <1>1, <2>1, <2>2, FunctionIsSequence
<1>5. Marked = [n \in 1 .. Len(marks) |-> Doubled(marks[n])]
  BY <1>1 DEF Marked
<1>6. ASSUME NEW j \in 1 .. Len(marks)
      PROVE  /\ Doubled(marks[j]) \in MarkTypes
             /\ Doubled(marks[j]).pos = marks[j].pos /\ Doubled(marks[j]).number = marks[j].number
             /\ Doubled(marks[j]).unit = 2 * marks[j].unit
  <2>1. marks[j] \in MarkTypes
    BY <1>1
  <2>2. 2 * marks[j].unit \in Powers
    BY <2>1, DoubledPower DEF MarkTypes
  <2>3. QED
    BY <2>1, <2>2 DEF MarkTypes, Doubled
<1>7. Marked \in Seq(MarkTypes) /\ Len(Marked) = Len(marks) /\ DOMAIN Marked = 1 .. Len(marks)
  BY <1>1, <1>5, <1>6
<1>8. Mark \in MarkTypes
  BY Sizes DEF Mark, MarkTypes
<1>9. /\ marks' \in Seq(MarkTypes) /\ marks' # <<>>
      /\ \A j \in 1 .. Len(marks) : marks'[j] = Doubled(marks[j])
  <2>1. CASE marks' = Marked
    BY <1>1, <1>5, <1>7, <2>1
  <2>2. CASE marks' = Append(Marked, Mark)
    <3>1. /\ Append(Marked, Mark) \in Seq(MarkTypes) /\ Append(Marked, Mark) # <<>>
          /\ \A j \in 1 .. Len(Marked) : Append(Marked, Mark)[j] = Marked[j]
      BY <1>7, <1>8
    <3>2. QED
      BY <1>1, <1>5, <1>7, <2>2, <3>1
  <2>3. QED
    BY <2>1, <2>2
<1>10. \A j \in 1 .. Len(marks) :
         /\ marks'[j].pos = marks[j].pos /\ marks'[j].number = marks[j].number
         /\ marks'[j].unit = 2 * marks[j].unit
  BY <1>6, <1>9
<1>11. Types'
  BY <1>1, <1>3, <1>4, <1>9 DEF Types
<1>12. ASSUME NEW k \in 1 .. Len(calls)
       PROVE  /\ Width(calls[k])' = 2 * Width(calls[k])
              /\ LowAfter(k)' = 2 * LowAfter(k) /\ WidthAfter(k)' = 2 * WidthAfter(k)
  <2>1. \A a, b \in Nat : a * (2 * b) = 2 * (a * b)
    OBVIOUS
  <2>2. /\ calls[k].range \in Nat /\ Kept(calls[k]) \in Nat /\ Skipped(calls[k]) \in Nat
        /\ calls[k].scale \in Nat /\ calls[k].low \in Nat
    <3>1. \A r \in Threshold .. (2 * Threshold - 1) : r \in Nat
      BY Widths
    <3>2. QED
      BY <3>1, CallFacts
  <2>3. Width(calls'[k]) = 2 * Width(calls[k])
    <3>1. calls'[k].range = calls[k].range /\ calls'[k].scale = 2 * calls[k].scale
      BY <1>3
    <3>2. calls[k].range * (2 * calls[k].scale) = 2 * (calls[k].range * calls[k].scale)
      BY <2>1, <2>2, Zenon
    <3>3. QED
      BY <3>1, <3>2, Zenon DEF Width
  <2>4. Kept(calls'[k]) * calls'[k].scale = 2 * (Kept(calls[k]) * calls[k].scale)
    BY <1>3, <2>1, <2>2
  <2>5. Skipped(calls'[k]) * calls'[k].scale = 2 * (Skipped(calls[k]) * calls[k].scale)
    BY <1>3, <2>1, <2>2
  <2>6. Skipped(calls[k]) * calls[k].scale \in Nat
    BY <2>2
  <2>7. calls'[k].low + Skipped(calls'[k]) * calls'[k].scale
          = 2 * (calls[k].low + Skipped(calls[k]) * calls[k].scale)
    <3>1. \A a, b \in Nat : 2 * a + 2 * b = 2 * (a + b)
      OBVIOUS
    <3>2. calls'[k].low = 2 * calls[k].low
      BY <1>3
    <3>3. 2 * calls[k].low + 2 * (Skipped(calls[k]) * calls[k].scale)
            = 2 * (calls[k].low + Skipped(calls[k]) * calls[k].scale)
      BY <2>2, <2>6, <3>1, Zenon
    <3>4. QED
      BY <2>5, <3>2, <3>3, Zenon
  <2>8. k # 0
    OBVIOUS
  <2>9. QED
    BY <2>3, <2>4, <2>7, <2>8 DEF LowAfter, WidthAfter
<1>13. LowAfter(0)' = 2 * LowAfter(0) /\ WidthAfter(0)' = 2 * WidthAfter(0)
  BY <1>1, <1>10 DEF LowAfter, WidthAfter
<1>14. /\ marks' = Marked => Len(marks') = Len(marks)
       /\ marks' = Append(Marked, Mark) =>
            Len(marks') = Len(marks) + 1 /\ marks'[Len(marks) + 1] = Mark
  BY <1>7, <1>8
<1>15. \A k \in 0 .. Len(calls) :
         LowAfter(k)' = 2 * LowAfter(k) /\ WidthAfter(k)' = 2 * WidthAfter(k)
  <2> SUFFICES ASSUME NEW k \in 0 .. Len(calls)
               PROVE  LowAfter(k)' = 2 * LowAfter(k) /\ WidthAfter(k)' = 2 * WidthAfter(k)
    OBVIOUS
  <2>1. k = 0 \/ k \in 1 .. Len(calls)
    BY <1>1
  <2>2. QED
    BY <1>12, <1>13, <2>1
<1>16. \A k \in 1 .. Len(calls) :
         /\ Width(calls[k])' = 2 * Width(calls[k]) /\ calls'[k].low = 2 * calls[k].low
         /\ calls'[k].op = calls[k].op /\ calls'[k].bit = calls[k].bit
  BY <1>3, <1>12
<1>17. QED
  BY <1>1, <1>4, <1>10, <1>11, <1>14, <1>15, <1>16

\* What every proof about a step needs of the encoder.
LEMMA EncoderFacts ==
  ASSUME Inv
  PROVE  /\ range \in Nat /\ range >= 1 /\ value \in Nat /\ payload \in Nat /\ Carry \in Nat
         /\ Threshold \in Nat /\ Threshold >= 4 /\ payload * Carry \in Nat /\ Low \in Nat
         /\ bitCount \in 0 .. WarmUp /\ flushed \in 0 .. FlushBits /\ dest \in Seq({0, 1})
         /\ Unit[bitCount] \in Nat /\ Unit[bitCount] <= Carry /\ Unit[bitCount] \in Powers
<1>1. /\ range \in Nat /\ range >= 1 /\ value \in Nat /\ payload \in Nat /\ Carry \in Nat
      /\ Threshold \in Nat /\ Threshold >= 4
  BY RegisterFits, CarryTop, Widths DEF Inv, TypeOK
<1>2. payload * Carry \in Nat
  BY <1>1
<1>3. /\ bitCount \in 0 .. WarmUp /\ flushed \in 0 .. FlushBits /\ dest \in Seq({0, 1})
  BY DEF Inv, TypeOK
<1>4. bitCount \in 0 .. FlushBits
  BY <1>3, Widths
<1>5. Unit[bitCount] \in Nat /\ Unit[bitCount] <= Carry /\ Unit[bitCount] \in Powers
  BY <1>4, RegisterFits, UnitPowers
<1>6. Low \in Nat
  BY <1>1, <1>2 DEF Low
<1>7. QED
  BY <1>1, <1>2, <1>3, <1>5, <1>6

\* The intervals and the low end double; Finalize comes closer to its end.
LEMMA DoublingIntervals ==
  ASSUME EncoderInv, Inv', Shift \/ SendBit, Doubling,
         marks' = Marked \/ marks' = Append(Marked, Mark)
  PROVE  Types' /\ Chain' /\ Latest' /\ Nested' /\ Drained'
<1> USE DEF EncoderInv
<1>1. dest' \in Seq({0, 1}) /\ payload' \in Nat
  BY DEF Inv, TypeOK
<1>2. /\ Types'
      /\ Len(calls') = Len(calls) /\ Len(calls) \in Nat /\ DOMAIN calls = 1 .. Len(calls)
      /\ DOMAIN calls' = 1 .. Len(calls)
      /\ \A k \in 1 .. Len(calls) :
           Width(calls[k])' = 2 * Width(calls[k]) /\ calls'[k].low = 2 * calls[k].low
      /\ \A k \in 0 .. Len(calls) :
           LowAfter(k)' = 2 * LowAfter(k) /\ WidthAfter(k)' = 2 * WidthAfter(k)
  <2>1. Types' /\ Len(calls') = Len(calls)
    BY <1>1, DoublingScales
  <2>2. Len(calls) \in Nat /\ DOMAIN calls = 1 .. Len(calls) /\ DOMAIN calls' = 1 .. Len(calls')
    BY <2>1 DEF Types
  <2>3. QED
    BY <1>1, <2>1, <2>2, DoublingScales
<1>3. Low' = 2 * Low /\ Low \in Nat /\ range \in Nat
  BY LowDoubles, EncoderFacts
<1>4. /\ range' = 2 * range /\ range < Threshold /\ phase' = phase /\ flushed' = flushed
      /\ phase \in {"coding", "flushing"}
  BY DEF Shift, SendBit, Looping
<1>5. Chain'
  <2> SUFFICES ASSUME NEW k \in 1 .. Len(calls)
               PROVE  calls'[k].low = LowAfter(k - 1)' /\ Width(calls'[k]) = WidthAfter(k - 1)'
    BY <1>2 DEF Chain
  <2>1. k - 1 \in 0 .. Len(calls) /\ k \in DOMAIN calls
    BY <1>2
  <2>2. calls[k].low = LowAfter(k - 1) /\ Width(calls[k]) = WidthAfter(k - 1)
    BY <2>1 DEF Chain
  <2>3. LowAfter(k - 1)' = 2 * LowAfter(k - 1) /\ WidthAfter(k - 1)' = 2 * WidthAfter(k - 1)
    BY <1>2, <2>1
  <2>4. QED
    BY <1>2, <2>2, <2>3
<1>6. Latest'
  <2>1. LowAfter(Len(calls))' = 2 * LowAfter(Len(calls))
    BY <1>2 DEF LowAfter
  <2>2. WidthAfter(Len(calls))' = 2 * WidthAfter(Len(calls))
    BY <1>2 DEF WidthAfter
  <2>3. QED
    BY <1>3, <1>4, <2>1, <2>2 DEF Latest
<1>7. Nested'
  <2> SUFFICES ASSUME NEW k \in 0 .. Len(calls)
               PROVE  /\ LowAfter(k)' <= Low' /\ range' <= WidthAfter(k)'
                      /\ Exactly => Low' + range' <= LowAfter(k)' + WidthAfter(k)'
    BY <1>2 DEF Nested, Exactly
  <2>1. /\ LowAfter(k) <= Low /\ range <= WidthAfter(k)
        /\ Exactly => Low + range <= LowAfter(k) + WidthAfter(k)
    BY DEF Nested
  <2>2. LowAfter(k) \in Nat /\ WidthAfter(k) \in Nat
    BY AfterFacts
  <2>3. LowAfter(k)' = 2 * LowAfter(k) /\ WidthAfter(k)' = 2 * WidthAfter(k)
    BY <1>2
  <2>4. QED
    BY <1>3, <1>4, <2>1, <2>2, <2>3
<1>8. Drained'
  <2> SUFFICES ASSUME phase = "flushing" PROVE Drained'
    BY <1>4 DEF Drained
  <2>1. flushed \in 1 .. FlushBits /\ Drains = flushed - 1 /\ Drains' = flushed
    BY DrainingDoubles
  <2>2. Unit[flushed - 1] = 2 * Unit[flushed] /\ Unit[flushed] \in Nat
    BY <2>1, Widths
  <2>3. ASSUME NEW k \in 0 .. Len(calls)
        PROVE  WidthAfter(k)' * Unit[flushed] >= Threshold * Carry
    <3>1. WidthAfter(k) * Unit[flushed - 1] >= Threshold * Carry
      BY <2>1 DEF Drained
    <3>2. WidthAfter(k)' = 2 * WidthAfter(k) /\ WidthAfter(k) \in Nat
      BY <1>2, AfterFacts
    <3>3. \A a, b \in Nat : (2 * a) * b = a * (2 * b)
      OBVIOUS
    <3>4. QED
      BY <2>2, <3>1, <3>2, <3>3
  <2>4. \A k \in 0 .. Len(calls)' :
          WidthAfter(k)' * Unit[Drains]' >= (Threshold * Carry)'
    BY <1>2, <2>1, <2>3 DEF Carry
  <2>5. PICK n \in Nat : n = Len(calls) /\ n = Len(calls)'
    BY <1>2
  <2>6. PICK r \in Threshold .. (2 * Threshold - 1) : WidthAfter(n) * Unit[flushed - 1] = r * Carry
    BY <2>1, <2>5 DEF Drained
  <2>7. WidthAfter(n)' * Unit[flushed] = r * Carry
    <3>1. WidthAfter(n)' = 2 * WidthAfter(n) /\ WidthAfter(n) \in Nat
      BY <1>2, <2>5, AfterFacts
    <3>2. \A a, b \in Nat : (2 * a) * b = a * (2 * b)
      OBVIOUS
    <3>3. QED
      BY <2>2, <2>6, <3>1, <3>2
  <2>8. \E q \in Threshold .. (2 * Threshold - 1) :
          WidthAfter(Len(calls))' * Unit[Drains]' = q * Carry'
    BY <2>1, <2>5, <2>7 DEF WidthAfter, Carry
  <2>9. QED
    BY <2>4, <2>8 DEF Drained
<1>9. QED
  BY <1>2, <1>5, <1>6, <1>7, <1>8

\* The bounds of a number when its unit doubles.
LEMMA DoubledMark ==
  ASSUME NEW m, NEW n, m.number \in Nat, m.unit \in Nat,
         n.number = m.number, n.unit = 2 * m.unit
  PROVE  /\ n.number * n.unit = 2 * (m.number * m.unit)
         /\ (n.number + 1) * n.unit = 2 * ((m.number + 1) * m.unit)
         /\ m.number * m.unit \in Nat /\ (m.number + 1) * m.unit \in Nat
<1>1. PICK a, b \in Nat : a = m.number /\ b = m.unit
  OBVIOUS
<1>2. /\ a * (2 * b) = 2 * (a * b) /\ (a + 1) * (2 * b) = 2 * ((a + 1) * b)
      /\ a * b \in Nat /\ (a + 1) * b \in Nat
  OBVIOUS
<1>3. QED
  BY <1>1, <1>2, Zenon

\* Neither the new scale nor a longer stream changes what lies between marks.
LEMMA FollowsDoubled ==
  ASSUME NEW d \in Seq({0, 1}), NEW e \in Seq({0, 1}), Len(d) <= Len(e),
         \A i \in 1 .. Len(d) : e[i] = d[i],
         NEW m \in MarkTypes, NEW n \in MarkTypes, Follows(d, m, n), NEW m2, NEW n2,
         NEW s \in {1, 2},
         m2.pos = m.pos, m2.number = m.number, m2.unit = s * m.unit,
         n2.pos = n.pos, n2.number = n.number, n2.unit = s * n.unit
  PROVE  Follows(e, m2, n2)
<1>1. m.pos \in Nat /\ n.pos \in Nat /\ Len(d) \in Nat /\ Len(e) \in Nat
  BY DEF MarkTypes
<1>2. Len(FramingAt(m.pos)) \in Nat
  BY <1>1, FramingShort
<1>3. n.pos = m.pos + Len(FramingAt(m.pos)) + 1 /\ n.pos <= Len(d)
  BY DEF Follows
<1>4. n.pos \in 1 .. Len(d) /\ e[n.pos] = d[n.pos]
  BY <1>1, <1>2, <1>3
<1>5. ASSUME NEW i \in 1 .. Len(FramingAt(m.pos)) PROVE e[m.pos + i] = FramingAt(m.pos)[i]
  <2>1. m.pos + i \in 1 .. Len(d)
    BY <1>1, <1>2, <1>3
  <2>2. QED
    BY <2>1 DEF Follows
<1>6. m.unit = 2 * n.unit /\ n.number = 2 * m.number + d[n.pos]
  BY DEF Follows
<1>7. n2.pos <= Len(e)
  BY <1>1, <1>3
<1>8. m2.unit = 2 * n2.unit
  <2>1. n.unit \in Nat
    BY PowersPositive DEF MarkTypes
  <2>2. QED
    BY <1>6, <2>1
<1>9. QED
  BY <1>3, <1>4, <1>5, <1>6, <1>7, <1>8 DEF Follows

\* During the warm-up there is only one mark, and nothing has been sent.
LEMMA ShiftMarks ==
  ASSUME EncoderInv, Inv', Shift, Doubling, marks' = Marked
  PROVE  Ends' /\ Sent' /\ Begun'
<1> USE DEF EncoderInv
<1>1. dest' \in Seq({0, 1}) /\ payload' \in Nat /\ dest \in Seq({0, 1})
  BY DEF Inv, TypeOK
<1>2. /\ Len(marks) \in Nat \ {0} /\ Len(marks') = Len(marks)
      /\ \A j \in 1 .. Len(marks) :
           /\ marks'[j].pos = marks[j].pos /\ marks'[j].number = marks[j].number
           /\ marks'[j].unit = 2 * marks[j].unit
  BY <1>1, DoublingScales
<1>3. \A j \in 1 .. Len(marks) : j \in DOMAIN marks /\ marks[j] \in MarkTypes
  BY DEF Types
<1>4. /\ dest' = dest /\ payload' = payload /\ phase' = phase
      /\ bitCount > 0 /\ bitCount' = bitCount - 1
  BY DEF Shift
<1>5. Unit[bitCount'] = 2 * Unit[bitCount] /\ Unit[bitCount] \in Nat
  <2>1. bitCount \in 1 .. WarmUp
    BY <1>4, EncoderFacts, Widths
  <2>2. QED
    BY <1>4, <2>1, EncoderFacts, Widths
<1>6. payload * Carry = 0 /\ (payload * Carry)' = 0
  <2>1. payload = 0
    BY <1>4, EncoderFacts DEF Inv, WarmUpSilent
  <2>2. QED
    BY <1>4, <2>1, EncoderFacts DEF Carry
<1>7. Ends'
  <2>1. 1 \in 1 .. Len(marks) /\ Len(marks) \in 1 .. Len(marks)
    BY <1>2
  <2>2. marks[1].pos = 0 /\ marks[1].number = 0
    BY DEF Ends
  <2>3. /\ phase # "overflow" => marks[Len(marks)].pos = Len(dest)
        /\ marks[Len(marks)].number = payload /\ marks[Len(marks)].unit = Unit[bitCount]
    BY DEF Ends, LastMark
  <2>4. /\ marks'[1].pos = 0 /\ marks'[1].number = 0
        /\ marks'[Len(marks')].pos = marks[Len(marks)].pos
        /\ marks'[Len(marks')].number = payload'
        /\ marks'[Len(marks')].unit = Unit[bitCount']
    BY <1>2, <1>4, <1>5, <2>1, <2>2, <2>3
  <2>5. QED
    BY <1>4, <2>3, <2>4 DEF Ends, LastMark
<1>8. Sent'
  <2> SUFFICES ASSUME NEW j \in 1 .. Len(marks) - 1
               PROVE  Follows(dest', marks'[j], marks'[j + 1])
    BY <1>2 DEF Sent, Follows
  <2>1. j \in 1 .. Len(marks) /\ j + 1 \in 1 .. Len(marks)
    BY <1>2
  <2>2. Follows(dest, marks[j], marks[j + 1])
    BY DEF Sent
  <2>3. QED
    BY <1>1, <1>2, <1>3, <1>4, <2>1, <2>2, FollowsDoubled
<1>9. Begun'
  <2> SUFFICES ASSUME NEW j \in 1 .. Len(marks)
               PROVE  /\ marks'[j].number * marks'[j].unit <= (payload * Carry)'
                      /\ (payload * Carry)' + Unit[bitCount'] <= (marks'[j].number + 1) * marks'[j].unit
                      /\ marks'[j].unit >= Unit[bitCount']
    <3>1. DOMAIN marks' = 1 .. Len(marks)
      BY <1>1, <1>2, DoublingScales DEF Types
    <3>2. QED
      BY <3>1 DEF Begun
  <2>1. /\ marks[j].number * marks[j].unit <= 0
        /\ Unit[bitCount] <= (marks[j].number + 1) * marks[j].unit
        /\ marks[j].unit >= Unit[bitCount]
    BY <1>3, <1>5, <1>6 DEF Begun
  <2>2. marks[j].number \in Nat /\ marks[j].unit \in Nat
    BY <1>3, MarkFacts
  <2>4. marks'[j].number = marks[j].number /\ marks'[j].unit = 2 * marks[j].unit
    BY <1>2
  <2>5. /\ marks'[j].number * marks'[j].unit = 2 * (marks[j].number * marks[j].unit)
        /\ (marks'[j].number + 1) * marks'[j].unit = 2 * ((marks[j].number + 1) * marks[j].unit)
        /\ marks[j].number * marks[j].unit \in Nat /\ (marks[j].number + 1) * marks[j].unit \in Nat
    BY <2>2, <2>4, DoubledMark
  <2>6. marks'[j].unit >= Unit[bitCount']
    BY <1>5, <2>1, <2>2, <2>4
  <2>7. QED
    BY <1>5, <1>6, <2>1, <2>5, <2>6
<1>10. QED
  BY <1>7, <1>8, <1>9

LEMMA SentSum ==
  ASSUME NEW p \in Nat, NEW c \in Nat, NEW b \in 0 .. c, NEW q, q = 2 * p + b,
         NEW x \in Nat, NEW y \in Nat, x <= p, p + c <= y
  PROVE  q \in Nat /\ 2 * x <= q /\ q + c <= 2 * y
OBVIOUS

\* A bit sent makes a mark behind the others.
LEMMA SendMarks ==
  ASSUME EncoderInv, Inv', SendBit, Doubling, marks' = Append(Marked, Mark)
  PROVE  Ends' /\ Sent' /\ Begun'
<1> USE DEF EncoderInv
<1>1. dest' \in Seq({0, 1}) /\ payload' \in Nat /\ dest \in Seq({0, 1}) /\ payload \in Nat
  BY DEF Inv, TypeOK
<1>2. /\ Len(marks) \in Nat \ {0} /\ Len(marks') = Len(marks) + 1
      /\ marks'[Len(marks) + 1] = Mark
      /\ \A j \in 1 .. Len(marks) :
           /\ marks'[j].pos = marks[j].pos /\ marks'[j].number = marks[j].number
           /\ marks'[j].unit = 2 * marks[j].unit
  BY <1>1, DoublingScales
<1>3. \A j \in 1 .. Len(marks) : j \in DOMAIN marks /\ marks[j] \in MarkTypes
  BY DEF Types
<1>4. /\ phase' = phase /\ phase \in {"coding", "flushing"}
      /\ bitCount = 0 /\ bitCount' = 0 /\ Unit[bitCount] = Carry /\ Unit[bitCount'] = Carry
  BY DEF SendBit, Looping, Carry
<1>5. PICK bit \in {0, 1} :
        dest' = Append(dest \o Framing(dest), bit) /\ payload' = 2 * payload + bit
  BY SendBitExact
<1> DEFINE F == FramingAt(Len(dest))
<1>6. F = Framing(dest) /\ F \in Seq({0, 1}) /\ Len(F) \in Nat /\ Len(dest) \in Nat
  BY <1>1, FramingPlaces, FramingShort
<1> HIDE DEF F
<1>7. dest \o F \in Seq({0, 1}) /\ dest' = Append(dest \o F, bit)
  BY <1>1, <1>5, <1>6
<1>8. /\ Len(dest') = Len(dest) + Len(F) + 1
      /\ \A i \in 1 .. Len(dest) : dest'[i] = dest[i]
      /\ \A i \in 1 .. Len(F) : dest'[Len(dest) + i] = F[i]
      /\ dest'[Len(dest')] = bit
  <2>1. /\ Len(dest \o F) = Len(dest) + Len(F)
        /\ \A i \in 1 .. Len(dest) : (dest \o F)[i] = dest[i]
        /\ \A i \in 1 .. Len(F) : (dest \o F)[Len(dest) + i] = F[i]
    BY <1>1, <1>6
  <2>2. /\ Len(dest') = Len(dest \o F) + 1 /\ dest'[Len(dest \o F) + 1] = bit
        /\ \A i \in 1 .. Len(dest \o F) : dest'[i] = (dest \o F)[i]
    BY <1>7
  <2>3. \A i \in 1 .. Len(dest) : i \in 1 .. Len(dest \o F)
    BY <1>6, <2>1
  <2>4. \A i \in 1 .. Len(F) : Len(dest) + i \in 1 .. Len(dest \o F)
    BY <1>6, <2>1
  <2>5. QED
    BY <2>1, <2>2, <2>3, <2>4
<1>9. Mark = [pos |-> Len(dest'), number |-> payload', unit |-> Carry]
  BY DEF Mark
<1>10. marks[Len(marks)].pos = Len(dest) /\ marks[Len(marks)].number = payload
       /\ marks[Len(marks)].unit = Carry
  BY <1>4 DEF Ends, LastMark
<1>11. Ends'
  <2>1. 1 \in 1 .. Len(marks)
    BY <1>2
  <2>2. marks'[1].pos = 0 /\ marks'[1].number = 0
    BY <1>2, <2>1 DEF Ends
  <2>3. LastMark' = Mark
    BY <1>2 DEF LastMark
  <2>4. QED
    BY <1>4, <1>9, <2>2, <2>3 DEF Ends
<1>12. Sent'
  <2> SUFFICES ASSUME NEW j \in 1 .. Len(marks)
               PROVE  Follows(dest', marks'[j], marks'[j + 1])
    <3>1. Len(marks') - 1 = Len(marks)
      BY <1>2
    <3>2. QED
      BY <3>1 DEF Sent, Follows
  <2>1. CASE j < Len(marks)
    <3>1. j \in 1 .. Len(marks) - 1 /\ j + 1 \in 1 .. Len(marks)
      BY <1>2, <2>1
    <3>2. Follows(dest, marks[j], marks[j + 1])
      BY <3>1 DEF Sent
    <3>3. Len(dest) <= Len(dest')
      BY <1>6, <1>8
    <3>4. marks[j] \in MarkTypes /\ marks[j + 1] \in MarkTypes
      BY <1>3, <3>1
    <3>5. /\ marks'[j].pos = marks[j].pos /\ marks'[j].number = marks[j].number
          /\ marks'[j].unit = 2 * marks[j].unit
          /\ marks'[j + 1].pos = marks[j + 1].pos
          /\ marks'[j + 1].number = marks[j + 1].number
          /\ marks'[j + 1].unit = 2 * marks[j + 1].unit
      BY <1>2, <3>1
    <3>6. \A i \in 1 .. Len(dest) : dest'[i] = dest[i]
      BY <1>8
    <3>7. PICK m, n, m2, n2 :
            m = marks[j] /\ n = marks[j + 1] /\ m2 = marks'[j] /\ n2 = marks'[j + 1]
      OBVIOUS
    <3>8. PICK s \in {1, 2} : s = 2
      OBVIOUS
    <3>9. /\ m \in MarkTypes /\ n \in MarkTypes /\ Follows(dest, m, n)
          /\ m2.pos = m.pos /\ m2.number = m.number /\ m2.unit = s * m.unit
          /\ n2.pos = n.pos /\ n2.number = n.number /\ n2.unit = s * n.unit
      BY <3>2, <3>4, <3>5, <3>7, <3>8, Zenon
    <3>10. Follows(dest', m2, n2)
      BY <1>1, <3>3, <3>6, <3>9, FollowsDoubled, Zenon
    <3>11. QED
      BY <3>7, <3>10, Zenon
  <2>2. CASE j = Len(marks)
    <3>1. marks'[j + 1] = [pos |-> Len(dest'), number |-> payload', unit |-> Carry]
      BY <1>2, <1>9, <2>2
    <3>2. marks'[j].pos = Len(dest) /\ marks'[j].number = payload /\ marks'[j].unit = 2 * Carry
      BY <1>2, <1>10, <2>2
    <3>3. FramingAt(marks'[j].pos) = F
      BY <3>2 DEF F
    <3>4. marks'[j + 1].pos = marks'[j].pos + Len(F) + 1 /\ marks'[j + 1].pos <= Len(dest')
      BY <1>6, <1>8, <3>1, <3>2
    <3>5. marks'[j + 1].number = 2 * marks'[j].number + dest'[marks'[j + 1].pos]
      BY <1>5, <1>8, <3>1, <3>2
    <3>6. marks'[j].unit = 2 * marks'[j + 1].unit
      BY <3>1, <3>2
    <3>7. QED
      BY <1>8, <3>2, <3>3, <3>4, <3>5, <3>6 DEF Follows
  <2>3. QED
    BY <1>2, <2>1, <2>2
<1>13. Begun'
  <2>1. DOMAIN marks' = 1 .. Len(marks) + 1
    BY <1>1, <1>2, DoublingScales DEF Types
  <2>2. /\ payload * Carry \in Nat /\ Carry \in Nat /\ Carry' = Carry
        /\ payload' * Carry = 2 * (payload * Carry) + bit * Carry /\ bit * Carry \in 0 .. Carry
    <3>1. Carry \in Nat /\ Carry' = Carry
      BY EncoderFacts DEF Carry
    <3>2. (2 * payload + bit) * Carry = 2 * (payload * Carry) + bit * Carry
      BY <1>1, <3>1
    <3>3. bit * Carry \in 0 .. Carry
      BY <3>1
    <3>4. payload * Carry \in Nat
      BY <1>1, <3>1
    <3>5. QED
      BY <1>5, <3>1, <3>2, <3>3, <3>4
  <2>3. ASSUME NEW j \in 1 .. Len(marks)
        PROVE  /\ marks'[j].number * marks'[j].unit <= payload' * Carry
               /\ payload' * Carry + Carry <= (marks'[j].number + 1) * marks'[j].unit
    <3>1. /\ marks[j].number * marks[j].unit <= payload * Carry
          /\ payload * Carry + Carry <= (marks[j].number + 1) * marks[j].unit
      BY <1>3, <1>4 DEF Begun
    <3>2. marks[j].number \in Nat /\ marks[j].unit \in Nat
      BY <1>3, MarkFacts
    <3>4. marks'[j].number = marks[j].number /\ marks'[j].unit = 2 * marks[j].unit
      BY <1>2
    <3>5. /\ marks'[j].number * marks'[j].unit = 2 * (marks[j].number * marks[j].unit)
          /\ (marks'[j].number + 1) * marks'[j].unit = 2 * ((marks[j].number + 1) * marks[j].unit)
          /\ marks[j].number * marks[j].unit \in Nat /\ (marks[j].number + 1) * marks[j].unit \in Nat
      BY <3>2, <3>4, DoubledMark
    <3> DEFINE x == marks[j].number * marks[j].unit
               y == (marks[j].number + 1) * marks[j].unit
    <3>6. /\ x \in Nat /\ y \in Nat /\ x <= payload * Carry /\ payload * Carry + Carry <= y
          /\ marks'[j].number * marks'[j].unit = 2 * x
          /\ (marks'[j].number + 1) * marks'[j].unit = 2 * y
      BY <3>1, <3>5
    <3> HIDE DEF x, y
    <3>7. 2 * x <= payload' * Carry /\ payload' * Carry + Carry <= 2 * y
      BY <2>2, <3>6, SentSum
    <3>8. QED
      BY <3>6, <3>7
  <2>4. /\ marks'[Len(marks) + 1].number * marks'[Len(marks) + 1].unit = payload' * Carry
        /\ (marks'[Len(marks) + 1].number + 1) * marks'[Len(marks) + 1].unit
             = payload' * Carry + Carry
    <3>1. (payload' + 1) * Carry = payload' * Carry + Carry
      BY <1>1, <2>2
    <3>2. QED
      BY <1>2, <1>9, <3>1
  <2>5. payload' * Carry \in Nat /\ payload' * Carry + Carry \in Nat
    <3>1. \A a, b \in Nat : a * b \in Nat /\ a * b + b \in Nat
      OBVIOUS
    <3>2. QED
      BY <1>1, <2>2, <3>1
  <2>6. ASSUME NEW j \in 1 .. Len(marks) + 1
        PROVE  /\ marks'[j].number * marks'[j].unit <= payload' * Carry
               /\ payload' * Carry + Carry <= (marks'[j].number + 1) * marks'[j].unit
    <3>1. CASE j \in 1 .. Len(marks)
      BY <2>3, <3>1
    <3>2. CASE j = Len(marks) + 1
      <4>1. \A n \in Nat : n <= n
        OBVIOUS
      <4>2. QED
        BY <2>4, <2>5, <3>2, <4>1
    <3>3. QED
      BY <1>2, <3>1, <3>2
  <2>7. ASSUME NEW j \in 1 .. Len(marks) + 1 PROVE marks'[j].unit >= Carry
    <3>1. CASE j \in 1 .. Len(marks)
      <4>1. marks[j].unit >= Carry /\ marks[j].unit \in Nat /\ marks'[j].unit = 2 * marks[j].unit
        BY <1>2, <1>3, <1>4, <3>1, MarkFacts DEF Begun
      <4>2. QED
        BY <2>2, <4>1
    <3>2. CASE j = Len(marks) + 1
      <4>1. marks'[j].unit = Carry
        BY <1>2, <1>9, <3>2
      <4>2. QED
        BY <2>2, <4>1
    <3>3. QED
      BY <1>2, <3>1, <3>2
  <2>8. QED
    BY <1>4, <2>1, <2>2, <2>6, <2>7 DEF Begun
<1>14. QED
  BY <1>11, <1>12, <1>13

-----------------------------------------------------------------------------
(* The calls.                                                              *)

\* What was sent stays as it is while nothing is sent.
LEMMA SameStream ==
  ASSUME EncoderInv, dest' \in Seq({0, 1}), Len(dest) <= Len(dest'),
         \A i \in 1 .. Len(dest) : dest'[i] = dest[i],
         phase' # "overflow" => phase # "overflow" /\ dest' = dest,
         marks' = marks, payload' = payload, bitCount' = bitCount
  PROVE  Ends' /\ Sent' /\ Begun'
<1> USE DEF EncoderInv
<1>1. Ends'
  BY DEF Ends, LastMark
<1>2. Begun'
  BY DEF Begun, Carry
<1>3. Sent'
  <2> SUFFICES ASSUME NEW j \in 1 .. Len(marks) - 1
               PROVE  Follows(dest', marks[j], marks[j + 1])
    BY DEF Sent, Follows
  <2>1. /\ marks[j] \in MarkTypes /\ marks[j + 1] \in MarkTypes
        /\ marks[j].unit \in Nat /\ marks[j + 1].unit \in Nat
    <3>1. j \in DOMAIN marks /\ j + 1 \in DOMAIN marks
      BY DEF Types
    <3>2. QED
      BY <3>1, MarkFacts DEF Types
  <2>2. Follows(dest, marks[j], marks[j + 1]) /\ dest \in Seq({0, 1})
    BY DEF Sent, Inv, TypeOK
  <2>3. marks[j].unit = 1 * marks[j].unit /\ marks[j + 1].unit = 1 * marks[j + 1].unit
    BY <2>1
  <2>4. QED
    BY <2>1, <2>2, <2>3, FollowsDoubled
<1>4. QED
  BY <1>1, <1>2, <1>3

\* A call that narrows the interval, and what it does to it.
Narrows(c) ==
  /\ calls' = Append(calls, c) /\ c \in CallTypes /\ Sound(c)
  /\ c.range = range /\ c.low = Low /\ c.scale = 1
  /\ range' = Kept(c) /\ Low' = Low + Skipped(c)
  /\ ceiling' = IF c.op = "end" /\ Exactly THEN ceiling
                ELSE IF c.op # "end" /\ c.bit = 1 THEN LowerOf(ceiling, Split(c))
                ELSE ceiling - Skipped(c)

LEMMA NarrowingCall ==
  ASSUME EncoderInv, Inv', Narrowing
  PROVE  /\ \E c : Narrows(c)
         /\ UNCHANGED <<bitCount, dest, flushed, phase, payload>>
         /\ phase = "coding" /\ range >= Threshold
<1> USE DEF EncoderInv
<1>1. PICK sub \in SubRanges :
        \/ PreEncode(sub) /\ ENarrow("pre", 0, sub)
        \/ \E bit \in {0, 1} : Encode(bit, sub) /\ ENarrow("bit", bit, sub)
        \/ /\ EndSection(sub) /\ calls' = Append(calls, Call("end", 0, sub))
           /\ ceiling' = IF Exactly THEN ceiling ELSE ceiling - (range - sub)
  BY DEF Narrowing, Exactly
<1>2. /\ Ready /\ ValidSub(sub) /\ phase = "coding" /\ range >= Threshold
      /\ UNCHANGED <<bitCount, dest, flushed, phase, payload>>
  BY <1>1 DEF PreEncode, Encode, EndSection, Ready
<1>3. sub \in 1 .. (range - 2) /\ range \in Nat /\ value \in Nat /\ Low \in Nat
  BY <1>2, NarrowFits, EncoderFacts
<1>4. range \in Threshold .. (2 * Threshold - 1)
  BY <1>2, Widths DEF Inv, TypeOK
<1>5. sub \in Nat \ {0} /\ sub < range - 1
  BY <1>3
<1>6. ASSUME NEW op \in {"pre", "bit", "end"}, NEW bit \in {0, 1}, op = "pre" => bit = 0
      PROVE  LET c == Call(op, bit, sub)
             IN  /\ c \in CallTypes /\ Sound(c) /\ c.range = range
                 /\ c.low = Low /\ c.scale = 1 /\ c.op = op /\ c.bit = bit /\ c.sub = sub
  <2> DEFINE c == Call(op, bit, sub)
  <2>1. /\ c = [op |-> op, bit |-> bit, sub |-> sub, range |-> range, low |-> Low, scale |-> 1]
    BY DEF Call, Low
  <2> HIDE DEF c
  <2>2. /\ c.range = range /\ c.low = Low /\ c.scale = 1 /\ c.op = op /\ c.bit = bit
        /\ c.sub = sub
    BY <2>1
  <2>3. c \in CallTypes
    BY <1>3, <1>4, <1>5, <2>1, OneIsPower DEF CallTypes
  <2>4. Sound(c)
    BY <1>5, <1>6, <2>2 DEF Sound
  <2>5. QED
    BY <2>2, <2>3, <2>4 DEF c
<1>7. ASSUME NEW op \in {"pre", "bit"}, NEW bit \in {0, 1}, op = "pre" => bit = 0, Narrow(bit, sub),
             ENarrow(op, bit, sub)
      PROVE  \E c : Narrows(c)
  <2> DEFINE c == Call(op, bit, sub)
  <2>1. /\ c \in CallTypes /\ Sound(c) /\ c.range = range
        /\ c.low = Low /\ c.scale = 1 /\ c.op # "end" /\ c.bit = bit /\ c.sub = sub
    BY <1>6, <1>7
  <2> HIDE DEF c
  <2>2. Kept(c) = IF bit = 1 THEN range - sub ELSE sub
    BY <2>1 DEF Kept, Split
  <2>3. Skipped(c) = IF bit = 1 THEN 0 ELSE range - sub + Skip
    BY <2>1 DEF Skipped, Split
  <2>4. /\ range' = IF bit = 1 THEN range - sub ELSE sub
        /\ value' = IF bit = 1 THEN value ELSE value + (range - sub) + Skip
    BY <1>2, <1>7, NarrowExact
  <2>5. value' = value + Skipped(c) /\ Skipped(c) \in Int
    BY <1>3, <2>3, <2>4 DEF Skip
  <2>6. Low' = Low + Skipped(c)
    BY <1>2, <2>5, LowMoves
  <2>7. calls' = Append(calls, c)
    BY <1>7 DEF c, ENarrow
  <2>8. ceiling' = IF c.bit = 1 THEN LowerOf(ceiling, Split(c)) ELSE ceiling - Skipped(c)
    BY <1>7, <2>1, <2>3 DEF ENarrow, CeilingAfter, Split
  <2>9. Narrows(c)
    BY <2>1, <2>2, <2>4, <2>6, <2>7, <2>8 DEF Narrows
  <2>10. QED
    BY <2>9
<1>8. \E c : Narrows(c)
  <2>1. CASE PreEncode(sub) /\ ENarrow("pre", 0, sub)
    BY <1>7, <2>1 DEF PreEncode
  <2>2. CASE \E bit \in {0, 1} : Encode(bit, sub) /\ ENarrow("bit", bit, sub)
    BY <1>7, <2>2 DEF Encode
  <2>3. CASE /\ EndSection(sub) /\ calls' = Append(calls, Call("end", 0, sub))
             /\ ceiling' = IF Exactly THEN ceiling ELSE ceiling - (range - sub)
    <3> DEFINE c == Call("end", 0, sub)
    <3>1. /\ c \in CallTypes /\ Sound(c) /\ c.range = range
          /\ c.low = Low /\ c.scale = 1 /\ c.op = "end"
      BY <1>6
    <3>2. calls' = Append(calls, c)
      BY <2>3
    <3> HIDE DEF c
    <3>3. /\ Kept(c) = IF Exactly THEN range ELSE 1
          /\ Skipped(c) = IF Exactly THEN 0 ELSE range - sub
      BY <1>6, <3>1 DEF Kept, Skipped, Split, c
    <3>4. /\ range' = IF Exactly THEN range ELSE 1
          /\ value' = value + Skipped(c) /\ Skipped(c) \in Int
      <4>1. CASE Exactly
        BY <1>3, <2>3, <3>3, <4>1 DEF EndSection, Exactly
      <4>2. CASE ~Exactly
        <5>1. range' = 1 /\ value' = (value + (range - sub)) % Word
          BY <2>3, <4>2 DEF EndSection, Exactly
        <5>2. (value + (range - sub)) % Word = value + (range - sub)
          BY <1>2, NarrowFits, FitsWord
        <5>3. QED
          BY <1>3, <3>3, <4>2, <5>1, <5>2
      <4>3. QED
        BY <4>1, <4>2
    <3>6. Low' = Low + Skipped(c)
      BY <1>2, <3>4, LowMoves
    <3>7. Narrows(c)
      BY <2>3, <3>1, <3>2, <3>3, <3>4, <3>6 DEF Narrows
    <3>8. QED
      BY <3>7
  <2>4. QED
    BY <1>1, <2>1, <2>2, <2>3
<1>9. QED
  BY <1>2, <1>8

\* A new interval lies in the present one, and so in all the others.
LEMMA NarrowingInv ==
  ASSUME EncoderInv, Inv', Draining', Narrowing, marks' = marks
  PROVE  EncoderInv'
<1> USE DEF EncoderInv
<1>1. PICK c : Narrows(c)
  BY NarrowingCall
<1>2. /\ UNCHANGED <<bitCount, dest, flushed, phase, payload>>
      /\ phase = "coding" /\ range >= Threshold
  BY NarrowingCall
<1>3. /\ calls \in Seq(CallTypes) /\ Len(calls) \in Nat /\ DOMAIN calls = 1 .. Len(calls)
      /\ \A k \in DOMAIN calls : Sound(calls[k])
  BY DEF Types
<1>4. /\ calls' \in Seq(CallTypes) /\ Len(calls') = Len(calls) + 1
      /\ DOMAIN calls' = 1 .. Len(calls) + 1
      /\ \A k \in 1 .. Len(calls) : calls'[k] = calls[k]
      /\ calls'[Len(calls) + 1] = c
  BY <1>1, <1>3 DEF Narrows
<1>5. Sound(c) /\ c.range = range /\ c.low = Low /\ c.scale = 1
      /\ range' = Kept(c) /\ Low' = Low + Skipped(c)
  BY <1>1 DEF Narrows
<1>6. Types'
  <2>1. \A k \in 1 .. Len(calls) + 1 : k \in 1 .. Len(calls) \/ k = Len(calls) + 1
    BY <1>3
  <2>2. \A k \in DOMAIN calls' : Sound(calls'[k])
    BY <1>3, <1>4, <1>5, <2>1
  <2>3. QED
    BY <1>4, <2>2 DEF Types, Sound
<1>7. Low \in Nat /\ range \in Nat /\ Kept(c) \in Nat /\ Skipped(c) \in Nat
      /\ Kept(c) <= range /\ (Exactly => Kept(c) + Skipped(c) <= range)
  <2>1. Low \in Nat /\ range \in Nat
    BY EncoderFacts
  <2>2. c.sub \in Nat \ {0} /\ c \in CallTypes
    BY <1>1 DEF Narrows, CallTypes
  <2>3. c.sub \in 1 .. (range - 2)
    BY <1>5, <2>1, <2>2 DEF Sound
  <2>4. QED
    BY <1>5, <2>1, <2>3 DEF Kept, Skipped, Split, Skip, Exactly
<1>8. \A k \in 0 .. Len(calls) : LowAfter(k)' = LowAfter(k) /\ WidthAfter(k)' = WidthAfter(k)
  <2> SUFFICES ASSUME NEW k \in 0 .. Len(calls)
               PROVE  LowAfter(k)' = LowAfter(k) /\ WidthAfter(k)' = WidthAfter(k)
    OBVIOUS
  <2>1. k = 0 \/ k \in 1 .. Len(calls)
    BY <1>3
  <2>2. QED
    BY <1>4, <2>1 DEF LowAfter, WidthAfter
<1>9. PICK n \in Nat : n = Len(calls)
  BY <1>3
<1>10. Len(calls)' = n + 1 /\ n + 1 # 0 /\ Len(calls) = n /\ n \in 0 .. Len(calls)
  BY <1>4, <1>9
<1>11. LowAfter(n + 1)' = Low' /\ WidthAfter(n + 1)' = range'
  <2>1. Skipped(c) * 1 = Skipped(c) /\ Kept(c) * 1 = Kept(c)
    BY <1>7
  <2>2. calls'[n + 1] = c
    BY <1>4, <1>10
  <2>3. QED
    BY <1>5, <1>10, <2>1, <2>2 DEF LowAfter, WidthAfter
<1>12. LowAfter(n) = Low /\ WidthAfter(n) = range
  BY <1>2, <1>10 DEF Latest
<1>13. Chain'
  <2> SUFFICES ASSUME NEW k \in 1 .. n + 1
               PROVE  calls'[k].low = LowAfter(k - 1)' /\ Width(calls'[k]) = WidthAfter(k - 1)'
    BY <1>4, <1>10 DEF Chain
  <2>1. CASE k \in 1 .. n
    <3>1. k \in DOMAIN calls /\ k - 1 \in 0 .. Len(calls)
      BY <1>3, <1>10, <2>1
    <3>2. calls[k].low = LowAfter(k - 1) /\ Width(calls[k]) = WidthAfter(k - 1)
      BY <3>1 DEF Chain
    <3>3. calls'[k] = calls[k]
      BY <1>4, <1>10, <2>1
    <3>4. QED
      BY <1>8, <3>1, <3>2, <3>3
  <2>2. CASE k = n + 1
    <3>1. calls'[k] = c /\ k - 1 = n
      BY <1>4, <1>10, <2>2
    <3>2. LowAfter(n)' = LowAfter(n) /\ WidthAfter(n)' = WidthAfter(n)
      BY <1>8, <1>10
    <3>3. Width(c) = range
      BY <1>5, <1>7 DEF Width
    <3>4. QED
      BY <1>5, <1>12, <3>1, <3>2, <3>3
  <2>3. QED
    BY <2>1, <2>2
<1>14. Latest'
  BY <1>10, <1>11 DEF Latest
<1>15. Nested'
  <2> SUFFICES ASSUME NEW k \in 0 .. n + 1
               PROVE  /\ LowAfter(k)' <= Low' /\ range' <= WidthAfter(k)'
                      /\ Exactly => Low' + range' <= LowAfter(k)' + WidthAfter(k)'
    BY <1>10 DEF Nested, Exactly
  <2>2. CASE k \in 0 .. n
    <3>1. LowAfter(k)' = LowAfter(k) /\ WidthAfter(k)' = WidthAfter(k) /\ k \in 0 .. Len(calls)
      BY <1>8, <1>10, <2>2
    <3>2. /\ LowAfter(k) <= Low /\ range <= WidthAfter(k)
          /\ Exactly => Low + range <= LowAfter(k) + WidthAfter(k)
      BY <3>1 DEF Nested
    <3>3. LowAfter(k) \in Nat /\ WidthAfter(k) \in Nat
      BY <3>1, AfterFacts
    <3>4. /\ LowAfter(k) <= Low + Skipped(c) /\ Kept(c) <= WidthAfter(k)
          /\ Exactly => (Low + Skipped(c)) + Kept(c) <= LowAfter(k) + WidthAfter(k)
      BY <1>7, <3>2, <3>3
    <3>5. QED
      BY <1>5, <3>1, <3>4
  <2>3. CASE k = n + 1
    <3>1. LowAfter(k)' = Low + Skipped(c) /\ WidthAfter(k)' = Kept(c)
      BY <1>5, <1>11, <2>3
    <3>2. /\ Low + Skipped(c) <= Low + Skipped(c) /\ Kept(c) <= Kept(c)
          /\ (Low + Skipped(c)) + Kept(c) <= (Low + Skipped(c)) + Kept(c)
      BY <1>7
    <3>3. QED
      BY <1>5, <3>1, <3>2
  <2>4. QED
    BY <2>2, <2>3
<1>16. Drained'
  BY <1>2 DEF Drained
<1>17. Ends' /\ Sent' /\ Begun'
  <2>1. dest' \in Seq({0, 1}) /\ Len(dest) <= Len(dest')
    BY <1>2 DEF Inv, TypeOK
  <2>2. QED
    BY <1>2, <2>1, SameStream
<1>18. QED
  BY <1>6, <1>13, <1>14, <1>15, <1>16, <1>17

\* An interval may shrink from above; nothing noted changes.
LEMMA SameIntervals ==
  ASSUME EncoderInv, UNCHANGED <<calls, marks, payload, value>>,
         range' \in Nat, range' <= range, phase' = "coding" => phase = "coding" /\ range' = range
  PROVE  Types' /\ Chain' /\ Latest' /\ Nested'
<1> USE DEF EncoderInv
<1>1. Low' = Low
  BY DEF Low, Carry
<1>2. \A k \in 0 .. Len(calls) : LowAfter(k)' = LowAfter(k) /\ WidthAfter(k)' = WidthAfter(k)
  BY DEF LowAfter, WidthAfter
<1>3. Types'
  BY DEF Types
<1>4. Chain'
  <2>1. \A k \in DOMAIN calls : LowAfter(k - 1)' = LowAfter(k - 1) /\ WidthAfter(k - 1)' = WidthAfter(k - 1)
    BY DEF LowAfter, WidthAfter
  <2>2. QED
    BY <2>1 DEF Chain
<1>5. Latest'
  <2>1. LowAfter(Len(calls))' = LowAfter(Len(calls)) /\ WidthAfter(Len(calls))' = WidthAfter(Len(calls))
    BY DEF LowAfter, WidthAfter
  <2>2. QED
    BY <1>1, <2>1 DEF Latest
<1>6. Nested'
  <2> SUFFICES ASSUME NEW k \in 0 .. Len(calls)
               PROVE  /\ LowAfter(k)' <= Low' /\ range' <= WidthAfter(k)'
                      /\ Exactly => Low' + range' <= LowAfter(k)' + WidthAfter(k)'
    BY DEF Nested, Exactly
  <2>1. /\ LowAfter(k) <= Low /\ range <= WidthAfter(k)
        /\ Exactly => Low + range <= LowAfter(k) + WidthAfter(k)
    BY DEF Nested
  <2>2. LowAfter(k) \in Nat /\ WidthAfter(k) \in Nat /\ Low \in Nat /\ range \in Nat
    BY AfterFacts, EncoderFacts
  <2>3. /\ LowAfter(k) <= Low /\ range' <= WidthAfter(k)
        /\ Exactly => Low + range' <= LowAfter(k) + WidthAfter(k)
    BY <2>1, <2>2
  <2>4. QED
    BY <1>1, <1>2, <2>3
<1>7. QED
  BY <1>3, <1>4, <1>5, <1>6

\* The whole of an interval that holds the present one is at least as wide.
LEMMA WidthsHold ==
  ASSUME EncoderInv, NEW k \in 0 .. Len(calls)
  PROVE  WidthAfter(k) \in Nat /\ WidthAfter(k) >= range
<1>1. range <= WidthAfter(k)
  BY DEF EncoderInv, Nested
<1>2. WidthAfter(k) \in Nat /\ range \in Nat
  BY AfterFacts, EncoderFacts DEF EncoderInv
<1>3. QED
  BY <1>1, <1>2

\* Finalize begins with intervals no narrower than the threshold.
LEMMA FinalizeDrains ==
  ASSUME EncoderInv, FinalizeStart \/ FinalizeStep \/ FinalizeEnd, calls' = calls, marks' = marks
  PROVE  Drained'
<1> USE DEF EncoderInv
<1>1. /\ range >= Threshold /\ (phase = "coding" => Drains' = 0) /\ (phase # "coding" => Drains' = Drains)
      /\ range \in Nat /\ Threshold \in Nat /\ Carry \in Nat /\ Unit[0] = Carry
  BY DrainingCalls, EncoderFacts DEF Carry
<1>2. ASSUME NEW k \in 0 .. Len(calls) PROVE WidthAfter(k) * Unit[Drains'] >= Threshold * Carry
  <2>1. CASE phase = "coding"
    <3>1. WidthAfter(k) \in Nat /\ Threshold <= WidthAfter(k)
      BY <1>1, WidthsHold
    <3>2. Threshold * Carry <= WidthAfter(k) * Carry
      BY <1>1, <3>1, ProductGrows
    <3>3. Threshold * Carry \in Nat /\ WidthAfter(k) * Carry \in Nat
      <4>1. \A a, b \in Nat : a * b \in Nat
        OBVIOUS
      <4>2. QED
        BY <1>1, <3>1, <4>1
    <3>4. QED
      BY <1>1, <2>1, <3>2, <3>3
  <2>2. CASE phase # "coding"
    <3>1. phase = "flushing"
      BY <2>2 DEF FinalizeStart, FinalizeStep, FinalizeEnd, Ready
    <3>2. QED
      BY <1>1, <2>2, <3>1 DEF Drained
  <2>3. QED
    BY <2>1, <2>2
<1>3. \A k \in 0 .. Len(calls)' : WidthAfter(k)' * Unit[Drains]' >= (Threshold * Carry)'
  BY <1>2 DEF WidthAfter, Carry
<1>4. \E r \in Threshold .. (2 * Threshold - 1) : WidthAfter(Len(calls)) * Unit[Drains'] = r * Carry
  <2>1. CASE phase = "coding"
    <3>1. WidthAfter(Len(calls)) = range
      BY <2>1 DEF Latest
    <3>2. range \in Threshold .. (2 * Threshold - 1)
      BY <1>1, RegisterFits
    <3>3. QED
      BY <1>1, <2>1, <3>1, <3>2
  <2>2. CASE phase # "coding"
    <3>1. phase = "flushing"
      BY <2>2 DEF FinalizeStart, FinalizeStep, FinalizeEnd, Ready
    <3>2. QED
      BY <1>1, <2>2, <3>1 DEF Drained
  <2>3. QED
    BY <2>1, <2>2
<1>5. \E r \in Threshold .. (2 * Threshold - 1) :
        WidthAfter(Len(calls))' * Unit[Drains]' = r * Carry'
  BY <1>4 DEF WidthAfter, Carry
<1>6. QED
  BY <1>3, <1>5 DEF Drained

\* The steps that note nothing.
LEMMA PlainInv ==
  ASSUME EncoderInv, Inv', Draining', Plain, UNCHANGED <<calls, marks>>
  PROVE  EncoderInv'
<1> USE DEF EncoderInv
<1>1. dest \in Seq({0, 1}) /\ dest' \in Seq({0, 1}) /\ range \in Nat
  BY EncoderFacts DEF Inv, TypeOK
<1>2. ASSUME range' \in Nat, range' <= range,
             phase' = "coding" => phase = "coding" /\ range' = range,
             Drained', UNCHANGED <<payload, value, bitCount, dest>>, phase # "overflow"
      PROVE  EncoderInv'
  <2>1. Len(dest) <= Len(dest') /\ \A i \in 1 .. Len(dest) : dest'[i] = dest[i]
    BY <1>1, <1>2
  <2>2. Ends' /\ Sent' /\ Begun'
    BY <1>1, <1>2, <2>1, SameStream
  <2>3. QED
    BY <1>2, <2>2, SameIntervals
<1>3. CASE Overflow
  <2>1. /\ UNCHANGED <<range, payload, value, bitCount>> /\ phase' = "overflow"
        /\ dest' = dest \o Framing(dest)
    BY <1>3 DEF Overflow
  <2>2. Framing(dest) \in Seq({0, 1}) /\ Len(Framing(dest)) \in Nat
    BY <1>1, FramingPlaces, FramingShort
  <2>3. Len(dest) <= Len(dest') /\ \A i \in 1 .. Len(dest) : dest'[i] = dest[i]
    BY <1>1, <2>1, <2>2
  <2>4. Ends' /\ Sent' /\ Begun'
    BY <1>1, <2>1, <2>3, SameStream
  <2>5. Drained'
    BY <2>1 DEF Drained
  <2>6. range' \in Nat /\ range' <= range
    BY <1>1, <2>1
  <2>7. QED
    BY <2>1, <2>4, <2>5, <2>6, SameIntervals
<1>4. CASE \E sub \in SubRanges : ProbabilityError(sub)
  <2>1. /\ UNCHANGED <<range, payload, value, bitCount, dest>> /\ phase' = "probability"
        /\ phase = "coding"
    BY <1>4 DEF ProbabilityError, Ready
  <2>2. Drained' /\ range' \in Nat /\ range' <= range
    BY <1>1, <2>1 DEF Drained
  <2>3. QED
    BY <1>2, <2>1, <2>2
<1>5. CASE PreEncodeNothing
  <2>1. /\ UNCHANGED <<range, payload, value, bitCount, dest, phase, flushed>>
        /\ phase = "coding"
    BY <1>5 DEF PreEncodeNothing, Ready
  <2>2. Drained' /\ range' \in Nat /\ range' <= range
    BY <1>1, <2>1 DEF Drained
  <2>3. QED
    BY <1>2, <2>1, <2>2
<1>6. CASE FinalizeStart \/ FinalizeStep \/ FinalizeEnd
  <2>1. /\ UNCHANGED <<payload, value, bitCount, dest>>
        /\ phase' \in {"flushing", "done"} /\ phase # "overflow"
    BY <1>6 DEF FinalizeStart, FinalizeStep, FinalizeEnd, Ready
  <2>2. Drained' /\ range' \in Nat /\ range' <= range
    BY <1>6, FinalizeDrains, DrainingCalls
  <2>3. QED
    BY <1>2, <2>1, <2>2
<1>7. QED
  BY <1>3, <1>4, <1>5, <1>6 DEF Plain

LEMMA EncoderStepInv ==
  ASSUME EncoderInv, EncoderStep
  PROVE  EncoderInv' /\ phase # "done"
<1> USE DEF EncoderInv
<1>1. [ENext]_evars /\ phase # "done"
  BY DEF EncoderStep, Narrowing, Plain, ENext, Shift, SendBit, Overflow, Looping, PreEncode,
         Encode, EndSection, ProbabilityError, PreEncodeNothing, Ready, FinalizeStart,
         FinalizeStep, FinalizeEnd
<1>2. Inv' /\ Draining'
  BY <1>1, NextInv, DrainingNext
<1>3. CASE Shift /\ Doubling /\ marks' = Marked
  BY <1>1, <1>2, <1>3, DoublingIntervals, ShiftMarks
<1>4. CASE SendBit /\ Doubling /\ marks' = Append(Marked, Mark)
  BY <1>1, <1>2, <1>4, DoublingIntervals, SendMarks
<1>5. CASE Narrowing /\ marks' = marks
  BY <1>1, <1>2, <1>5, NarrowingInv
<1>6. CASE Plain /\ UNCHANGED <<calls, marks, ceiling>>
  BY <1>1, <1>2, <1>6, PlainInv
<1>7. QED
  BY <1>1, <1>3, <1>4, <1>5, <1>6 DEF EncoderStep

LEMMA EncoderKept ==
  ASSUME EncoderInv, UNCHANGED <<evars, calls, marks>>
  PROVE  EncoderInv'
<1> USE DEF EncoderInv
<1>1. /\ UNCHANGED <<range, value, bitCount, dest, flushed, phase, payload, calls, marks>>
      /\ Inv' /\ Draining'
  BY DEF evars, Inv, TypeOK, RegisterBound, WarmUpSilent, Draining, Drains, Carry
<1>2. range' \in Nat /\ range' <= range /\ dest' \in Seq({0, 1}) /\ Len(dest) <= Len(dest')
  BY <1>1, EncoderFacts
<1>3. Types' /\ Chain' /\ Latest' /\ Nested'
  BY <1>1, <1>2, SameIntervals
<1>4. Ends' /\ Sent' /\ Begun'
  <2>1. Ends'
    BY <1>1 DEF Ends, LastMark
  <2>2. Sent'
    BY <1>1 DEF Sent, Follows
  <2>3. Begun'
    BY <1>1 DEF Begun, Carry
  <2>4. QED
    BY <2>1, <2>2, <2>3
<1>5. Drained'
  BY <1>1 DEF Drained, Drains, WidthAfter, Carry
<1>6. QED
  BY <1>1, <1>3, <1>4, <1>5

-----------------------------------------------------------------------------
(* The one section and the points given away.                              *)

\* A block is opened only if there was none, and once it is closed nothing
\* is packed any more.
LEMMA OneSectionStep ==
  ASSUME EncoderInv, OneSection, EncoderStep
  PROVE  OneSection'
<1> SUFFICES ASSUME ~Exactly
             PROVE  /\ section' = "open" => blocks' >= 1
                    /\ \A k \in DOMAIN calls' :
                         calls'[k].op = "end" =>
                           k = Len(calls') /\ section' = "closed" /\ blocks' >= 1
  BY DEF OneSection, Exactly
<1>1. /\ section = "open" => blocks >= 1
      /\ \A k \in DOMAIN calls :
           calls[k].op = "end" => k = Len(calls) /\ section = "closed" /\ blocks >= 1
  BY DEF OneSection
<1>2. /\ calls \in Seq(CallTypes) /\ Len(calls) \in Nat /\ DOMAIN calls = 1 .. Len(calls)
      /\ blocks \in Nat
  BY DEF EncoderInv, Types, Inv, TypeOK
<1>3. ASSUME MayOpen PROVE \A k \in DOMAIN calls : calls[k].op # "end"
  BY <1>1, <1>2, <1>3 DEF MayOpen, Exactly
<1>4. ASSUME section = "open" PROVE \A k \in DOMAIN calls : calls[k].op # "end"
  BY <1>1, <1>4
<1>5. CASE (Shift \/ SendBit) /\ Doubling
  <2>1. UNCHANGED <<section, blocks>>
    BY <1>5 DEF Shift, SendBit, callvars
  <2>2. calls' = [k \in DOMAIN calls |-> [calls[k] EXCEPT !.low = 2 * @, !.scale = 2 * @]]
    BY <1>5 DEF Doubling
  <2>3. DOMAIN calls' = 1 .. Len(calls) /\ Len(calls') = Len(calls)
    <3>1. DOMAIN calls' = 1 .. Len(calls)
      BY <1>2, <2>2
    <3>2. calls' \in [1 .. Len(calls) -> {calls'[k] : k \in 1 .. Len(calls)}]
      BY <1>2, <2>2
    <3>3. QED
      BY <1>2, <3>1, <3>2, FunctionIsSequence
  <2>4. \A k \in DOMAIN calls' : calls'[k].op = calls[k].op
    <3> SUFFICES ASSUME NEW k \in 1 .. Len(calls) PROVE calls'[k].op = calls[k].op
      BY <2>3
    <3>1. k \in DOMAIN calls /\ calls[k] \in CallTypes
      BY <1>2
    <3>2. calls'[k] = [calls[k] EXCEPT !.low = 2 * @, !.scale = 2 * @]
      BY <2>2, <3>1
    <3>3. QED
      BY <3>1, <3>2 DEF CallTypes
  <2>5. QED
    BY <1>1, <1>2, <2>1, <2>3, <2>4
<1>6. CASE Narrowing
  <2>1. PICK op \in {"pre", "bit", "end"}, bit \in {0, 1}, sub \in SubRanges :
          /\ calls' = Append(calls, Call(op, bit, sub))
          /\ \/ op = "pre" /\ PreEncode(sub)
             \/ op = "bit" /\ Encode(bit, sub)
             \/ op = "end" /\ EndSection(sub)
    BY <1>6 DEF Narrowing, ENarrow
  <2>2. Call(op, bit, sub).op = op
    BY DEF Call
  <2>3. /\ DOMAIN calls' = 1 .. Len(calls) + 1 /\ Len(calls') = Len(calls) + 1
        /\ \A k \in 1 .. Len(calls) : calls'[k] = calls[k]
        /\ calls'[Len(calls) + 1] = Call(op, bit, sub)
    BY <1>2, <2>1
  <2>4. \A k \in 1 .. Len(calls) + 1 : k \in 1 .. Len(calls) \/ k = Len(calls) + 1
    BY <1>2
  <2>5. \A k \in DOMAIN calls : calls[k].op # "end"
    BY <1>3, <1>4, <2>1 DEF PreEncode, Encode, EndSection
  <2>6. \A k \in DOMAIN calls' : calls'[k].op = "end" => k = Len(calls') /\ op = "end"
    BY <1>2, <2>2, <2>3, <2>4, <2>5
  <2>7. /\ section' = IF op = "end" THEN "closed" ELSE "open"
        /\ blocks' >= 1
    <3>1. CASE op = "pre" /\ PreEncode(sub)
      BY <1>2, <3>1 DEF PreEncode
    <3>2. CASE op = "bit" /\ Encode(bit, sub)
      BY <1>1, <3>2 DEF Encode
    <3>3. CASE op = "end" /\ EndSection(sub)
      BY <1>1, <3>3 DEF EndSection
    <3>4. QED
      BY <2>1, <3>1, <3>2, <3>3
  <2>8. QED
    BY <2>6, <2>7
<1>7. CASE Plain /\ UNCHANGED calls
  <2>1. CASE PreEncodeNothing
    <3>1. MayOpen /\ section' = "open" /\ blocks' = blocks + 1
      BY <2>1 DEF PreEncodeNothing
    <3>2. QED
      BY <1>2, <1>3, <1>7, <3>1
  <2>2. CASE UNCHANGED callvars
    BY <1>1, <1>7, <2>2 DEF callvars
  <2>3. QED
    BY <1>7, <2>1, <2>2 DEF Plain, Overflow, ProbabilityError, FinalizeStart, FinalizeStep,
         FinalizeEnd
<1>8. QED
  BY <1>5, <1>6, <1>7 DEF EncoderStep

\* A one gives the points from the split on away; everything else moves the low
\* end towards the nearest of those given away before.
LEMMA CeilingStep ==
  ASSUME EncoderInv, EncoderInv', CeilingInv, EncoderStep
  PROVE  CeilingInv'
<1>1. /\ ceiling \in Int /\ Low \in Nat /\ Len(calls) \in Nat
      /\ calls \in Seq(CallTypes)
  BY EncoderFacts DEF CeilingInv, EncoderInv, Types
<1>2. /\ \A k \in 0 .. Len(calls) : Bounded(k) => Low + ceiling <= Bound(k)
      /\ \E k \in 0 .. Len(calls) : Bounded(k) /\ Low + ceiling = Bound(k)
  BY DEF CeilingInv
<1>3. \A k \in 0 .. Len(calls) : Bound(k) \in Nat
  BY AfterFacts DEF EncoderInv, Bound
<1>4. CASE (Shift \/ SendBit) /\ Doubling /\ (marks' = Marked \/ marks' = Append(Marked, Mark))
  <2>1. Low' = 2 * Low
    BY <1>4, LowDoubles DEF EncoderInv
  <2>2. dest' \in Seq({0, 1}) /\ payload' \in Nat
    BY DEF EncoderInv, Inv, TypeOK
  <2>3. /\ Len(calls') = Len(calls)
        /\ \A k \in 1 .. Len(calls) : calls'[k].op = calls[k].op /\ calls'[k].bit = calls[k].bit
        /\ \A k \in 0 .. Len(calls) :
             LowAfter(k)' = 2 * LowAfter(k) /\ WidthAfter(k)' = 2 * WidthAfter(k)
    BY <1>4, <2>2, DoublingScales DEF EncoderInv
  <2>4. \A k \in 0 .. Len(calls) : Bound(k)' = 2 * Bound(k)
    <3> SUFFICES ASSUME NEW k \in 0 .. Len(calls) PROVE Bound(k)' = 2 * Bound(k)
      OBVIOUS
    <3>1. LowAfter(k) \in Nat /\ WidthAfter(k) \in Nat
      BY AfterFacts DEF EncoderInv
    <3>2. QED
      BY <2>3, <3>1 DEF Bound
  <2>5. \A k \in 0 .. Len(calls) : Bounded(k)' <=> Bounded(k)
    <3> SUFFICES ASSUME NEW k \in 0 .. Len(calls) PROVE Bounded(k)' <=> Bounded(k)
      OBVIOUS
    <3>1. k = 0 \/ k \in 1 .. Len(calls)
      BY <1>1
    <3>2. QED
      BY <2>3, <3>1 DEF Bounded
  <2>6. ceiling' = 2 * ceiling
    BY <1>4 DEF Doubling
  <2>7. \A k \in 0 .. Len(calls) : Bounded(k)' => Low' + ceiling' <= Bound(k)'
    <3> SUFFICES ASSUME NEW k \in 0 .. Len(calls), Bounded(k) PROVE Low' + ceiling' <= Bound(k)'
      BY <2>5
    <3>1. Low + ceiling <= Bound(k) /\ Bound(k) \in Nat /\ Bound(k)' = 2 * Bound(k)
      BY <1>2, <1>3, <2>4
    <3>2. QED
      BY <1>1, <2>1, <2>6, <3>1
  <2>8. \E k \in 0 .. Len(calls) : Bounded(k)' /\ Low' + ceiling' = Bound(k)'
    <3>1. PICK k \in 0 .. Len(calls) : Bounded(k) /\ Low + ceiling = Bound(k)
      BY <1>2
    <3>2. Bounded(k)' /\ Bound(k)' = 2 * Bound(k) /\ Bound(k) \in Nat
      BY <1>3, <2>4, <2>5, <3>1
    <3>3. Low' + ceiling' = Bound(k)'
      BY <1>1, <2>1, <2>6, <3>1, <3>2
    <3>4. QED
      BY <3>2, <3>3
  <2>9. QED
    BY <1>1, <2>3, <2>6, <2>7, <2>8 DEF CeilingInv
<1>5. CASE Narrowing /\ marks' = marks
  <2>1. PICK c : Narrows(c)
    BY <1>5, NarrowingCall DEF EncoderInv
  <2>2. PICK n \in Nat : n = Len(calls)
    BY <1>1
  <2>3. /\ Len(calls') = n + 1 /\ calls'[n + 1] = c
        /\ \A k \in 1 .. n : calls'[k] = calls[k]
    BY <1>1, <2>1, <2>2 DEF Narrows
  <2>4. \A k \in 0 .. n : (Bounded(k)' <=> Bounded(k)) /\ Bound(k)' = Bound(k)
    <3> SUFFICES ASSUME NEW k \in 0 .. n PROVE (Bounded(k)' <=> Bounded(k)) /\ Bound(k)' = Bound(k)
      OBVIOUS
    <3>1. k = 0 \/ k \in 1 .. n
      OBVIOUS
    <3>2. QED
      BY <1>5, <2>3, <3>1 DEF Bounded, Bound, LowAfter, WidthAfter
  <2>5. Low' = Low + Skipped(c) /\ Skipped(c) \in Nat /\ Split(c) \in Nat
    <3>1. /\ c.sub \in Nat \ {0} /\ c.sub < c.range - 1 /\ c.range = range
          /\ Low' = Low + Skipped(c) /\ range \in Nat
      BY <2>1, EncoderFacts DEF Narrows, CallTypes, Sound, EncoderInv
    <3>2. Split(c) \in Nat /\ Split(c) + 1 \in Nat /\ Split(c) + 0 = Split(c)
      BY <3>1 DEF Split
    <3>3. Skipped(c) \in {0, Split(c), Split(c) + 1}
      BY <3>2 DEF Skipped, Skip
    <3>4. QED
      BY <3>1, <3>2, <3>3
  <2>6. \A k \in 0 .. n + 1 : k \in 0 .. n \/ k = n + 1
    OBVIOUS
  <2>7. \A k \in 0 .. n : Bound(k)' \in Nat /\ (Bounded(k)' => Low + ceiling <= Bound(k)')
    BY <1>2, <1>3, <2>2, <2>4
  <2>8. PICK m \in 0 .. n : Bounded(m)' /\ Low + ceiling = Bound(m)'
    BY <1>2, <2>2, <2>4
  <2>9. CASE c.op # "end" /\ c.bit = 1
    <3>1. Low' = Low /\ ceiling' = LowerOf(ceiling, Split(c))
      <4>1. Skipped(c) = 0
        BY <2>9 DEF Skipped
      <4>2. QED
        BY <1>1, <2>1, <2>5, <2>9, <4>1 DEF Narrows
    <3>2. Bounded(n + 1)' /\ Bound(n + 1)' = Low + Split(c)
      <4>1. c.low = Low /\ c.scale = 1 /\ Skipped(c) = 0 /\ Kept(c) = Split(c) /\ n + 1 # 0
        BY <2>1, <2>9 DEF Narrows, Skipped, Kept
      <4>2. Split(c) * 1 = Split(c) /\ 0 * 1 = 0 /\ Low + 0 = Low
        BY <1>1, <2>5
      <4>3. LowAfter(n + 1)' = Low /\ WidthAfter(n + 1)' = Split(c)
        BY <2>3, <4>1, <4>2 DEF LowAfter, WidthAfter
      <4>4. QED
        BY <2>3, <2>9, <4>1, <4>3 DEF Bounded, Bound
    <3>3. /\ ceiling' \in Int /\ ceiling' <= ceiling /\ ceiling' <= Split(c)
          /\ ceiling' = ceiling \/ ceiling' = Split(c)
      BY <1>1, <2>5, <3>1 DEF LowerOf
    <3>4. ASSUME NEW k \in 0 .. n + 1, Bounded(k)' PROVE Low' + ceiling' <= Bound(k)'
      <4>1. CASE k = n + 1
        BY <1>1, <2>5, <3>1, <3>2, <3>3, <4>1
      <4>2. CASE k \in 0 .. n
        <5>1. Bound(k)' \in Nat /\ Low + ceiling <= Bound(k)'
          BY <2>7, <3>4, <4>2
        <5>2. QED
          BY <1>1, <3>1, <3>3, <5>1
      <4>3. QED
        BY <2>6, <4>1, <4>2
    <3>5. \E k \in 0 .. n + 1 : Bounded(k)' /\ Low' + ceiling' = Bound(k)'
      <4>1. n + 1 \in 0 .. n + 1 /\ m \in 0 .. n + 1
        OBVIOUS
      <4>2. QED
        BY <2>8, <3>1, <3>2, <3>3, <4>1
    <3>6. QED
      BY <2>3, <3>3, <3>4, <3>5 DEF CeilingInv
  <2>10. CASE ~(c.op # "end" /\ c.bit = 1)
    <3>1. ~Bounded(n + 1)'
      <4>1. n + 1 # 0
        OBVIOUS
      <4>2. QED
        BY <2>3, <2>10, <4>1 DEF Bounded
    <3>2. ceiling' \in Int /\ Low' + ceiling' = Low + ceiling
      <4>1. ceiling' = ceiling - Skipped(c)
        <5>1. CASE c.op = "end" /\ Exactly
          <6>1. Skipped(c) = 0 /\ ceiling' = ceiling
            BY <2>1, <5>1 DEF Narrows, Skipped
          <6>2. QED
            BY <1>1, <6>1
        <5>2. CASE ~(c.op = "end" /\ Exactly)
          BY <2>1, <2>10, <5>2 DEF Narrows
        <5>3. QED
          BY <5>1, <5>2
      <4>2. QED
        BY <1>1, <2>5, <4>1
    <3>3. ASSUME NEW k \in 0 .. n + 1, Bounded(k)' PROVE Low' + ceiling' <= Bound(k)'
      BY <2>6, <2>7, <3>1, <3>2, <3>3
    <3>4. m \in 0 .. n + 1 /\ Low' + ceiling' = Bound(m)'
      BY <2>8, <3>2
    <3>5. QED
      BY <2>3, <2>8, <3>2, <3>3, <3>4 DEF CeilingInv
  <2>11. QED
    BY <2>9, <2>10
<1>6. CASE Plain /\ UNCHANGED <<calls, marks, ceiling>>
  <2>1. UNCHANGED <<payload, value>>
    BY <1>6 DEF Plain, Overflow, ProbabilityError, PreEncodeNothing, FinalizeStart, FinalizeStep,
         FinalizeEnd
  <2>2. Low' = Low
    BY <2>1 DEF Low, Carry
  <2>3. QED
    BY <1>6, <2>2 DEF CeilingInv, Bounded, Bound, LowAfter, WidthAfter
<1>7. QED
  BY <1>4, <1>5, <1>6 DEF EncoderStep

-----------------------------------------------------------------------------
(* The decoder.                                                            *)

\* When Finalize is over, the number sent up to a mark says between which two
\* multiples of the mark's unit the encoder's low end lies.
LEMMA AtTheEnd ==
  ASSUME EncoderInv, phase = "done"
  PROVE  /\ bitCount = 0
         /\ \A k \in 0 .. Len(calls) : WidthAfter(k) >= Threshold * Carry
         /\ \E r \in Threshold .. (2 * Threshold - 1) : WidthAfter(Len(calls)) = r * Carry
         /\ \A j \in DOMAIN marks :
              /\ marks[j].unit >= Carry
              /\ marks[j].number * marks[j].unit <= Low
              /\ Low < (marks[j].number + 1) * marks[j].unit
<1> USE DEF EncoderInv
<1>1. Drains = FlushBits /\ bitCount = 0 /\ value < Carry
  BY DrainingEnds
<1>2. bitCount = 0 /\ value < Carry
  BY <1>1
<1>3. \A k \in 0 .. Len(calls) : WidthAfter(k) >= Threshold * Carry
  <2> SUFFICES ASSUME NEW k \in 0 .. Len(calls) PROVE WidthAfter(k) >= Threshold * Carry
    OBVIOUS
  <2>1. WidthAfter(k) * Unit[FlushBits] >= Threshold * Carry
    BY <1>1 DEF Drained
  <2>2. WidthAfter(k) \in Nat /\ Unit[FlushBits] = 1
    BY AfterFacts, Widths
  <2>3. WidthAfter(k) * 1 = WidthAfter(k)
    BY <2>2
  <2>4. QED
    BY <2>1, <2>2, <2>3
<1>4. \E r \in Threshold .. (2 * Threshold - 1) : WidthAfter(Len(calls)) = r * Carry
  <2>1. PICK r \in Threshold .. (2 * Threshold - 1) :
          WidthAfter(Len(calls)) * Unit[FlushBits] = r * Carry
    BY <1>1 DEF Drained
  <2>2. WidthAfter(Len(calls)) \in Nat /\ Unit[FlushBits] = 1
    <3>1. Len(calls) \in 0 .. Len(calls)
      BY DEF Types
    <3>2. QED
      BY <3>1, AfterFacts, Widths
  <2>3. WidthAfter(Len(calls)) * 1 = WidthAfter(Len(calls))
    BY <2>2
  <2>4. QED
    BY <2>1, <2>2, <2>3
<1>5. ASSUME NEW j \in DOMAIN marks
      PROVE  /\ marks[j].unit >= Carry
             /\ marks[j].number * marks[j].unit <= Low
             /\ Low < (marks[j].number + 1) * marks[j].unit
  <2>1. /\ marks[j].number * marks[j].unit <= payload * Carry
        /\ payload * Carry + Carry <= (marks[j].number + 1) * marks[j].unit
        /\ marks[j].unit >= Carry
    BY <1>2 DEF Begun, Carry
  <2>2. /\ payload * Carry \in Nat /\ Carry \in Nat /\ value \in Nat
        /\ Low = payload * Carry + value
    BY EncoderFacts DEF Low
  <2>3. marks[j].number * marks[j].unit \in Nat /\ (marks[j].number + 1) * marks[j].unit \in Nat
    <3>1. \A a, b \in Nat : a * b \in Nat /\ (a + 1) * b \in Nat
      OBVIOUS
    <3>2. QED
      BY <3>1, MarkFacts
  <2>4. QED
    BY <1>2, <2>1, <2>2, <2>3
<1>6. QED
  BY <1>2, <1>3, <1>4, <1>5

\* While the range is short of the threshold there is a next mark, for at the
\* last one the range is as wide as it has to be; the bit there leads to it.
LEMMA NextMark ==
  ASSUME EncoderInv, phase = "done", NEW r \in Nat, r < Threshold, NEW v \in Int,
         NEW j \in DOMAIN marks, NEW k \in 0 .. Len(calls), InStep(r, v, j, k)
  PROVE  /\ j + 1 \in DOMAIN marks /\ Follows(dest, marks[j], marks[j + 1])
         /\ marks[j + 1].pos \in 1 .. Len(dest) /\ dest[marks[j + 1].pos] \in {0, 1}
         /\ InStep(2 * r, 2 * v + dest[marks[j + 1].pos], j + 1, k)
<1> USE DEF EncoderInv
<1>1. /\ Threshold \in Nat /\ Carry \in Nat /\ Carry >= 1 /\ dest \in Seq({0, 1})
      /\ DOMAIN marks = 1 .. Len(marks) /\ Len(marks) \in Nat
  BY EncoderFacts, Widths, CarryTop DEF Inv, TypeOK, Types
<1>2. j # Len(marks)
  <2> SUFFICES ASSUME j = Len(marks) PROVE FALSE
    OBVIOUS
  <2>1. marks[j].unit = Carry
    BY AtTheEnd DEF Ends, LastMark, Carry
  <2>2. r * Carry >= Threshold * Carry
    BY <2>1, AtTheEnd DEF InStep
  <2>3. r * Carry < Threshold * Carry
    BY <1>1, ProductStrict
  <2>4. r * Carry \in Nat /\ Threshold * Carry \in Nat
    <3>1. \A a, b \in Nat : a * b \in Nat
      OBVIOUS
    <3>2. QED
      BY <1>1, <3>1
  <2>5. QED
    BY <2>2, <2>3, <2>4
<1>3. j \in 1 .. Len(marks) - 1 /\ j + 1 \in DOMAIN marks
  BY <1>1, <1>2
<1>4. Follows(dest, marks[j], marks[j + 1])
  BY <1>3 DEF Sent
<1> DEFINE m == marks[j]
           n == marks[j + 1]
<1>5. /\ n.pos = m.pos + Len(FramingAt(m.pos)) + 1 /\ n.pos <= Len(dest)
      /\ n.number = 2 * m.number + dest[n.pos] /\ m.unit = 2 * n.unit
  BY <1>4 DEF Follows
<1>6. /\ m.pos \in Nat /\ n.pos \in Nat /\ m.number \in Nat /\ n.number \in Nat
      /\ m.unit \in Nat /\ n.unit \in Nat /\ Len(FramingAt(m.pos)) \in Nat
  BY <1>3, MarkFacts, FramingShort
<1>7. r * m.unit = WidthAfter(k) /\ (m.number - v) * m.unit = LowAfter(k) /\ 0 <= v /\ v < r
  BY DEF InStep
<1> HIDE DEF m, n
<1>8. n.pos \in 1 .. Len(dest) /\ dest[n.pos] \in {0, 1}
  <2>1. Len(dest) \in Nat
    BY <1>1
  <2>2. n.pos \in 1 .. Len(dest)
    BY <1>5, <1>6, <2>1
  <2>3. QED
    BY <1>1, <2>2
<1>9. (2 * r) * n.unit = WidthAfter(k)
  <2>1. (2 * r) * n.unit = r * (2 * n.unit)
    BY <1>6
  <2>2. QED
    BY <1>5, <1>7, <2>1
<1>10. (n.number - (2 * v + dest[n.pos])) * n.unit = LowAfter(k)
  <2>1. n.number - (2 * v + dest[n.pos]) = 2 * (m.number - v)
    <3>1. PICK b \in {0, 1} : b = dest[n.pos]
      BY <1>8
    <3>2. n.number = 2 * m.number + b
      BY <1>5, <3>1
    <3>3. QED
      BY <1>6, <3>1, <3>2
  <2>2. \A a \in Int, b \in Nat : (2 * a) * b = a * (2 * b)
    OBVIOUS
  <2>3. m.number - v \in Int
    BY <1>6
  <2>4. (2 * (m.number - v)) * n.unit = (m.number - v) * (2 * n.unit)
    BY <1>6, <2>2, <2>3
  <2>5. QED
    BY <1>5, <1>7, <2>1, <2>4
<1>11. 0 <= 2 * v + dest[n.pos] /\ 2 * v + dest[n.pos] < 2 * r
  <2>1. \A b \in {0, 1} : 0 <= 2 * v + b /\ 2 * v + b < 2 * r
    BY <1>7
  <2>2. QED
    BY <1>8, <2>1
<1>12. QED
  BY <1>3, <1>4, <1>8, <1>9, <1>10, <1>11 DEF InStep, n

LEMMA Cancel ==
  ASSUME NEW a \in Int, NEW b \in Int, NEW u \in Nat, a * u < b * u
  PROVE  a < b
<1> SUFFICES ASSUME b <= a PROVE FALSE
  OBVIOUS
<1>1. PICK d \in Nat : a = b + d
  <2>1. a - b \in Nat /\ a = b + (a - b)
    OBVIOUS
  <2>2. QED
    BY <2>1
<1>2. a * u = b * u + d * u
  BY <1>1
<1>3. d * u \in Nat /\ b * u \in Int /\ a * u \in Int
  OBVIOUS
<1>4. QED
  BY <1>2, <1>3

\* The range of a decoder in step is the one the encoder had at the call that
\* comes next: both are as long as the threshold and their products with powers
\* of two are the same interval.
LEMMA NextCall ==
  ASSUME EncoderInv, NEW r \in Threshold .. (2 * Threshold - 1), NEW v \in Int,
         NEW j \in DOMAIN marks, NEW k \in 0 .. Len(calls), k < Len(calls), InStep(r, v, j, k)
  PROVE  /\ r = calls[k + 1].range /\ marks[j].unit = calls[k + 1].scale
         /\ (marks[j].number - v) * calls[k + 1].scale = calls[k + 1].low
<1> USE DEF EncoderInv
<1>1. k + 1 \in 1 .. Len(calls) /\ (k + 1) - 1 = k
  BY DEF Types
<1>2. Threshold \in Nat /\ Threshold > 0 /\ marks[j].unit \in Powers
  BY Widths, MarkFacts
<1>3. /\ k + 1 \in DOMAIN calls /\ calls[k + 1].scale \in Powers
      /\ calls[k + 1].range \in Threshold .. (2 * Threshold - 1)
  BY <1>1, CallFacts
<1>4. calls[k + 1].low = LowAfter(k) /\ Width(calls[k + 1]) = WidthAfter(k)
  BY <1>1, <1>3 DEF Chain
<1>5. r * marks[j].unit = calls[k + 1].range * calls[k + 1].scale
  BY <1>4 DEF InStep, Width
<1>6. r = calls[k + 1].range /\ marks[j].unit = calls[k + 1].scale
  <2>1. PICK a \in Threshold .. (2 * Threshold - 1), p \in Powers, q \in Powers :
          a = calls[k + 1].range /\ p = marks[j].unit /\ q = calls[k + 1].scale
    BY <1>2, <1>3
  <2>2. r = a /\ p = q
    BY <1>2, <1>5, <2>1, SameMantissa
  <2>3. QED
    BY <2>1, <2>2
<1>7. QED
  BY <1>4, <1>6 DEF InStep

\* A value in step compares with a point of the range as the number sent does
\* with that point of the encoder's interval.
LEMMA ValueCompares ==
  ASSUME EncoderInv, phase = "done", NEW r \in Threshold .. (2 * Threshold - 1), NEW v \in Int,
         NEW j \in DOMAIN marks, NEW k \in 0 .. Len(calls), k < Len(calls), InStep(r, v, j, k),
         NEW x \in Int
  PROVE  x <= v <=> calls[k + 1].low + x * calls[k + 1].scale <= Low
<1> USE DEF EncoderInv
<1> DEFINE u == calls[k + 1].scale
           low == calls[k + 1].low
           n == marks[j].number
<1>1. n \in Nat /\ marks[j].unit = u /\ (n - v) * u = low /\ u \in Nat
  BY MarkFacts, NextCall
<1>2. n * u <= Low /\ Low < (n + 1) * u /\ Low \in Nat
  BY <1>1, AtTheEnd, EncoderFacts
<1> HIDE DEF u, low, n
<1>3. \A y, z \in Int : y * u \in Int /\ (y + z) * u = y * u + z * u
  BY <1>1
<1>4. n \in Int /\ n + 1 \in Int /\ n - v \in Int /\ (n - v) + x \in Int
  BY <1>1
<1>5. ((n - v) + x) * u = low + x * u /\ low \in Int /\ x * u \in Int
  BY <1>1, <1>3, <1>4
<1>6. n * u \in Int /\ (n + 1) * u \in Int
  BY <1>3, <1>4
<1>7. ASSUME x <= v PROVE low + x * u <= Low
  <2>1. ~(n < (n - v) + x)
    BY <1>1, <1>7
  <2>2. ~(n * u < ((n - v) + x) * u)
    BY <1>1, <1>4, <2>1, Cancel
  <2>3. QED
    BY <1>2, <1>5, <1>6, <2>2
<1>8. ASSUME low + x * u <= Low PROVE x <= v
  <2>1. ((n - v) + x) * u < (n + 1) * u
    BY <1>2, <1>5, <1>6, <1>8
  <2>2. (n - v) + x < n + 1
    BY <1>1, <1>4, <2>1, Cancel
  <2>3. QED
    BY <1>1, <2>2
<1>9. QED
  BY <1>7, <1>8 DEF u, low

\* An exact encoder gives nothing away that it needs later.
LEMMA ExactAccepts ==
  ASSUME EncoderInv, Exactly, NEW k \in 0 .. Len(calls)
  PROVE  Accepts(k)
<1>1. Low + range <= LowAfter(k) + WidthAfter(k) /\ Low \in Nat /\ range \in Nat /\ range >= 1
  BY EncoderFacts DEF EncoderInv, Nested
<1>2. LowAfter(k) \in Nat /\ WidthAfter(k) \in Nat
  BY AfterFacts DEF EncoderInv
<1>3. QED
  BY <1>1, <1>2 DEF Accepts, Above, Stuck, Bound

\* What the value says of the call that comes next: which part of the range the
\* encoder went on with, if it did not give away its number after that.
LEMMA SameBit ==
  ASSUME EncoderInv, phase = "done", NEW r \in Threshold .. (2 * Threshold - 1), NEW v \in Int,
         NEW j \in DOMAIN marks, NEW k \in 0 .. Len(calls), k < Len(calls), InStep(r, v, j, k),
         NEW c, c = calls[k + 1]
  PROVE  /\ c.sub \in 1 .. (r - 2) /\ r = c.range /\ Split(c) = r - c.sub
         /\ Skipped(c) <= v
         /\ c.op # "end" /\ c.bit = 1 => (Above(k + 1) <=> Split(c) <= v)
         /\ c.op = "end" \/ c.bit = 0 => ~Above(k + 1)
         /\ Stuck(k + 1) <=> ~Exactly /\ c.op # "end" /\ k % ByteBits # 0 /\ v = Split(c) + 1
         /\ Exactly => Accepts(k + 1)
<1> USE DEF EncoderInv
<1>1. k + 1 \in 1 .. Len(calls) /\ k + 1 \in 0 .. Len(calls) /\ k + 1 # 0 /\ (k + 1) - 1 = k
  BY DEF Types
<1>2. /\ c.low \in Nat /\ c.scale \in Nat /\ c.sub \in 1 .. (c.range - 2)
      /\ Kept(c) \in Nat /\ Skipped(c) \in Nat /\ Split(c) \in Nat /\ c \in CallTypes
  BY <1>1, CallFacts
<1>3. r = c.range /\ Split(c) = r - c.sub
  BY NextCall DEF Split
<1>4. \A x \in Int : x <= v <=> c.low + x * c.scale <= Low
  BY ValueCompares
<1>5. /\ LowAfter(k + 1) = c.low + Skipped(c) * c.scale
      /\ WidthAfter(k + 1) = Kept(c) * c.scale
  BY <1>1 DEF LowAfter, WidthAfter
<1>6. Skipped(c) <= v
  <2>1. LowAfter(k + 1) <= Low
    BY <1>1 DEF Nested
  <2>2. QED
    BY <1>2, <1>4, <1>5, <2>1
<1>7. ASSUME c.op # "end", c.bit = 1 PROVE Above(k + 1) <=> Split(c) <= v
  <2>1. Kept(c) = Split(c) /\ Skipped(c) = 0
    BY <1>7 DEF Kept, Skipped
  <2>2. Bound(k + 1) = c.low + Split(c) * c.scale
    <3>1. 0 * c.scale = 0 /\ c.low + 0 = c.low
      BY <1>2
    <3>2. QED
      BY <1>5, <2>1, <3>1 DEF Bound
  <2>3. Split(c) <= v <=> Bound(k + 1) <= Low
    <3>1. Split(c) \in Int
      BY <1>2
    <3>2. Split(c) <= v <=> c.low + Split(c) * c.scale <= Low
      BY <1>4, <3>1
    <3>3. QED
      BY <2>2, <3>2
  <2>4. Bounded(k + 1)
    BY <1>7 DEF Bounded
  <2>5. QED
    BY <2>3, <2>4 DEF Above
<1>8. ASSUME c.op = "end" \/ c.bit = 0 PROVE ~Above(k + 1)
  BY <1>1, <1>8 DEF Above, Bounded
<1>9. Stuck(k + 1) <=> ~Exactly /\ c.op # "end" /\ k % ByteBits # 0 /\ v = Split(c) + 1
  <2>1. Split(c) + 1 \in Int /\ Split(c) + 2 \in Int
    BY <1>2
  <2>2. Split(c) + 1 <= v <=> c.low + (Split(c) + 1) * c.scale <= Low
    BY <1>4, <2>1
  <2>3. Split(c) + 2 <= v <=> c.low + (Split(c) + 2) * c.scale <= Low
    BY <1>4, <2>1
  <2>4. c.low + (Split(c) + 2) * c.scale \in Int /\ Low \in Int
    <3>1. \A x, y, z \in Int : z + x * y \in Int
      OBVIOUS
    <3>2. Low \in Nat
      BY EncoderFacts
    <3>4. c.low \in Int /\ c.scale \in Int /\ Low \in Int
      BY <1>2, <3>2
    <3>3. QED
      BY <2>1, <3>1, <3>4
  <2>5. ~(Split(c) + 2 <= v) <=> Low < c.low + (Split(c) + 2) * c.scale
    BY <2>3, <2>4
  <2>6. v = Split(c) + 1 <=> Split(c) + 1 <= v /\ ~(Split(c) + 2 <= v)
    BY <1>2
  <2>7. QED
    BY <1>1, <2>2, <2>5, <2>6 DEF Stuck
<1>10. Exactly => Accepts(k + 1)
  BY <1>1, ExactAccepts
<1>11. QED
  BY <1>2, <1>3, <1>6, <1>7, <1>8, <1>9, <1>10

\* The end of the one section is hit exactly: nothing was packed after it.
LEMMA EndIsHit ==
  ASSUME EncoderInv, OneSection, ~Exactly, phase = "done",
         NEW r \in Threshold .. (2 * Threshold - 1), NEW v \in Int,
         NEW j \in DOMAIN marks, NEW k \in 0 .. Len(calls), k < Len(calls), InStep(r, v, j, k),
         NEW c, c = calls[k + 1], c.op = "end"
  PROVE  k + 1 = Len(calls) /\ v = Split(c)
<1> USE DEF EncoderInv
<1>1. k + 1 \in DOMAIN calls /\ k + 1 \in 1 .. Len(calls) /\ k + 1 # 0
  BY DEF Types
<1>2. k + 1 = Len(calls)
  BY <1>1 DEF OneSection
<1>3. Skipped(c) = Split(c) /\ Split(c) \in Nat /\ c.low \in Nat /\ c.scale \in Nat /\ c.scale >= 1
  BY <1>1, CallFacts DEF Skipped
<1>4. c.low + Split(c) * c.scale = Low
  <2>1. LowAfter(k + 1) = Low
    BY <1>2 DEF Latest
  <2>2. QED
    BY <1>1, <1>3, <2>1 DEF LowAfter
<1>5. c.low + (Split(c) + 1) * c.scale > Low
  <2>1. PICK x \in Nat : x = Split(c)
    BY <1>3
  <2>2. PICK y \in Nat : y = c.scale /\ y >= 1
    BY <1>3
  <2>3. (x + 1) * y = x * y + y /\ x * y \in Nat
    OBVIOUS
  <2>6. PICK a \in Nat, z \in Nat : a = c.low /\ z = x * y
    BY <1>3, <2>3
  <2>7. a + z = Low
    BY <1>4, <2>1, <2>2, <2>6
  <2>8. (x + 1) * y = z + y
    BY <2>3, <2>6
  <2>9. a + (z + y) > a + z
    BY <2>2
  <2>4. c.low + (x + 1) * y > Low
    BY <2>6, <2>7, <2>8, <2>9
  <2>5. QED
    BY <2>1, <2>2, <2>4
<1>6. ~(Split(c) + 1 <= v)
  <2>1. Split(c) + 1 \in Int /\ c.low + (Split(c) + 1) * c.scale \in Int /\ Low \in Int
    <3>1. \A x, y, z \in Int : z + x * y \in Int
      OBVIOUS
    <3>4. Low \in Nat
      BY EncoderFacts
    <3>2. Split(c) + 1 \in Int /\ c.low \in Int /\ c.scale \in Int /\ Low \in Int
      BY <1>3, <3>4
    <3>3. QED
      BY <3>1, <3>2
  <2>2. Split(c) + 1 <= v <=> c.low + (Split(c) + 1) * c.scale <= Low
    BY <2>1, ValueCompares
  <2>3. QED
    BY <1>5, <2>1, <2>2
<1>7. Split(c) <= v
  <2>1. Skipped(c) <= v
    BY SameBit
  <2>2. QED
    BY <1>3, <2>1, Zenon
<1>8. QED
  BY <1>2, <1>3, <1>6, <1>7

\* What the call kept and skipped of the encoder's interval takes the decoder
\* into the interval the call left, unless the call gave the number away.
LEMMA StepsOn ==
  ASSUME EncoderInv, OneSection, phase = "done", NEW r \in Threshold .. (2 * Threshold - 1),
         NEW v \in Int, NEW j \in DOMAIN marks, NEW k \in 0 .. Len(calls), k < Len(calls),
         InStep(r, v, j, k), Accepts(k + 1)
  PROVE  /\ InStep(Kept(calls[k + 1]), v - Skipped(calls[k + 1]), j, k + 1)
         /\ Kept(calls[k + 1]) \in 1 .. (2 * Threshold - 1) /\ Skipped(calls[k + 1]) \in Nat
<1> USE DEF EncoderInv
<1> DEFINE c == calls[k + 1]
<1>1. k + 1 \in 1 .. Len(calls) /\ k + 1 # 0 /\ k + 1 \in DOMAIN calls
  BY DEF Types
<1>2. /\ c.range \in Threshold .. (2 * Threshold - 1) /\ c.sub \in 1 .. (c.range - 2)
      /\ c.scale \in Nat /\ Kept(c) \in Nat /\ Kept(c) >= 1 /\ Skipped(c) \in Nat
      /\ Split(c) \in Nat /\ Split(c) = c.range - c.sub
  BY <1>1, CallFacts DEF Split
<1>3. marks[j].unit = c.scale /\ (marks[j].number - v) * c.scale = c.low /\ marks[j].number \in Nat
  BY NextCall, MarkFacts
<1>4. LowAfter(k + 1) = c.low + Skipped(c) * c.scale /\ WidthAfter(k + 1) = Kept(c) * c.scale
  BY <1>1 DEF LowAfter, WidthAfter
<1>5. Kept(c) \in {c.range, Split(c), c.sub, 1}
  BY DEF Kept
<1>6. /\ r = c.range /\ Skipped(c) <= v /\ v < r
      /\ c.op # "end" /\ c.bit = 1 => v < Split(c)
      /\ ~Exactly /\ c.op = "end" => v = Split(c)
  <2>1. r = c.range /\ Skipped(c) <= v
    BY SameBit
  <2>2. c.op # "end" /\ c.bit = 1 => (Above(k + 1) <=> Split(c) <= v)
    BY SameBit
  <2>3. ~Exactly /\ c.op = "end" => v = Split(c)
    BY EndIsHit
  <2>4. ~Above(k + 1) /\ v < r
    BY DEF Accepts, InStep
  <2>5. QED
    BY <1>2, <2>1, <2>2, <2>3, <2>4
<1>7. c.bit \in {0, 1}
  BY <1>1, CallFacts DEF CallTypes
<1> HIDE DEF c
<1>12. c.range \in Nat /\ c.range <= 2 * Threshold - 1 /\ Threshold \in Nat
  <2>1. Threshold \in Nat
    BY Widths
  <2>2. QED
    BY <1>2, <2>1
<1>13. c.sub \in Nat /\ c.sub <= c.range /\ c.sub >= 1 /\ Split(c) <= c.range
  BY <1>2, <1>12
<1>8. Kept(c) \in 1 .. (2 * Threshold - 1)
  <2>1. Kept(c) <= 2 * Threshold - 1
    BY <1>2, <1>5, <1>12, <1>13
  <2>2. QED
    BY <1>2, <1>12, <2>1
<1>9. 0 <= v - Skipped(c) /\ v - Skipped(c) < Kept(c)
  <2>1. CASE c.op # "end" /\ c.bit = 1
    <3>1. Kept(c) = Split(c) /\ Skipped(c) = 0
      BY <2>1 DEF Kept, Skipped
    <3>2. QED
      BY <1>2, <1>6, <2>1, <3>1
  <2>2. CASE c.op # "end" /\ c.bit = 0
    <3>1. Kept(c) = c.sub /\ Skipped(c) \in {Split(c), Split(c) + 1}
      <4>1. Split(c) + 0 = Split(c)
        BY <1>2
      <4>2. QED
        BY <2>2, <4>1 DEF Kept, Skipped, Skip
    <3>2. QED
      BY <1>2, <1>6, <1>12, <1>13, <3>1
  <2>3. CASE c.op = "end"
    <3>1. /\ Kept(c) = IF Exactly THEN c.range ELSE 1
          /\ Skipped(c) = IF Exactly THEN 0 ELSE Split(c)
      BY <2>3 DEF Kept, Skipped
    <3>2. QED
      BY <1>2, <1>6, <1>12, <2>3, <3>1
  <2>4. QED
    BY <1>7, <2>1, <2>2, <2>3
<1>10. (marks[j].number - (v - Skipped(c))) * c.scale = c.low + Skipped(c) * c.scale
  <2>1. \A a \in Int, b, u \in Nat : (a + b) * u = a * u + b * u
    OBVIOUS
  <2>2. marks[j].number - (v - Skipped(c)) = (marks[j].number - v) + Skipped(c)
    BY <1>2, <1>3
  <2>3. marks[j].number - v \in Int
    BY <1>3
  <2>4. ((marks[j].number - v) + Skipped(c)) * c.scale
          = (marks[j].number - v) * c.scale + Skipped(c) * c.scale
    BY <1>2, <2>1, <2>3
  <2>5. QED
    BY <1>3, <2>2, <2>4
<1>11. QED
  BY <1>2, <1>3, <1>4, <1>8, <1>9, <1>10 DEF InStep, c

\* What is judged is the number sent and the calls, and they stay.
LEMMA SameJudgement ==
  ASSUME UNCHANGED <<evars, calls, marks>>
  PROVE  /\ \A k : Accepts(k)' = Accepts(k) /\ Above(k)' = Above(k)
         /\ \A r, v, j, k : InStep(r, v, j, k) => InStep(r, v, j, k)'
<1>1. /\ calls' = calls /\ marks' = marks /\ Low' = Low
  BY DEF evars, Low, Carry
<1>2. \A k : Above(k)' = Above(k)
  BY <1>1 DEF Above, Bounded, Bound, LowAfter, WidthAfter
<1>3. \A k : Stuck(k)' = Stuck(k)
  BY <1>1 DEF Stuck
<1>4. \A r, v, j, k : InStep(r, v, j, k) => InStep(r, v, j, k)'
  BY <1>1 DEF InStep, LowAfter, WidthAfter
<1>5. QED
  BY <1>2, <1>3, <1>4 DEF Accepts

\* The next bit the decoder reads leads it to the next mark.
LEMMA ReadBitInv ==
  ASSUME EncoderInv, DecoderInv, DecoderReadBit
  PROVE  DecoderInv'
<1>1. /\ phase = "done" /\ dPhase = "running" /\ dRange < Threshold /\ D!ReadBit
      /\ UNCHANGED <<evars, calls, marks, replayed>>
  BY DEF DecoderReadBit, D!ReadBit, D!Looping
<1>2. /\ dRange \in Nat /\ dRange >= 1 /\ dValue \in Int /\ replayed \in 0 .. Len(calls)
      /\ Threshold \in Nat /\ dest \in Seq({0, 1})
  BY EncoderFacts, Widths DEF DecoderInv, EncoderInv, Inv, TypeOK
<1>3. PICK j \in DOMAIN marks : AtMark(j)
  BY DEF DecoderInv
<1>3a. InStep(dRange, dValue, j, replayed)
  BY <1>1, <1>3 DEF AtMark
<1> DEFINE m == marks[j]
           n == marks[j + 1]
           F == FramingAt(m.pos)
<1>4. /\ j + 1 \in DOMAIN marks /\ n.pos \in 1 .. Len(dest) /\ dest[n.pos] \in {0, 1}
      /\ InStep(2 * dRange, 2 * dValue + dest[n.pos], j + 1, replayed)
      /\ Follows(dest, m, n)
  BY <1>1, <1>2, <1>3a, NextMark
<1>5. /\ n.pos = m.pos + Len(F) + 1 /\ \A i \in 1 .. Len(F) : dest[m.pos + i] = F[i]
  BY <1>4 DEF Follows
<1>6. m.pos \in Nat /\ n.pos \in Nat /\ Len(F) \in Nat /\ Len(dest) \in Nat
  <2>1. m.pos \in Nat /\ n.pos \in Nat
    BY <1>4, MarkFacts DEF EncoderInv
  <2>2. Len(F) \in Nat
    BY <2>1, FramingShort
  <2>3. Len(dest) \in Nat
    BY <1>2
  <2>4. QED
    BY <2>1, <2>2, <2>3
<1>7. D!Framing = F /\ dSrcPos = m.pos
  BY <1>3, FramingPlaces DEF AtMark
<1> HIDE DEF m, n, F
<1>8. \A i \in 1 .. Len(F) : D!BitAt(dSrcPos + i - 1) = F[i]
  <2> SUFFICES ASSUME NEW i \in 1 .. Len(F) PROVE D!BitAt(dSrcPos + i - 1) = F[i]
    OBVIOUS
  <2>1. m.pos + i - 1 < Len(dest) /\ (m.pos + i - 1) + 1 = m.pos + i
    BY <1>4, <1>5, <1>6
  <2>2. D!BitAt(dSrcPos + i - 1) = dest[(m.pos + i - 1) + 1]
    BY <1>7, <2>1 DEF D!BitAt
  <2>3. QED
    BY <1>5, <2>1, <2>2
<1>9. D!FramingRead
  BY <1>7, <1>8 DEF D!FramingRead
<1>10. D!BitAt(dSrcPos + Len(F)) = dest[n.pos]
  <2>1. m.pos + Len(F) < Len(dest) /\ (m.pos + Len(F)) + 1 = n.pos
    BY <1>4, <1>5, <1>6
  <2>2. QED
    BY <1>7, <2>1 DEF D!BitAt
<1>11. /\ dRange' = 2 * dRange /\ dValue' = 2 * dValue + dest[n.pos]
       /\ dSrcPos' = n.pos /\ dPhase' = "running" /\ dDestPos' = dDestPos
  BY <1>1, <1>5, <1>7, <1>9, <1>10 DEF D!ReadBit
<1>12. AtMark(j + 1)'
  BY <1>1, <1>4, <1>11 DEF AtMark, InStep, n, WidthAfter, LowAfter
<1>13. dRange' \in 1 .. (2 * Threshold - 1) /\ dValue' \in Int
  BY <1>1, <1>2, <1>4, <1>11
<1>14. /\ replayed' \in 0 .. Len(calls') /\ phase' = "done" /\ j + 1 \in DOMAIN marks'
  BY <1>1, <1>2, <1>4 DEF evars
<1>15. Judged'
  <2>1. \A k : Accepts(k)' = Accepts(k)
    BY <1>1, SameJudgement
  <2>2. \A k \in 1 .. replayed : Accepts(k)
    BY <1>1 DEF DecoderInv, Judged
  <2>3. QED
    BY <1>1, <1>11, <2>1, <2>2 DEF Judged
<1>16. ~Exactly /\ replayed' < Len(calls') => dDestPos' = replayed'
  BY <1>1, <1>11 DEF DecoderInv
<1>17. QED
  BY <1>11, <1>12, <1>13, <1>14, <1>15, <1>16 DEF DecoderInv, Exactly

\* The next call and the decoder's place in the interval it found.
Asking(j) ==
  /\ phase = "done" /\ dPhase = "running" /\ j \in DOMAIN marks
  /\ dSrcPos = marks[j].pos /\ InStep(dRange, dValue, j, replayed)
  /\ dRange \in Threshold .. (2 * Threshold - 1) /\ dValue \in Int
  /\ replayed \in 0 .. Len(calls) /\ replayed < Len(calls)
  /\ replayed + 1 \in 1 .. Len(calls) /\ Asked = calls[replayed + 1]
  /\ Asked \in CallTypes /\ Sound(Asked)
  /\ ~Exactly => dDestPos = replayed

LEMMA IsAsking ==
  ASSUME EncoderInv, DecoderInv, phase = "done", D!Ready, More
  PROVE  \E j \in DOMAIN marks : Asking(j)
<1>1. PICK j \in DOMAIN marks : AtMark(j)
  BY DEF DecoderInv
<1>2. dPhase = "running" /\ dRange >= Threshold /\ dRange \in 1 .. (2 * Threshold - 1)
  BY DEF D!Ready, DecoderInv
<1>3. replayed \in 0 .. Len(calls) /\ replayed < Len(calls) /\ Len(calls) \in Nat
  BY DEF DecoderInv, More, EncoderInv, Types
<1>4. replayed + 1 \in 1 .. Len(calls) /\ replayed + 1 \in DOMAIN calls
  BY <1>3 DEF EncoderInv, Types
<1>5. Asked = calls[replayed + 1] /\ Asked \in CallTypes /\ Sound(Asked)
  BY <1>4 DEF Asked, EncoderInv, Types
<1>6. dRange \in Threshold .. (2 * Threshold - 1)
  BY <1>2, Widths
<1>7. QED
  BY <1>1, <1>2, <1>3, <1>4, <1>5, <1>6 DEF Asking, AtMark, DecoderInv

\* The ASSERTs of Decode and the bit it returns tell whether the number sent is
\* one that the encoder did not give away, and one the unpacker can tell from
\* the end of the data.
LEMMA Judgement ==
  ASSUME EncoderInv, NEW j, Asking(j), Asked.op # "end"
  PROVE  /\ D!Verdict(Asked.sub) \in {"running", "false end", "ambiguous"}
         /\ D!Verdict(Asked.sub) = "running" /\ D!Bit(Asked.sub) = Asked.bit
              <=> Accepts(replayed + 1)
         /\ D!Verdict(Asked.sub) # "ambiguous" /\ ~Accepts(replayed + 1) => Above(replayed + 1)
         /\ Asked.bit = 0 => D!Bit(Asked.sub) = 0
<1> DEFINE c == Asked
           v == dValue
           r == dRange
<1>1. /\ c.sub \in 1 .. (r - 2) /\ Split(c) = r - c.sub /\ Skipped(c) <= v
      /\ c.bit = 1 => (Above(replayed + 1) <=> Split(c) <= v)
      /\ c.bit = 0 => ~Above(replayed + 1)
      /\ Stuck(replayed + 1) <=> ~Exactly /\ replayed % ByteBits # 0 /\ v = Split(c) + 1
  BY SameBit DEF Asking
<1>2. c.bit \in {0, 1} /\ r \in Nat /\ v \in Int /\ c.sub \in Nat
  <2>1. r \in Nat
    BY Widths DEF Asking
  <2>2. c.bit \in {0, 1} /\ v \in Int /\ c.sub \in Nat
    BY DEF Asking, CallTypes
  <2>3. QED
    BY <2>1, <2>2
<1>3. D!ValidSub(c.sub)
  BY <1>1, <1>2 DEF D!ValidSub
<1>4. D!FalseEnd(c.sub) <=> ~Exactly /\ v = Split(c)
  BY <1>1 DEF D!FalseEnd, Exactly
<1>5. D!Ambiguous(c.sub) <=> Stuck(replayed + 1)
  <2>1. r - c.sub + 1 = Split(c) + 1
    BY <1>1
  <2>2. QED
    BY <1>1, <2>1 DEF D!Ambiguous, Exactly, Asking
<1>6. /\ D!FalseEnd(c.sub) => D!Verdict(c.sub) = "false end"
      /\ ~D!FalseEnd(c.sub) /\ D!Ambiguous(c.sub) => D!Verdict(c.sub) = "ambiguous"
      /\ ~D!FalseEnd(c.sub) /\ ~D!Ambiguous(c.sub) => D!Verdict(c.sub) = "running"
  <2>1. D!FalseEnd(c.sub) => ~D!Ambiguous(c.sub)
    BY <1>1, <1>2, <1>4, <1>5
  <2>2. CASE D!FalseEnd(c.sub)
    BY <1>3, <2>1, <2>2 DEF D!Verdict
  <2>3. CASE ~D!FalseEnd(c.sub) /\ D!Ambiguous(c.sub)
    BY <1>3, <2>3 DEF D!Verdict
  <2>4. CASE ~D!FalseEnd(c.sub) /\ ~D!Ambiguous(c.sub)
    BY <1>3, <2>4 DEF D!Verdict
  <2>5. QED
    BY <2>2, <2>3, <2>4
<1>7. D!Bit(c.sub) = IF Split(c) <= v THEN 0 ELSE 1
  BY <1>1, <1>2 DEF D!Bit
<1> HIDE DEF c, v, r
<1>8. Split(c) \in Int
  BY <1>1, <1>2
<1>9. CASE c.bit = 0
  <2>1. Skipped(c) = IF Exactly THEN Split(c) ELSE Split(c) + 1
    <3>1. Split(c) + 0 = Split(c)
      BY <1>8
    <3>2. QED
      BY <1>9, <3>1 DEF Skipped, Skip, Exactly, c
  <2>2. Split(c) <= v /\ ~D!FalseEnd(c.sub)
    BY <1>1, <1>2, <1>4, <1>8, <2>1
  <2>3. D!Bit(c.sub) = 0 /\ ~Above(replayed + 1)
    BY <1>1, <1>7, <1>9, <2>2
  <2>4. CASE Stuck(replayed + 1)
    <3>1. D!Verdict(c.sub) = "ambiguous"
      BY <1>5, <1>6, <2>2, <2>4
    <3>2. QED
      BY <2>3, <2>4, <3>1 DEF Accepts, c
  <2>5. CASE ~Stuck(replayed + 1)
    <3>1. D!Verdict(c.sub) = "running" /\ Accepts(replayed + 1)
      BY <1>5, <1>6, <2>2, <2>3, <2>5 DEF Accepts
    <3>2. QED
      BY <1>9, <2>3, <3>1 DEF c
  <2>6. QED
    BY <2>4, <2>5
<1>10. CASE c.bit = 1 /\ Split(c) <= v
  <2>1. Above(replayed + 1) /\ D!Bit(c.sub) # c.bit
    BY <1>1, <1>7, <1>10
  <2>2. D!Verdict(c.sub) \in {"running", "false end", "ambiguous"}
    BY <1>6
  <2>3. ~Accepts(replayed + 1)
    BY <2>1 DEF Accepts
  <2>4. D!Verdict(c.sub) = "running" /\ D!Bit(c.sub) = c.bit <=> Accepts(replayed + 1)
    BY <2>1, <2>3
  <2>5. c.bit # 0
    BY <1>10
  <2>6. QED
    BY <2>1, <2>2, <2>4, <2>5 DEF c
<1>11. CASE c.bit = 1 /\ ~(Split(c) <= v)
  <2>1. v # Split(c) /\ v # Split(c) + 1
    BY <1>2, <1>8, <1>11
  <2>2. ~D!FalseEnd(c.sub) /\ ~D!Ambiguous(c.sub) /\ Accepts(replayed + 1)
    BY <1>1, <1>4, <1>5, <1>11, <2>1 DEF Accepts
  <2>3. QED
    BY <1>6, <1>7, <1>11, <2>2 DEF c
<1>12. QED
  BY <1>2, <1>9, <1>10, <1>11

\* An answer that is accepted takes the decoder on.
LEMMA Accepted ==
  ASSUME EncoderInv, OneSection, DecoderInv, NEW j, Asking(j), Answered, Accepts(replayed + 1),
         dRange' = Kept(Asked), dValue' = dValue - Skipped(Asked), dSrcPos' = dSrcPos,
         dPhase' = "running", ~Exactly /\ replayed + 1 < Len(calls) => dDestPos' = replayed + 1
  PROVE  DecoderInv'
<1>1. /\ InStep(Kept(Asked), dValue - Skipped(Asked), j, replayed + 1)
      /\ Kept(Asked) \in 1 .. (2 * Threshold - 1) /\ Skipped(Asked) \in Nat
  BY StepsOn DEF Asking
<1>2. UNCHANGED <<evars, calls, marks>> /\ replayed' = replayed + 1 /\ phase' = "done"
  BY DEF Answered, evars, Asking
<1>3. AtMark(j)'
  <2>1. PICK r, v, k : r = Kept(Asked) /\ v = dValue - Skipped(Asked) /\ k = replayed + 1
    OBVIOUS
  <2>2. InStep(r, v, j, k)
    BY <1>1, <2>1
  <2>3. InStep(r, v, j, k)'
    BY <1>2, <2>2, SameJudgement
  <2>4. dRange' = r /\ dValue' = v /\ replayed' = k
    BY <1>2, <2>1
  <2>5. dSrcPos' = marks'[j].pos
    BY <1>2 DEF Asking
  <2>6. QED
    BY <2>3, <2>4, <2>5 DEF AtMark, InStep, LowAfter, WidthAfter
<1>4. j \in DOMAIN marks'
  BY <1>2 DEF Asking
<1>5. dRange' \in 1 .. (2 * Threshold - 1) /\ dValue' \in Int
  BY <1>1 DEF Asking
<1>6. replayed' \in 0 .. Len(calls')
  <2>1. replayed + 1 \in 1 .. Len(calls)
    BY DEF Asking
  <2>2. QED
    BY <1>2, <2>1
<1>7. Judged'
  <2>1. \A k : Accepts(k)' = Accepts(k)
    BY <1>2, SameJudgement
  <2>2. \A k \in 1 .. replayed : Accepts(k)
    BY DEF DecoderInv, Judged, Asking
  <2>3. \A k \in 1 .. replayed + 1 : k \in 1 .. replayed \/ k = replayed + 1
    BY DEF Asking
  <2>4. \A k \in 1 .. replayed + 1 : Accepts(k)
    BY <2>2, <2>3
  <2>5. QED
    BY <1>2, <2>1, <2>4 DEF Judged
<1>8. QED
  BY <1>2, <1>3, <1>4, <1>5, <1>6, <1>7 DEF DecoderInv, Exactly

\* One that is not stops it.
LEMMA Rejected ==
  ASSUME EncoderInv, DecoderInv, NEW j, Asking(j), Answered, ~Accepts(replayed + 1),
         UNCHANGED <<dRange, dValue, dSrcPos>>, dPhase' # "running",
         dPhase' # "ambiguous" => Above(replayed + 1)
  PROVE  DecoderInv'
<1>1. UNCHANGED <<evars, calls, marks>> /\ replayed' = replayed + 1 /\ phase' = "done"
  BY DEF Answered, evars, Asking
<1>2. AtMark(j)' /\ j \in DOMAIN marks'
  BY <1>1 DEF AtMark, Asking
<1>3. replayed' \in 0 .. Len(calls') /\ replayed' >= 1 /\ replayed' - 1 = replayed
  <2>1. replayed + 1 \in 1 .. Len(calls) /\ replayed \in Int
    BY DEF Asking
  <2>2. QED
    BY <1>1, <2>1
<1>4. Judged'
  <2>1. \A k : Accepts(k)' = Accepts(k) /\ Above(k)' = Above(k)
    BY <1>1, SameJudgement
  <2>2. \A k \in 1 .. replayed : Accepts(k)
    BY DEF DecoderInv, Judged, Asking
  <2>3. QED
    BY <1>1, <1>3, <2>1, <2>2 DEF Judged
<1>5. QED
  BY <1>1, <1>2, <1>3, <1>4 DEF DecoderInv, Asking

\* Narrow does to the range and the value what the call did to the interval.
LEMMA NarrowsAlike ==
  ASSUME EncoderInv, NEW j, Asking(j), Asked.op # "end", D!Bit(Asked.sub) = Asked.bit,
         D!Narrow(Asked.sub)
  PROVE  dRange' = Kept(Asked) /\ dValue' = dValue - Skipped(Asked)
<1>1. Asked.bit \in {0, 1} /\ dValue \in Int /\ Split(Asked) = dRange - Asked.sub
      /\ Split(Asked) \in Int
  <2>1. Asked.bit \in {0, 1} /\ dValue \in Int
    BY DEF Asking, CallTypes
  <2>2. Split(Asked) = dRange - Asked.sub /\ Split(Asked) \in Nat
    BY SameBit, CallFacts DEF Asking, EncoderInv
  <2>3. QED
    BY <2>1, <2>2
<1>2. /\ Asked.bit = 0 => /\ dValue' = dValue - (IF Exactly THEN Split(Asked) ELSE Split(Asked) + 1)
                          /\ dRange' = Asked.sub
      /\ Asked.bit # 0 => dValue' = dValue /\ dRange' = Split(Asked)
  BY <1>1 DEF D!Narrow, Exactly
<1>3. Skipped(Asked) = IF Asked.bit = 1 THEN 0
                       ELSE IF Exactly THEN Split(Asked) ELSE Split(Asked) + 1
  <2>1. Split(Asked) + 0 = Split(Asked)
    BY <1>1
  <2>2. QED
    BY <2>1 DEF Skipped, Skip, Exactly
<1>4. dValue = dValue - 0
  BY <1>1
<1>5. QED
  BY <1>1, <1>2, <1>3, <1>4 DEF Kept

\* The decoder goes on as long as what it is asked can be told from the number
\* sent.
LEMMA AnswersInv ==
  ASSUME EncoderInv, OneSection, DecoderInv,
         DecoderPreBit \/ DecoderBit \/ DecoderWrongBit \/ DecoderEnd
  PROVE  DecoderInv'
<1>1. phase = "done" /\ More /\ D!Ready /\ Answered
  BY DEF DecoderPreBit, DecoderBit, DecoderWrongBit, DecoderEnd, D!PreDecode, D!Decode,
         D!ProcessEndOfSection
<1>2. PICK j \in DOMAIN marks : Asking(j)
  BY <1>1, IsAsking
<1>3. /\ dPhase = "running" /\ replayed \in Nat
      /\ ~Exactly => dDestPos = replayed
  BY <1>2 DEF Asking
<1>4. CASE DecoderPreBit
  <2>1. Asked.op = "pre" /\ Asked.bit = 0 /\ D!PreDecode(Asked.sub)
    BY <1>2, <1>4 DEF DecoderPreBit, Asking, Sound
  <2>2. /\ D!Bit(Asked.sub) = Asked.bit
        /\ D!Verdict(Asked.sub) = "running" <=> Accepts(replayed + 1)
        /\ D!Verdict(Asked.sub) # "ambiguous" /\ ~Accepts(replayed + 1) => Above(replayed + 1)
    BY <1>2, <2>1, Judgement
  <2>3. CASE Accepts(replayed + 1)
    <3>1. D!Narrow(Asked.sub) /\ dPhase' = "running" /\ dSrcPos' = dSrcPos /\ dDestPos' = dDestPos + 1
      BY <2>1, <2>2, <2>3 DEF D!PreDecode
    <3>2. dRange' = Kept(Asked) /\ dValue' = dValue - Skipped(Asked)
      BY <1>2, <2>1, <2>2, <3>1, NarrowsAlike
    <3>3. QED
      BY <1>1, <1>2, <1>3, <2>3, <3>1, <3>2, Accepted
  <2>4. CASE ~Accepts(replayed + 1)
    <3>1. UNCHANGED <<dRange, dValue, dSrcPos>> /\ dPhase' = D!Verdict(Asked.sub)
      BY <2>1, <2>2, <2>4 DEF D!PreDecode
    <3>2. QED
      BY <1>1, <1>2, <2>2, <2>4, <3>1, Rejected
  <2>5. QED
    BY <2>3, <2>4
<1>5. CASE DecoderBit
  <2>1. /\ Asked.op = "bit" /\ D!Decode(Asked.sub)
        /\ D!Verdict(Asked.sub) = "running" => D!Bit(Asked.sub) = Asked.bit
    BY <1>5 DEF DecoderBit
  <2>2. /\ D!Verdict(Asked.sub) = "running" <=> Accepts(replayed + 1)
        /\ D!Verdict(Asked.sub) # "ambiguous" /\ ~Accepts(replayed + 1) => Above(replayed + 1)
    BY <1>2, <2>1, Judgement
  <2>3. CASE Accepts(replayed + 1)
    <3>1. D!Narrow(Asked.sub) /\ dPhase' = "running" /\ dSrcPos' = dSrcPos /\ dDestPos' = dDestPos + 1
      BY <2>1, <2>2, <2>3 DEF D!Decode
    <3>2. dRange' = Kept(Asked) /\ dValue' = dValue - Skipped(Asked)
      BY <1>2, <2>1, <2>2, <2>3, <3>1, NarrowsAlike
    <3>3. QED
      BY <1>1, <1>2, <1>3, <2>3, <3>1, <3>2, Accepted
  <2>4. CASE ~Accepts(replayed + 1)
    <3>1. UNCHANGED <<dRange, dValue, dSrcPos>> /\ dPhase' = D!Verdict(Asked.sub)
      BY <2>1, <2>2, <2>4 DEF D!Decode
    <3>2. QED
      BY <1>1, <1>2, <2>2, <2>4, <3>1, Rejected
  <2>5. QED
    BY <2>3, <2>4
<1>6. CASE DecoderWrongBit
  <2>1. /\ Asked.op = "bit" /\ D!Verdict(Asked.sub) = "running" /\ D!Bit(Asked.sub) # Asked.bit
        /\ dPhase' = "wrong bit" /\ UNCHANGED <<dRange, dValue, dSrcPos>>
    BY <1>6 DEF DecoderWrongBit
  <2>2. ~Accepts(replayed + 1) /\ Above(replayed + 1)
    BY <1>2, <2>1, Judgement
  <2>3. QED
    BY <1>1, <1>2, <2>1, <2>2, Rejected
<1>7. CASE DecoderEnd
  <2>1. Asked.op = "end" /\ D!ProcessEndOfSection(Asked.sub)
    BY <1>7 DEF DecoderEnd
  <2>2. /\ Asked.sub \in 1 .. (dRange - 2) /\ dRange = Asked.range /\ Split(Asked) = dRange - Asked.sub
        /\ Accepts(replayed + 1)
    BY <1>2, <2>1, SameBit DEF Asking, Accepts
  <2>3. dRange \in Nat /\ dValue \in Int
    BY <1>2, Widths DEF Asking
  <2>4. /\ dPhase' = "running" /\ dSrcPos' = dSrcPos
        /\ dRange' = Kept(Asked) /\ dValue' = dValue - Skipped(Asked)
    <3>1. CASE Exactly
      <4>1. UNCHANGED <<dRange, dValue, dPhase, dSrcPos>>
        BY <2>1, <3>1 DEF D!ProcessEndOfSection, Exactly
      <4>2. Kept(Asked) = dRange /\ Skipped(Asked) = 0 /\ dValue = dValue - 0
        BY <2>1, <2>2, <2>3, <3>1 DEF Kept, Skipped
      <4>3. QED
        BY <1>3, <4>1, <4>2
    <3>2. CASE ~Exactly
      <4>1. dValue = Split(Asked)
        BY <1>2, <2>1, <3>2, EndIsHit DEF Asking
      <4>2. D!ValidSub(Asked.sub) /\ dValue = dRange - Asked.sub
        BY <2>2, <2>3, <4>1 DEF D!ValidSub
      <4>3. dRange' = 1 /\ dValue' = 0 /\ dPhase' = dPhase /\ dSrcPos' = dSrcPos
        BY <2>1, <3>2, <4>2 DEF D!ProcessEndOfSection, Exactly
      <4>4. Kept(Asked) = 1 /\ Skipped(Asked) = Split(Asked) /\ dValue - dValue = 0
        BY <2>1, <2>3, <3>2 DEF Kept, Skipped
      <4>5. QED
        BY <1>3, <4>1, <4>3, <4>4
    <3>3. QED
      BY <3>1, <3>2
  <2>5. ~Exactly => replayed + 1 = Len(calls)
    BY <1>2, <2>1, EndIsHit DEF Asking
  <2>6. ~(~Exactly /\ replayed + 1 < Len(calls))
    <3>1. replayed + 1 \in Nat /\ Len(calls) \in Nat
      BY <1>3 DEF EncoderInv, Types
    <3>2. QED
      BY <2>5, <3>1
  <2>7. QED
    BY <1>1, <1>2, <2>2, <2>4, <2>6, Accepted
<1>8. QED
  BY <1>4, <1>5, <1>6, <1>7

\* Until the encoder is done the decoder is at the first mark.
LEMMA DecoderWaits ==
  ASSUME EncoderInv, EncoderInv', DecoderInv, phase # "done", UNCHANGED <<dvars, replayed>>
  PROVE  DecoderInv'
<1>1. /\ dRange' = 1 /\ dValue' = 0 /\ dSrcPos' = 0 /\ replayed' = 0 /\ dPhase' = "running"
      /\ dDestPos' = 0 /\ dRange' \in 1 .. (2 * Threshold - 1) /\ dValue' \in Int
  BY DEF DecoderInv, dvars
<1>2. 1 \in DOMAIN marks' /\ Len(calls') \in Nat /\ marks'[1].unit \in Nat
  <2>1. Types'
    BY DEF EncoderInv
  <2>2. marks'[1] \in MarkTypes /\ 1 \in DOMAIN marks' /\ Len(calls') \in Nat
    BY <2>1 DEF Types
  <2>3. QED
    BY <2>2, PowersPositive DEF MarkTypes
<1>3. marks'[1].pos = 0 /\ marks'[1].number = 0
  BY DEF EncoderInv, Ends
<1>4. dRange' * marks'[1].unit = marks'[1].unit
      /\ (marks'[1].number - dValue') * marks'[1].unit = 0
  BY <1>1, <1>2, <1>3
<1>5. AtMark(1)'
  <2>1. 0 <= 0 /\ 0 < 1
    OBVIOUS
  <2>2. QED
    BY <1>1, <1>3, <1>4, <2>1 DEF AtMark, InStep, WidthAfter, LowAfter
<1>6. replayed' \in 0 .. Len(calls')
  BY <1>1, <1>2
<1>7. Judged'
  BY <1>1 DEF Judged
<1>8. QED
  BY <1>1, <1>2, <1>5, <1>6, <1>7 DEF DecoderInv

-----------------------------------------------------------------------------
(* The theorems.                                                           *)

LEMMA CodecInit == CInit => CodecInv
<1> SUFFICES ASSUME CInit PROVE CodecInv
  OBVIOUS
<1> USE DEF CInit
<1>1. Inv
  BY InitInv
<1>2. /\ calls = <<>> /\ replayed = 0 /\ dest = <<>> /\ payload = 0 /\ value = 0
      /\ range = Threshold /\ phase = "coding" /\ flushed = 0 /\ bitCount = WarmUp
      /\ marks = <<[pos |-> 0, number |-> 0, unit |-> Threshold]>>
      /\ dRange = 1 /\ dValue = 0 /\ dSrcPos = 0 /\ dDestPos = 0 /\ dPhase = "running"
      /\ section = "closed" /\ ceiling = Threshold
  BY DEF Init, D!Init
<1>3. Threshold \in Nat /\ Threshold >= 4 /\ Threshold \in Powers /\ Carry \in Nat /\ Unit[WarmUp] = Threshold
  BY Widths, Sizes, CarryTop
<1>4. payload * Carry = 0 /\ Low = 0
  BY <1>2, <1>3 DEF Low
<1>5. Len(calls) = 0 /\ DOMAIN calls = {} /\ Len(marks) = 1 /\ DOMAIN marks = {1}
      /\ marks[1].pos = 0 /\ marks[1].number = 0 /\ marks[1].unit = Threshold
  BY <1>2
<1>6. LowAfter(0) = 0 /\ WidthAfter(0) = Threshold
  BY <1>5 DEF LowAfter, WidthAfter
<1>7. Types
  BY <1>2, <1>3, <1>5 DEF Types, MarkTypes
<1>8. Chain /\ Latest /\ Draining /\ Drained
  BY <1>2, <1>4, <1>5, <1>6 DEF Chain, Latest, Draining, Drained
<1>9. Nested
  <2>1. \A k \in 0 .. Len(calls) : k = 0
    BY <1>5
  <2>2. 0 <= 0 /\ 0 + Threshold <= 0 + Threshold /\ Threshold <= Threshold
    BY <1>3
  <2>3. QED
    BY <1>2, <1>4, <1>6, <2>1, <2>2 DEF Nested
<1>10. Ends /\ Sent /\ Begun
  <2>1. Ends
    BY <1>2, <1>3, <1>5 DEF Ends, LastMark
  <2>2. Sent
    BY <1>5 DEF Sent
  <2>3. Begun
    <3>1. 0 * Threshold = 0 /\ (0 + 1) * Threshold = Threshold /\ 0 <= 0
          /\ 0 + Threshold <= Threshold /\ Threshold >= Threshold
      BY <1>3
    <3>2. QED
      BY <1>2, <1>3, <1>4, <1>5, <3>1 DEF Begun
  <2>4. QED
    BY <2>1, <2>2, <2>3
<1>11. AtMark(1)
  <2>1. 1 * Threshold = Threshold /\ (0 - 0) * Threshold = 0 /\ 0 <= 0 /\ 0 < 1
    BY <1>3
  <2>2. QED
    BY <1>2, <1>5, <1>6, <2>1 DEF AtMark, InStep
<1>12. DecoderInv
  <2>1. 1 \in 1 .. (2 * Threshold - 1)
    BY <1>3
  <2>2. Judged
    BY <1>2 DEF Judged
  <2>3. QED
    BY <1>2, <1>5, <1>11, <2>1, <2>2 DEF DecoderInv
<1>13. OneSection
  BY <1>2, <1>5 DEF OneSection
<1>14. CeilingInv
  <2>1. Bounded(0) /\ Bound(0) = Threshold /\ Low + ceiling = Threshold
    <3>1. 0 + Threshold = Threshold
      BY <1>3
    <3>2. QED
      BY <1>2, <1>4, <1>6, <3>1 DEF Bounded, Bound
  <2>2. \A k \in 0 .. Len(calls) : k = 0
    BY <1>5
  <2>3. 0 \in 0 .. Len(calls) /\ Threshold <= Threshold /\ ceiling \in Int
    BY <1>2, <1>3, <1>5
  <2>4. QED
    BY <2>1, <2>2, <2>3 DEF CeilingInv
<1>15. QED
  BY <1>1, <1>7, <1>8, <1>9, <1>10, <1>12, <1>13, <1>14 DEF CodecInv, EncoderInv

LEMMA CodecStep == CodecInv /\ [CNext]_vars => CodecInv'
<1> SUFFICES ASSUME EncoderInv, OneSection, CeilingInv, DecoderInv, [CNext]_vars
             PROVE  EncoderInv' /\ OneSection' /\ CeilingInv' /\ DecoderInv'
  BY DEF CodecInv
<1>1. CASE EncoderStep
  <2>1. EncoderInv' /\ phase # "done"
    BY <1>1, EncoderStepInv
  <2>2. UNCHANGED <<dvars, replayed>>
    BY <1>1 DEF EncoderStep
  <2>3. OneSection' /\ CeilingInv'
    BY <1>1, <2>1, OneSectionStep, CeilingStep
  <2>4. QED
    BY <2>1, <2>2, <2>3, DecoderWaits
<1>2. ASSUME UNCHANGED <<evars, calls, marks, ceiling>>
      PROVE  EncoderInv' /\ OneSection' /\ CeilingInv'
  <2>1. EncoderInv'
    BY <1>2, EncoderKept
  <2>2. UNCHANGED <<section, blocks, payload, value>>
    BY <1>2 DEF evars
  <2>3. OneSection'
    BY <1>2, <2>2 DEF OneSection, Exactly
  <2>4. CeilingInv'
    BY <1>2, <2>2 DEF CeilingInv, Bounded, Bound, LowAfter, WidthAfter, Low, Carry
  <2>5. QED
    BY <2>1, <2>3, <2>4
<1>3. CASE DecoderReadBit
  <2>1. UNCHANGED <<evars, calls, marks, ceiling>>
    BY <1>3 DEF DecoderReadBit
  <2>2. QED
    BY <1>2, <1>3, <2>1, ReadBitInv
<1>4. CASE DecoderPreBit \/ DecoderBit \/ DecoderWrongBit \/ DecoderEnd
  <2>1. UNCHANGED <<evars, calls, marks, ceiling>>
    BY <1>4 DEF DecoderPreBit, DecoderBit, DecoderWrongBit, DecoderEnd, Answered
  <2>2. QED
    BY <1>2, <1>4, <2>1, AnswersInv
<1>5. CASE UNCHANGED vars
  <2>1. UNCHANGED <<evars, calls, marks, ceiling, dvars, replayed>>
    BY <1>5 DEF vars
  <2>2. EncoderInv' /\ OneSection' /\ CeilingInv'
    BY <1>2, <2>1
  <2>3. Judged'
    <3>1. \A k : Accepts(k)' = Accepts(k) /\ Above(k)' = Above(k)
      BY <2>1, SameJudgement
    <3>2. Judged
      BY DEF DecoderInv
    <3>3. dPhase' = dPhase /\ replayed' = replayed
      BY <2>1 DEF dvars
    <3>4. QED
      BY <3>1, <3>2, <3>3 DEF Judged
  <2>4. DecoderInv'
    BY <2>1, <2>3 DEF DecoderInv, AtMark, InStep, WidthAfter, LowAfter, evars, dvars, Exactly
  <2>5. QED
    BY <2>2, <2>4
<1>6. QED
  BY <1>1, <1>3, <1>4, <1>5 DEF CNext

THEOREM CodecInvariant == CSpec => []CodecInv
<1>1. CInit => CodecInv
  BY CodecInit
<1>2. CodecInv /\ [CNext]_vars => CodecInv'
  BY CodecStep
<1>3. QED
  BY <1>1, <1>2, PTL DEF CSpec

\* What the MultiAsm and Standard encoders pack always comes out: no ASSERT of
\* the decoder fires and no bit is wrong.
THEOREM DecoderKeepsUp == CSpec => []DecoderFollows
<1>1. CodecInv => DecoderFollows
  <2> SUFFICES ASSUME CodecInv, Exactly, dPhase # "running" PROVE FALSE
    BY DEF DecoderFollows, Exactly
  <2>1. replayed \in 0 .. Len(calls) /\ ~Accepts(replayed)
    BY DEF CodecInv, DecoderInv, Judged
  <2>2. QED
    BY <2>1, ExactAccepts DEF CodecInv
<1>2. QED
  BY <1>1, CodecInvariant, PTL

\* In SingleAsm mode the ASSERTs of the decoder tell the streams it can follow
\* from the others.  The encoder's last low end, which is the number sent, is
\* below all that was given away exactly if ceiling is positive; the decoder
\* asks of every call whether the number is below what that call gave away.
THEOREM VerdictIsRight == CSpec => []SingleAsmVerdict
<1>1. CodecInv => SingleAsmVerdict
  <2> SUFFICES ASSUME CodecInv, phase = "done"
               PROVE  /\ ceiling > 0 => dPhase \in {"running", "ambiguous"}
                      /\ Unpacked => ceiling > 0
    BY DEF SingleAsmVerdict
  <2> USE DEF CodecInv
  <2>1. /\ ceiling \in Int /\ Low \in Nat /\ replayed \in 0 .. Len(calls) /\ Len(calls) \in Nat
        /\ \A k \in 0 .. Len(calls) : Bound(k) \in Nat
    <3>1. Low \in Nat
      BY EncoderFacts DEF EncoderInv
    <3>2. \A k \in 0 .. Len(calls) : Bound(k) \in Nat
      BY AfterFacts DEF EncoderInv, Bound
    <3>3. QED
      BY <3>1, <3>2 DEF EncoderInv, Types, CeilingInv, DecoderInv
  <2>2. ASSUME ceiling > 0, dPhase \notin {"running", "ambiguous"} PROVE FALSE
    <3>1. Bounded(replayed) /\ Bound(replayed) <= Low
      BY <2>2 DEF DecoderInv, Judged, Above
    <3>2. Low + ceiling <= Bound(replayed)
      BY <2>1, <3>1 DEF CeilingInv
    <3>3. QED
      BY <2>1, <2>2, <3>1, <3>2
  <2>3. ASSUME Unpacked PROVE ceiling > 0
    <3>1. dPhase = "running" /\ replayed = Len(calls)
      BY <2>1, <2>3 DEF Unpacked, D!Ready, More
    <3>2. PICK k \in 0 .. Len(calls) : Bounded(k) /\ Low + ceiling = Bound(k)
      BY DEF CeilingInv
    <3>3. Low < Bound(k)
      <4>1. CASE k = 0
        <5>1. 1 \in DOMAIN marks /\ marks[1].number = 0
          BY DEF EncoderInv, Types, Ends
        <5>2. Low < (0 + 1) * marks[1].unit /\ marks[1].unit \in Nat
          BY <5>1, AtTheEnd, MarkFacts DEF EncoderInv
        <5>3. QED
          BY <4>1, <5>2 DEF Bound, LowAfter, WidthAfter
      <4>2. CASE k # 0
        <5>1. k \in 1 .. replayed
          BY <2>1, <3>1, <4>2
        <5>2. ~Above(k)
          BY <3>1, <5>1 DEF DecoderInv, Judged, Accepts
        <5>3. QED
          BY <2>1, <3>2, <5>2 DEF Above
      <4>3. QED
        BY <4>1, <4>2
    <3>4. QED
      BY <2>1, <3>2, <3>3
  <2>4. QED
    BY <2>2, <2>3
<1>2. QED
  BY <1>1, CodecInvariant, PTL

\* The decoder reads no bit behind the stream, and the last one it reads is the
\* last one sent.
THEOREM WholeStream == CSpec => []ReadsWhatWasSent
<1>1. CodecInv => ReadsWhatWasSent
  <2> SUFFICES ASSUME EncoderInv, DecoderInv PROVE ReadsWhatWasSent
    BY DEF CodecInv
  <2> USE DEF EncoderInv
  <2>1. PICK j \in DOMAIN marks : AtMark(j)
    BY DEF DecoderInv
  <2>2. /\ DOMAIN marks = 1 .. Len(marks) /\ Len(marks) \in Nat /\ Len(dest) \in Nat
        /\ dest \in Seq({0, 1})
    BY DEF Types, Inv, TypeOK
  <2>3. dSrcPos <= Len(dest)
    <3>1. CASE j = 1
      BY <2>1, <2>2, <3>1 DEF Ends, AtMark
    <3>2. CASE j # 1
      <4>1. j - 1 \in 1 .. Len(marks) - 1 /\ (j - 1) + 1 = j
        BY <2>2, <3>2
      <4>2. Follows(dest, marks[j - 1], marks[j])
        BY <4>1 DEF Sent
      <4>3. QED
        BY <2>1, <4>2 DEF Follows, AtMark
    <3>3. QED
      BY <3>1, <3>2
  <2>4. ASSUME Unpacked PROVE dSrcPos = Len(dest)
    <3>1. /\ phase = "done" /\ dRange \in Threshold .. (2 * Threshold - 1)
          /\ replayed = Len(calls) /\ dPhase = "running"
      <4>1. Threshold \in Nat /\ Len(calls) \in Nat
        BY Widths DEF Types
      <4>2. QED
        BY <2>4, <4>1 DEF Unpacked, D!Ready, DecoderInv, More
    <3>2. PICK r \in Threshold .. (2 * Threshold - 1) : WidthAfter(Len(calls)) = r * Carry
      BY <3>1, AtTheEnd
    <3>3. dRange * marks[j].unit = r * Carry
      BY <2>1, <3>1, <3>2 DEF AtMark, InStep
    <3>4. marks[j].unit = Carry
      <4>1. marks[j].unit \in Powers /\ Carry \in Powers /\ Threshold \in Nat /\ Threshold > 0
        BY MarkFacts, Sizes, Widths
      <4>2. QED
        BY <3>1, <3>3, <4>1, SameMantissa
    <3>5. j = Len(marks)
      <4> SUFFICES ASSUME j # Len(marks) PROVE FALSE
        OBVIOUS
      <4>1. j \in 1 .. Len(marks) - 1 /\ j + 1 \in DOMAIN marks
        BY <2>2
      <4>2. Follows(dest, marks[j], marks[j + 1])
        BY <4>1 DEF Sent
      <4>3. Carry = 2 * marks[j + 1].unit
        BY <3>4, <4>2 DEF Follows
      <4>4. marks[j + 1].unit >= Carry /\ marks[j + 1].unit \in Nat /\ marks[j + 1].unit >= 1
        BY <3>1, <4>1, AtTheEnd, MarkFacts
      <4>5. QED
        BY <4>3, <4>4
    <3>6. LastMark.pos = Len(dest)
      BY <3>1 DEF Ends
    <3>7. QED
      BY <2>1, <3>5, <3>6 DEF AtMark, LastMark
  <2>5. QED
    BY <2>3, <2>4 DEF ReadsWhatWasSent
<1>2. QED
  BY <1>1, CodecInvariant, PTL

\* The decoder asks the compressor model with the range the encoder had.
THEOREM SameRange == CSpec => []MirrorRange
<1>1. CodecInv => MirrorRange
  <2> SUFFICES ASSUME EncoderInv, DecoderInv, phase = "done", D!Ready, More PROVE dRange = Asked.range
    BY DEF CodecInv, MirrorRange
  <2>1. PICK j \in DOMAIN marks : AtMark(j)
    BY DEF DecoderInv
  <2>2. /\ dRange \in Threshold .. (2 * Threshold - 1) /\ dValue \in Int
        /\ replayed \in 0 .. Len(calls) /\ replayed < Len(calls)
    BY Widths DEF DecoderInv, D!Ready, More
  <2>3. InStep(dRange, dValue, j, replayed)
    BY <2>1 DEF AtMark, D!Ready
  <2>4. QED
    BY <2>2, <2>3, NextCall DEF Asked
<1>2. QED
  BY <1>1, CodecInvariant, PTL

-----------------------------------------------------------------------------
(***************************************************************************)
(* The unpacker, too, for every word size, every number of blocks and      *)
(* all sub-ranges.                                                         *)
(*                                                                         *)
(* The unpacker of the intro only looks on while the encoder and the C++   *)
(* decoder run: what holds of the two without it holds of all three.  It   *)
(* is then in step with the encoder in the sense of what is above, in      *)
(* the single section mode as long as the calls are Accepted; what has to  *)
(* be added is where its bits come from (the sentinel in the byte at ebx), *)
(* what ebp had in it at first, and how it counts: bytes of blocks in the  *)
(* multi section mode, symbols of a byte in the single section mode.       *)
(***************************************************************************)

LEMMA CodecOfAll == ASpec => CSpec
<1>1. AInit => CInit
  BY DEF AInit
<1>2. [ANext]_allvars => [CNext]_vars
  BY DEF ANext, Codec, Load, AsmRead, AsmSymbol, AsmTerminating, allvars
<1>3. QED
  BY <1>1, <1>2, PTL DEF ASpec, CSpec

\* What the MultiAsm and Standard encoders pack, with the calls that
\* BlockCodec makes, always comes out of the C++ decoder: no ASSERT fires and
\* no bit is wrong.
THEOREM MultiAndStandardUnpack == ASpec => []DecoderFollows
BY CodecOfAll, DecoderKeepsUp, PTL

\* The ASSERTs of the C++ decoder turn a single section stream down exactly if
\* its number is one that the encoder has given away, or if a symbol of it would
\* look like the end of the data.
THEOREM SingleJudged == ASpec => []SingleAsmVerdict
BY CodecOfAll, VerdictIsRight, PTL

\* The decoder asks the compressor model for every sub-range with the range the
\* encoder had when it asked, in all modes and as long as it has not given up.
THEOREM SameQuestions == ASpec => []MirrorRange
BY CodecOfAll, SameRange, PTL

\* ... and takes from the stream what is in it, neither more nor less.
THEOREM StreamUsedUp == ASpec => []ReadsWhatWasSent
BY CodecOfAll, WholeStream, PTL

\* Finalize drains the register in every mode.
THEOREM AlwaysDrained == ASpec => []RegisterDrained
<1>1. CSpec => Spec
  <2>1. CInit => Init
    BY DEF CInit
  <2>2. [CNext]_vars => [ENext]_evars
    BY DEF CNext, EncoderStep, Narrowing, Plain, ENext, vars, DecoderReadBit, DecoderPreBit,
           DecoderBit, DecoderWrongBit, DecoderEnd, Answered
  <2>3. QED
    BY <2>1, <2>2, PTL DEF CSpec, Spec
<1>2. QED
  BY <1>1, CodecOfAll, FinalizeSuffices, PTL

-----------------------------------------------------------------------------
(* Where the bits of the number are in the stream.                         *)

\* How many bits of the stream have been looked at when the bits up to mark j
\* have been read; the start bit counts from the beginning.
Place(j) == IF j <= StreamByte - 2 THEN j ELSE j + 2

LEMMA ByteSize == StreamByte \in Nat /\ StreamByte >= 4
BY WidthAssumption

LEMMA MarkPlaces ==
  ASSUME EncoderInv, Framed
  PROVE  \A j \in DOMAIN marks : j >= 2 => marks[j].pos = Place(j)
<1> USE DEF EncoderInv
<1>1. marks \in Seq(MarkTypes) /\ DOMAIN marks = 1 .. Len(marks) /\ Len(marks) \in Nat
      /\ marks[1].pos = 0
  BY DEF Types, Ends
<1> DEFINE T == {n \in Nat : n + 2 \in DOMAIN marks => marks[n + 2].pos = Place(n + 2)}
<1>2. ASSUME NEW j \in DOMAIN marks, NEW i \in DOMAIN marks, i = j + 1
      PROVE  marks[i].pos = marks[j].pos + Len(FramingAt(marks[j].pos)) + 1
  <2>1. j \in 1 .. Len(marks) - 1
    BY <1>1, <1>2
  <2>2. Follows(dest, marks[j], marks[j + 1])
    BY <2>1 DEF Sent
  <2>3. Follows(dest, marks[j], marks[i])
    BY <1>2, <2>2
  <2>4. QED
    BY <2>3 DEF Follows
<1>3. Len(<<>>) = 0 /\ Len(<<0>>) = 1 /\ Len(<<1, 0>>) = 2
  OBVIOUS
<1>4. 0 \in T
  <2> SUFFICES ASSUME 2 \in DOMAIN marks PROVE marks[2].pos = Place(2)
    OBVIOUS
  <2>1. 1 \in DOMAIN marks /\ 1 + 1 = 2
    BY <1>1
  <2>2. Len(FramingAt(marks[1].pos)) = 1
    BY <1>1, <1>3 DEF FramingAt
  <2>3. marks[2].pos = 2
    <3>1. marks[2].pos = marks[1].pos + Len(FramingAt(marks[1].pos)) + 1
      BY <1>2, <2>1
    <3>2. QED
      BY <1>1, <2>2, <3>1
  <2>4. QED
    BY <2>3, ByteSize DEF Place
<1>5. ASSUME NEW n \in T PROVE n + 1 \in T
  <2> SUFFICES ASSUME (n + 1) + 2 \in DOMAIN marks PROVE marks[(n + 1) + 2].pos = Place((n + 1) + 2)
    OBVIOUS
  <2>1. n \in Nat /\ n + 2 \in DOMAIN marks /\ (n + 1) + 2 = (n + 2) + 1
    BY <1>1
  <2>2. marks[n + 2].pos = Place(n + 2)
    BY <2>1
  <2>3. marks[(n + 1) + 2].pos = Place(n + 2) + Len(FramingAt(Place(n + 2))) + 1
    BY <1>2, <2>1, <2>2
  <2>4. CASE n + 2 = StreamByte - 2
    <3>1. Place(n + 2) = StreamByte - 2 /\ Place(n + 2) # 0
      BY <2>1, <2>4, ByteSize DEF Place
    <3>2. Len(FramingAt(Place(n + 2))) = 2
      BY <1>3, <3>1 DEF FramingAt
    <3>3. QED
      <4>1. marks[(n + 1) + 2].pos = StreamByte + 1
        <5>1. marks[(n + 1) + 2].pos = (StreamByte - 2) + 2 + 1
          BY <2>3, <3>1, <3>2
        <5>2. QED
          BY <5>1, ByteSize
      <4>2. (n + 1) + 2 = StreamByte - 1 /\ Place(StreamByte - 1) = StreamByte + 1
        BY <2>1, <2>4, ByteSize DEF Place
      <4>3. QED
        BY <4>1, <4>2
  <2>5. CASE n + 2 # StreamByte - 2
    <3>1. Place(n + 2) # StreamByte - 2 /\ Place(n + 2) # 0
      BY <2>1, <2>5, ByteSize DEF Place
    <3>2. Len(FramingAt(Place(n + 2))) = 0
      BY <1>3, <3>1 DEF FramingAt
    <3>3. QED
      BY <2>1, <2>3, <2>5, <3>2, ByteSize DEF Place
  <2>6. QED
    BY <2>4, <2>5
<1>6. T = Nat
  <2>1. T \in SUBSET Nat
    OBVIOUS
  <2> HIDE DEF T
  <2>2. QED
    BY <1>4, <1>5, <2>1, SetInduction
<1>7. ASSUME NEW j \in DOMAIN marks, j >= 2 PROVE marks[j].pos = Place(j)
  <2>1. j - 2 \in Nat /\ (j - 2) + 2 = j
    BY <1>1, <1>7
  <2>2. QED
    BY <1>6, <2>1
<1>8. QED
  BY <1>7

\* Finalize doubles often enough for the framing to be complete, however little
\* was packed.
Doublings ==
  phase \in {"flushing", "done"} => Len(marks) - 1 + WarmUp - bitCount >= Drains

LEMMA DoublingsInv ==
  ASSUME EncoderInv, EncoderInv', Doublings, EncoderStep
  PROVE  Doublings'
<1> USE DEF EncoderInv
<1>1. /\ Len(marks) \in Nat /\ Len(marks) >= 1 /\ WarmUp \in Nat /\ bitCount \in 0 .. WarmUp
      /\ flushed \in 0 .. FlushBits /\ FlushBits \in Nat /\ Threshold \in Nat
      /\ range \in 1 .. (2 * Threshold - 1)
  <2>1. Len(marks) \in Nat /\ Len(marks) >= 1
    <3>1. marks \in Seq(MarkTypes) /\ marks # <<>>
      BY DEF Types
    <3>2. QED
      BY <3>1
  <2>2. QED
    BY <2>1, EncoderFacts, Widths DEF Inv, TypeOK
<1>2. dest' \in Seq({0, 1}) /\ payload' \in Nat
  BY DEF Inv, TypeOK
<1>3. Len(marks') \in Nat
  <2>1. marks' \in Seq(MarkTypes)
    BY DEF Types
  <2>2. QED
    BY <2>1
<1>4. CASE (Shift /\ Doubling /\ marks' = Marked) \/ (SendBit /\ Doubling /\ marks' = Append(Marked, Mark))
  <2>1. /\ Len(marks') - bitCount' = Len(marks) - bitCount + 1
        /\ phase' = phase /\ flushed' = flushed /\ range' = 2 * range /\ range < Threshold
        /\ bitCount' \in Int
    <3>1. CASE Shift /\ Doubling /\ marks' = Marked
      <4>1. Len(marks') = Len(marks)
        BY <1>2, <3>1, DoublingScales
      <4>2. QED
        BY <1>1, <3>1, <4>1 DEF Shift, Looping
    <3>2. CASE SendBit /\ Doubling /\ marks' = Append(Marked, Mark)
      <4>1. Len(marks') = Len(marks) + 1
        BY <1>2, <3>2, DoublingScales
      <4>2. QED
        BY <1>1, <3>2, <4>1 DEF SendBit, Looping
    <3>3. QED
      BY <1>4, <3>1, <3>2
  <2>2. Drains = flushed - 1 /\ Drains' \in {flushed, flushed - 1}
    BY <1>1, <2>1 DEF Drains
  <2>3. ASSUME phase \in {"flushing", "done"}
        PROVE  Len(marks') - 1 + WarmUp - bitCount' >= Drains'
    <3>1. Len(marks) - 1 + WarmUp - bitCount >= flushed - 1
      BY <2>2, <2>3 DEF Doublings
    <3>2. Len(marks') - 1 + WarmUp - bitCount' >= flushed
      BY <1>1, <1>3, <2>1, <3>1
    <3>3. QED
      BY <1>1, <1>3, <2>1, <2>2, <3>2
  <2>4. QED
    BY <2>1, <2>3 DEF Doublings
<1>5. CASE Narrowing /\ marks' = marks
  <2>1. phase' = phase /\ phase = "coding"
    BY <1>5 DEF Narrowing, PreEncode, Encode, EndSection, Ready
  <2>2. QED
    BY <2>1 DEF Doublings
<1>6. CASE Plain /\ UNCHANGED <<calls, marks, ceiling>>
  <2>1. CASE FinalizeStart
    <3>1. flushed = 0 /\ flushed' = 0 /\ bitCount' = bitCount /\ marks' = marks /\ range' = range
      BY <1>6, <2>1 DEF FinalizeStart, Ready, Draining
    <3>2. Drains' = 0
      BY <2>1, <3>1 DEF Drains, FinalizeStart, Ready
    <3>3. QED
      BY <1>1, <3>1, <3>2 DEF Doublings
  <2>2. CASE FinalizeStep
    <3>1. /\ phase = "flushing" /\ range >= Threshold /\ range' = range \div 2
          /\ flushed' = flushed + 1 /\ bitCount' = bitCount /\ marks' = marks
      BY <1>6, <2>2 DEF FinalizeStep
    <3>2. range' < Threshold /\ range' \in Int
      BY <1>1, <3>1
    <3>3. Drains = flushed /\ Drains' = flushed
      BY <1>1, <3>1, <3>2 DEF Drains
    <3>4. QED
      BY <3>1, <3>3 DEF Doublings
  <2>3. CASE FinalizeEnd
    <3>1. /\ phase = "flushing" /\ UNCHANGED <<range, flushed, bitCount, marks>>
      BY <1>6, <2>3 DEF FinalizeEnd
    <3>2. QED
      BY <3>1 DEF Doublings, Drains
  <2>4. CASE ~(FinalizeStart \/ FinalizeStep \/ FinalizeEnd)
    <3>1. phase' \notin {"flushing", "done"}
      BY <1>6, <2>4 DEF Plain, Overflow, ProbabilityError, PreEncodeNothing, Ready
    <3>2. QED
      BY <3>1 DEF Doublings
  <2>5. QED
    BY <2>1, <2>2, <2>3, <2>4
<1>7. QED
  BY <1>4, <1>5, <1>6 DEF EncoderStep

\* When the encoder is done the three framing bits are in the stream, and at
\* least one byte more has been begun.
LEMMA FramingComplete ==
  ASSUME EncoderInv, Doublings, Framed, phase = "done"
  PROVE  /\ Len(dest) \in Nat /\ Len(dest) >= StreamByte + 1
         /\ dest[1] = 0 /\ dest[StreamByte - 1] = 1 /\ dest[StreamByte] = 0
<1> USE DEF EncoderInv
<1>1. DOMAIN marks = 1 .. Len(marks) /\ Len(marks) \in Nat /\ marks[1].pos = 0
  BY DEF Types, Ends
<1>2. Drains = FlushBits /\ bitCount = 0
  BY DrainingEnds
<1>3. Len(marks) >= StreamByte - 1
  <2>1. Len(marks) - 1 + WarmUp - 0 >= FlushBits
    BY <1>2 DEF Doublings
  <2>2. QED
    BY <1>1, <2>1, FramingAssumption, Widths, ByteSize
<1>4. ASSUME NEW j \in 1 .. Len(marks) - 1
      PROVE  Follows(dest, marks[j], marks[j + 1])
  BY DEF Sent
<1>5. dest[1] = 0
  <2>1. 1 \in 1 .. Len(marks) - 1
    BY <1>1, <1>3, ByteSize
  <2>2. \A i \in 1 .. Len(FramingAt(0)) : dest[0 + i] = FramingAt(0)[i]
    BY <1>1, <1>4, <2>1 DEF Follows
  <2>3. FramingAt(0) = <<0>> /\ 1 \in 1 .. Len(<<0>>) /\ <<0>>[1] = 0 /\ 0 + 1 = 1
    BY DEF FramingAt
  <2>4. QED
    BY <2>2, <2>3
<1> DEFINE m == marks[StreamByte - 2]
           n == marks[(StreamByte - 2) + 1]
<1>6. /\ m.pos = StreamByte - 2 /\ Follows(dest, m, n)
  <2>1. /\ StreamByte - 2 \in 1 .. Len(marks) - 1 /\ StreamByte - 2 \in DOMAIN marks
        /\ StreamByte - 2 >= 2 /\ Place(StreamByte - 2) = StreamByte - 2
    BY <1>1, <1>3, ByteSize DEF Place
  <2>2. QED
    BY <1>4, <2>1, MarkPlaces
<1> HIDE DEF m, n
<1>7. FramingAt(StreamByte - 2) = <<1, 0>> /\ Len(<<1, 0>>) = 2 /\ <<1, 0>>[1] = 1 /\ <<1, 0>>[2] = 0
  BY ByteSize DEF FramingAt
<1>8. /\ n.pos = (StreamByte - 2) + 2 + 1 /\ n.pos <= Len(dest)
      /\ \A i \in 1 .. 2 : dest[(StreamByte - 2) + i] = <<1, 0>>[i]
  BY <1>6, <1>7 DEF Follows
<1>9. Len(dest) \in Nat
  BY DEF Inv, TypeOK
<1>10. (StreamByte - 2) + 1 = StreamByte - 1 /\ (StreamByte - 2) + 2 = StreamByte
       /\ 1 \in 1 .. 2 /\ 2 \in 1 .. 2
  BY ByteSize
<1>11. dest[StreamByte - 1] = 1
  BY <1>7, <1>8, <1>10
<1>12. dest[StreamByte] = 0
  BY <1>7, <1>8, <1>10
<1>13. QED
  BY <1>5, <1>8, <1>9, <1>11, <1>12, ByteSize

\* The bit that leads to a mark is the one at its place.
LEMMA NextPlace ==
  ASSUME EncoderInv, Framed, NEW j \in DOMAIN marks, j + 1 \in DOMAIN marks
  PROVE  marks[j + 1].pos = Place(j + 1)
<1>1. j + 1 >= 2
  BY DEF EncoderInv, Types
<1>2. QED
  BY <1>1, MarkPlaces

-----------------------------------------------------------------------------
(* The bytes in memory.                                                    *)

\* A byte of the stream after t of its bits have been shifted out: zeros come in
\* from below, behind the sentinel if the byte before has passed it on.
Remaining(a, t) ==
  [k \in 1 .. StreamByte |->
     IF k + t <= StreamByte THEN Byte(dest, a)[k + t]
     ELSE IF a > 0 /\ k + t = StreamByte + 1 THEN 1 ELSE 0]

\* The unpacker has looked at the first s bits of the stream.
LookedAt(s) ==
  /\ ptr \in Nat /\ DOMAIN mem = DOMAIN Bytes(dest)
  /\ \A a \in DOMAIN mem : a > ptr => mem[a] = Byte(dest, a)
  /\ IF s = 0 THEN ptr = 0 ELSE s - ptr * StreamByte \in 1 .. StreamByte
  /\ mem[ptr] = Remaining(ptr, s - ptr * StreamByte)

\* An address holds a byte of the stream when its first bit is one of it.
LEMMA Addresses ==
  ASSUME NEW a \in Nat, Len(dest) \in Nat, StreamByte * a + 1 <= Len(dest)
  PROVE  a \in DOMAIN Bytes(dest) /\ a <= (Len(dest) - 1) \div StreamByte
<1>1. \A q, n, d \in Nat : d >= 4 /\ d * q <= n => q <= n \div d /\ n \div d \in Nat
  OBVIOUS
<1>2. Len(dest) - 1 \in Nat /\ StreamByte * a <= Len(dest) - 1
  BY ByteSize
<1>3. a <= (Len(dest) - 1) \div StreamByte /\ (Len(dest) - 1) \div StreamByte \in Nat
  BY <1>1, <1>2, ByteSize
<1>4. QED
  BY <1>3 DEF Bytes

\* shl takes out one bit more; rcl also passes the sentinel on.
LEMMA ShlTakesOne ==
  ASSUME NEW a \in Nat, NEW t \in 0 .. StreamByte - 1, a = 0 \/ t >= 1
  PROVE  /\ A!Shifted(Remaining(a, t), 0) = Remaining(a, t + 1)
         /\ Remaining(a, t)[1] = Byte(dest, a)[t + 1]
<1>1. ASSUME NEW k \in 1 .. StreamByte
      PROVE  A!Shifted(Remaining(a, t), 0)[k] = Remaining(a, t + 1)[k]
  <2>1. CASE k = StreamByte
    BY <2>1, ByteSize DEF A!Shifted, Remaining
  <2>2. CASE k # StreamByte
    <3>1. k + 1 \in 1 .. StreamByte /\ (k + 1) + t = k + (t + 1)
      BY <2>2, ByteSize
    <3>2. A!Shifted(Remaining(a, t), 0)[k] = Remaining(a, t)[k + 1]
      BY <2>2 DEF A!Shifted
    <3>3. QED
      BY <3>1, <3>2 DEF Remaining
  <2>3. QED
    BY <2>1, <2>2
<1>2. A!Shifted(Remaining(a, t), 0) = Remaining(a, t + 1)
  BY <1>1 DEF A!Shifted, Remaining
<1>3. 1 \in 1 .. StreamByte /\ 1 + t <= StreamByte /\ 1 + t = t + 1
  BY ByteSize
<1>4. Remaining(a, t)[1] = Byte(dest, a)[t + 1]
  BY <1>3 DEF Remaining
<1>5. QED
  BY <1>2, <1>4

LEMMA RclPassesSentinel ==
  ASSUME NEW a \in Nat, a > 0
  PROVE  A!Shifted(Byte(dest, a), 1) = Remaining(a, 1)
<1>1. ASSUME NEW k \in 1 .. StreamByte
      PROVE  A!Shifted(Byte(dest, a), 1)[k] = Remaining(a, 1)[k]
  <2>1. CASE k = StreamByte
    BY <2>1, ByteSize DEF A!Shifted, Remaining
  <2>2. CASE k # StreamByte
    <3>1. k + 1 \in 1 .. StreamByte /\ k + 1 <= StreamByte
      BY <2>2, ByteSize
    <3>2. QED
      BY <2>2, <3>1 DEF A!Shifted, Remaining
  <2>3. QED
    BY <2>1, <2>2
<1>2. QED
  BY <1>1 DEF A!Shifted, Remaining

\* The sentinel is still in a byte exactly as long as it has bits of the stream:
\* in the first byte the anchor bit plays its part.
LEMMA SentinelShows ==
  ASSUME Len(dest) \in Nat, Len(dest) >= StreamByte + 1,
         dest[StreamByte - 1] = 1, dest[StreamByte] = 0,
         NEW a \in Nat, NEW t \in 0 .. StreamByte, a = 0 => t <= StreamByte - 2, a > 0 => t >= 1,
         mem[ptr] = Remaining(a, t)
  PROVE  LET last == IF a = 0 THEN StreamByte - 2 ELSE StreamByte
         IN  /\ t < last => ~A!ByteEmpty
             /\ t = last => A!ByteEmpty /\ mem[ptr][1] = 1
<1> DEFINE last == IF a = 0 THEN StreamByte - 2 ELSE StreamByte
<1>1. \A k \in 1 .. StreamByte :
        mem[ptr][k] = IF k + t <= StreamByte THEN Byte(dest, a)[k + t]
                      ELSE IF a > 0 /\ k + t = StreamByte + 1 THEN 1 ELSE 0
  BY DEF Remaining
<1>2. a = 0 => Byte(dest, a)[StreamByte - 1] = 1 /\ Byte(dest, a)[StreamByte] = 0
  <2> SUFFICES ASSUME a = 0
               PROVE  Byte(dest, a)[StreamByte - 1] = 1 /\ Byte(dest, a)[StreamByte] = 0
    OBVIOUS
  <2>1. /\ StreamByte - 1 \in 1 .. StreamByte /\ StreamByte \in 1 .. StreamByte
        /\ StreamByte * a + (StreamByte - 1) = StreamByte - 1
        /\ StreamByte * a + StreamByte = StreamByte
        /\ StreamByte - 1 <= Len(dest) /\ StreamByte <= Len(dest)
    BY ByteSize
  <2>2. QED
    BY <2>1 DEF Byte
<1>3. ASSUME t < last PROVE ~A!ByteEmpty
  <2>1. CASE a = 0
    <3>1. StreamByte - 1 - t \in 2 .. StreamByte /\ StreamByte - 1 - t \in 1 .. StreamByte
          /\ (StreamByte - 1 - t) + t = StreamByte - 1 /\ StreamByte - 1 <= StreamByte
      BY <1>3, <2>1, ByteSize
    <3>2. mem[ptr][StreamByte - 1 - t] = 1
      BY <1>1, <1>2, <2>1, <3>1
    <3>3. QED
      BY <3>1, <3>2 DEF A!ByteEmpty
  <2>2. CASE a > 0
    <3>1. StreamByte + 1 - t \in 2 .. StreamByte /\ StreamByte + 1 - t \in 1 .. StreamByte
          /\ (StreamByte + 1 - t) + t = StreamByte + 1 /\ ~(StreamByte + 1 <= StreamByte)
      BY <1>3, <2>2, ByteSize
    <3>2. mem[ptr][StreamByte + 1 - t] = 1
      BY <1>1, <2>2, <3>1
    <3>3. QED
      BY <3>1, <3>2 DEF A!ByteEmpty
  <2>3. QED
    BY <2>1, <2>2
<1>4. ASSUME t = last PROVE A!ByteEmpty /\ mem[ptr][1] = 1
  <2>1. CASE a = 0
    <3>1. t = StreamByte - 2
      BY <1>4, <2>1
    <3>2. /\ 1 \in 1 .. StreamByte /\ 1 + t = StreamByte - 1 /\ StreamByte - 1 <= StreamByte
          /\ 2 + t = StreamByte
      BY <3>1, ByteSize
    <3>3. mem[ptr][1] = 1
      BY <1>1, <1>2, <2>1, <3>2
    <3>4. ASSUME NEW k \in 2 .. StreamByte PROVE mem[ptr][k] = 0
      <4>1. k \in 1 .. StreamByte
        OBVIOUS
      <4>2. CASE k = 2
        <5>1. 2 \in 1 .. StreamByte /\ StreamByte <= StreamByte
          BY ByteSize
        <5>2. QED
          BY <1>1, <1>2, <2>1, <3>2, <4>2, <5>1
      <4>3. CASE k # 2
        <5>1. ~(k + t <= StreamByte)
          BY <3>1, <4>3, ByteSize
        <5>2. QED
          BY <1>1, <2>1, <4>1, <5>1
      <4>4. QED
        BY <4>2, <4>3
    <3>5. QED
      BY <3>3, <3>4 DEF A!ByteEmpty
  <2>2. CASE a > 0
    <3>1. t = StreamByte
      BY <1>4, <2>2
    <3>2. 1 \in 1 .. StreamByte /\ 1 + t = StreamByte + 1 /\ ~(1 + t <= StreamByte)
      BY <3>1, ByteSize
    <3>3. mem[ptr][1] = 1
      BY <1>1, <2>2, <3>2
    <3>4. ASSUME NEW k \in 2 .. StreamByte PROVE mem[ptr][k] = 0
      <4>1. k \in 1 .. StreamByte /\ ~(k + t <= StreamByte) /\ k + t # StreamByte + 1
        BY <3>1, ByteSize
      <4>2. QED
        BY <1>1, <4>1
    <3>5. QED
      BY <3>3, <3>4 DEF A!ByteEmpty
  <2>3. QED
    BY <2>1, <2>2
<1>5. QED
  BY <1>3, <1>4

\* The number of bits looked at when the next bit of the number has been taken:
\* the sentinel jumps over the rest of the first byte.
Onward(s) == IF s = StreamByte - 2 THEN StreamByte + 1 ELSE s + 1

LEMMA PlacesOnward ==
  ASSUME NEW j \in Nat, j >= 1
  PROVE  Place(j + 1) = Onward(Place(j)) /\ Place(j) \notin {0, StreamByte - 1, StreamByte}
         /\ Place(j) \in Nat
BY ByteSize DEF Place, Onward

\* Whichever way normalize_loop takes, it is the bit that follows in the stream
\* that goes into the value.
LEMMA TakesTheNext ==
  ASSUME EncoderInv, Doublings, Framed, phase = "done", dest' = dest,
         NEW s \in Nat, s \notin {StreamByte - 1, StreamByte}, Onward(s) <= Len(dest), LookedAt(s),
         A!ReadBit \/ A!ReadBitOfNextByte
  PROVE  LookedAt(Onward(s))' /\ A!Take(dest[Onward(s)])
<1> DEFINE t == s - ptr * StreamByte
           last == IF ptr = 0 THEN StreamByte - 2 ELSE StreamByte
<1>1. /\ Len(dest) \in Nat /\ Len(dest) >= StreamByte + 1
      /\ dest[StreamByte - 1] = 1 /\ dest[StreamByte] = 0
  BY FramingComplete
<1>2. ptr \in Nat /\ ptr * StreamByte \in Nat
  <2>1. ptr \in Nat
    BY DEF LookedAt
  <2>2. QED
    BY <2>1, ByteSize
<1>3. /\ t \in 0 .. StreamByte /\ (ptr = 0 => t <= StreamByte - 2 /\ t = s) /\ (ptr > 0 => t >= 1)
      /\ s = ptr * StreamByte + t
  <2>1. CASE s = 0
    <3>1. ptr = 0 /\ 0 * StreamByte = 0
      BY <2>1, ByteSize DEF LookedAt
    <3>2. QED
      BY <2>1, <3>1, ByteSize
  <2>2. CASE s # 0
    <3>1. t \in 1 .. StreamByte
      BY <2>2 DEF LookedAt
    <3>2. ptr = 0 => t = s
      <4>1. 0 * StreamByte = 0
        BY ByteSize
      <4>2. QED
        BY <4>1
    <3>3. QED
      BY <1>2, <3>1, <3>2, ByteSize
  <2>3. QED
    BY <2>1, <2>2
<1>4. mem[ptr] = Remaining(ptr, t) /\ DOMAIN mem = DOMAIN Bytes(dest)
      /\ \A a \in DOMAIN mem : a > ptr => mem[a] = Byte(dest, a)
  BY DEF LookedAt
<1> HIDE DEF t
<1>5. (t < last => ~A!ByteEmpty) /\ (t = last => A!ByteEmpty /\ mem[ptr][1] = 1) /\ (t < last \/ t = last)
  <2>1. t < last \/ t = last
    BY <1>2, <1>3, ByteSize
  <2>2. QED
    BY <1>1, <1>2, <1>3, <1>4, <2>1, SentinelShows
<1>6. CASE t < last
  <2>1. A!ReadBit
    BY <1>5, <1>6 DEF A!ReadBitOfNextByte
  <2>2. /\ t + 1 \in 1 .. StreamByte /\ t \in 0 .. StreamByte - 1 /\ (ptr = 0 \/ t >= 1)
    BY <1>2, <1>3, <1>6, ByteSize
  <2>3. Onward(s) = s + 1 /\ s + 1 = StreamByte * ptr + (t + 1) /\ (s + 1) - ptr * StreamByte = t + 1
    <3>1. s # StreamByte - 2
      <4>1. CASE ptr = 0
        BY <1>3, <1>6, <4>1, ByteSize
      <4>2. CASE ptr # 0
        <5>1. ptr >= 1 /\ ptr * StreamByte >= StreamByte
          BY <1>2, <4>2, ByteSize
        <5>2. QED
          BY <1>2, <1>3, <5>1, ByteSize
      <4>3. QED
        BY <4>1, <4>2
    <3>2. StreamByte * ptr = ptr * StreamByte
      BY <1>2, ByteSize
    <3>3. QED
      BY <1>2, <1>3, <3>1, <3>2, ByteSize DEF Onward
  <2>4. /\ A!Shifted(mem[ptr], 0) = Remaining(ptr, t + 1)
        /\ mem[ptr][1] = Byte(dest, ptr)[t + 1]
    BY <1>2, <1>4, <2>2, ShlTakesOne
  <2>5. Byte(dest, ptr)[t + 1] = dest[Onward(s)]
    <3>1. StreamByte * ptr + (t + 1) <= Len(dest)
      BY <2>3
    <3>2. QED
      BY <2>2, <2>3, <3>1 DEF Byte
  <2>6. mem' = [mem EXCEPT ![ptr] = Remaining(ptr, t + 1)] /\ ptr' = ptr /\ A!Take(mem[ptr][1])
    BY <2>1, <2>4 DEF A!ReadBit
  <2>7. ptr \in DOMAIN mem
    <3>1. StreamByte * ptr + 1 <= Len(dest)
      <4>1. StreamByte * ptr \in Nat
        BY <1>2, ByteSize
      <4>2. QED
        BY <1>1, <1>3, <2>2, <2>3, <4>1
    <3>2. QED
      BY <1>1, <1>2, <1>4, <3>1, Addresses
  <2>8. /\ DOMAIN mem' = DOMAIN mem /\ mem'[ptr] = Remaining(ptr, t + 1)
        /\ \A a \in DOMAIN mem' : a > ptr' => mem'[a] = Byte(dest, a)
    BY <1>2, <1>4, <2>6, <2>7
  <2>9. LookedAt(Onward(s))'
    <3>1. Bytes(dest)' = Bytes(dest) /\ \A a, x : Remaining(a, x)' = Remaining(a, x)
      BY DEF Bytes, Remaining, Byte
    <3>2. Onward(s)' = s + 1 /\ s + 1 # 0 /\ \A a : Byte(dest, a)' = Byte(dest, a)
      BY <2>3 DEF Onward, Byte
    <3>3. QED
      BY <1>2, <1>4, <2>2, <2>3, <2>6, <2>8, <3>1, <3>2 DEF LookedAt
  <2>10. QED
    BY <2>4, <2>5, <2>6, <2>9
<1>7. CASE t = last
  <2>1. A!ReadBitOfNextByte /\ mem[ptr][1] = 1
    BY <1>5, <1>7 DEF A!ReadBit
  <2>2. ptr + 1 \in Nat /\ ptr + 1 > 0 /\ Onward(s) = StreamByte * (ptr + 1) + 1
        /\ Onward(s) - (ptr + 1) * StreamByte = 1 /\ Onward(s) # 0
    <3>1. StreamByte * (ptr + 1) = ptr * StreamByte + StreamByte
          /\ (ptr + 1) * StreamByte = ptr * StreamByte + StreamByte
      BY <1>2, ByteSize
    <3>2. CASE ptr = 0
      <4>1. ptr * StreamByte = 0 /\ s = StreamByte - 2
        BY <1>3, <1>7, <3>2, ByteSize
      <4>2. QED
        BY <1>2, <3>1, <4>1, ByteSize DEF Onward
    <3>3. CASE ptr # 0
      <4>1. s = ptr * StreamByte + StreamByte /\ s # StreamByte - 2
        BY <1>2, <1>3, <1>7, <3>3, ByteSize
      <4>2. QED
        BY <1>2, <3>1, <4>1, ByteSize DEF Onward
    <3>4. QED
      BY <3>2, <3>3
  <2>3. ptr + 1 \in DOMAIN mem /\ mem[ptr + 1] = Byte(dest, ptr + 1)
    <3>1. ptr + 1 \in DOMAIN Bytes(dest)
      BY <1>1, <2>2, Addresses
    <3>2. QED
      BY <1>2, <1>4, <3>1
  <2>4. /\ mem' = [a \in DOMAIN mem \cup {ptr + 1} |->
                     IF a = ptr THEN A!Shifted(mem[ptr], 0)
                     ELSE IF a = ptr + 1 THEN A!Shifted(Byte(dest, ptr + 1), 1)
                     ELSE mem[a]]
        /\ A!Take(Byte(dest, ptr + 1)[1]) /\ ptr' = ptr + 1
    BY <2>1, <2>3 DEF A!ReadBitOfNextByte, A!Stored
  <2>5. A!Shifted(Byte(dest, ptr + 1), 1) = Remaining(ptr + 1, 1)
    BY <2>2, RclPassesSentinel
  <2>6. Byte(dest, ptr + 1)[1] = dest[Onward(s)]
    <3>1. 1 \in 1 .. StreamByte /\ StreamByte * (ptr + 1) + 1 <= Len(dest)
      BY <2>2, ByteSize
    <3>2. QED
      BY <2>2, <3>1 DEF Byte
  <2>7. DOMAIN mem' = DOMAIN mem /\ mem'[ptr + 1] = Remaining(ptr + 1, 1)
    <3>1. ptr + 1 # ptr
      BY <1>2
    <3>2. QED
      BY <2>3, <2>4, <2>5, <3>1
  <2>8. \A a \in DOMAIN mem : a > ptr + 1 => mem'[a] = Byte(dest, a)
    <3> SUFFICES ASSUME NEW a \in DOMAIN mem, a > ptr + 1 PROVE mem'[a] = Byte(dest, a)
      OBVIOUS
    <3>1. a \in Int
      BY <1>4 DEF Bytes
    <3>2. a > ptr /\ a # ptr /\ a # ptr + 1
      BY <1>2, <3>1
    <3>3. QED
      BY <1>4, <2>4, <3>2
  <2>9. LookedAt(Onward(s))'
    <3>1. Bytes(dest)' = Bytes(dest) /\ \A a, x : Remaining(a, x)' = Remaining(a, x)
      BY DEF Bytes, Remaining, Byte
    <3>2. Onward(s)' = Onward(s) /\ \A a : Byte(dest, a)' = Byte(dest, a)
      BY DEF Onward, Byte
    <3>3. 1 \in 1 .. StreamByte
      BY ByteSize
    <3>4. QED
      BY <1>4, <2>2, <2>4, <2>7, <2>8, <3>1, <3>2, <3>3 DEF LookedAt
  <2>10. QED
    BY <2>4, <2>6, <2>9
<1>8. QED
  BY <1>5, <1>6, <1>7

-----------------------------------------------------------------------------
(* The registers.                                                          *)

\* The unpacker is in step with value v, but for what was in ebp at first: as
\* long as the first symbol has not been answered its bits are above those that
\* have been read, and the rest of them goes with the doublings that follow.
Registers(j, v) ==
  /\ aRange \in 1 .. (2 * Threshold - 1) /\ aValue \in 0 .. (4 * Threshold - 1)
  /\ v \in Int /\ InStep(aRange, v, j, symbol)
  /\ \/ ~started /\ symbol = 0 /\ aRange = 1 /\ v = 0
     \/ /\ started /\ symbol = 0
        /\ aRange \in Powers /\ aRange <= Threshold
        /\ \E g \in Int : aValue = v + g * (2 * aRange)
     \/ /\ started /\ symbol # 0
        /\ aValue = v \/ (aValue = v + 2 * Threshold /\ aRange < Threshold)

LEMMA WrapOnce ==
  ASSUME NEW m \in Nat, NEW x \in 0 .. (2 * m - 1)
  PROVE  x % m = IF x < m THEN x ELSE x - m
<1>1. m > 0 /\ x \in Nat
  OBVIOUS
<1>2. CASE x < m
  BY <1>1, <1>2
<1>3. CASE x >= m
  BY <1>1, <1>3
<1>4. QED
  BY <1>1, <1>2, <1>3

\* The unconditional first pass takes the start bit.
LEMMA FirstPass ==
  ASSUME EncoderInv, NEW v, Registers(1, v), ~started, A!Take(0),
         UNCHANGED <<evars, calls, marks, symbol>>
  PROVE  Registers(1, 0)'
<1>1. /\ aRange' = 1 /\ started' = TRUE /\ aValue' = (2 * aValue + 0) % (4 * Threshold)
      /\ symbol = 0 /\ symbol' = 0 /\ v = 0 /\ aRange = 1 /\ InStep(1, 0, 1, 0)
  BY DEF A!Take, A!Word, Registers
<1>2. Threshold \in Nat /\ Threshold >= 4 /\ aValue \in 0 .. (4 * Threshold - 1)
  BY Widths DEF Registers
<1>3. aValue' \in 0 .. (4 * Threshold - 1) /\ \E g \in Int : aValue' = 0 + g * (2 * 1)
  <2>1. 2 * aValue + 0 \in 0 .. (2 * (4 * Threshold) - 1) /\ 4 * Threshold \in Nat
    BY <1>2
  <2>2. aValue' = IF 2 * aValue + 0 < 4 * Threshold THEN 2 * aValue + 0
                  ELSE (2 * aValue + 0) - 4 * Threshold
    <3>1. \A m \in Nat : \A y \in 0 .. (2 * m - 1) : y % m = IF y < m THEN y ELSE y - m
      BY WrapOnce
    <3>2. QED
      BY <1>1, <2>1, <3>1
  <2>3. aValue' = 0 + aValue * (2 * 1) \/ aValue' = 0 + (aValue - 2 * Threshold) * (2 * 1)
    BY <1>2, <2>2
  <2>4. aValue' \in 0 .. (4 * Threshold - 1)
    BY <1>2, <2>2
  <2>5. aValue \in Int /\ aValue - 2 * Threshold \in Int
    BY <1>2
  <2>6. QED
    BY <2>3, <2>4, <2>5
<1>4. InStep(1, 0, 1, 0)'
  BY <1>1 DEF InStep, WidthAfter, LowAfter
<1>5. 1 \in 1 .. (2 * Threshold - 1) /\ 1 \in Powers /\ 1 <= Threshold /\ 0 \in Int
  BY <1>2, OneIsPower
<1>6. QED
  BY <1>1, <1>3, <1>4, <1>5 DEF Registers

\* Every other pass takes a bit of the number.
LEMMA LaterPass ==
  ASSUME EncoderInv, phase = "done", NEW j \in DOMAIN marks, NEW v, Registers(j, v),
         symbol \in 0 .. Len(calls), started, aRange < Threshold,
         NEW b, b = dest[marks[j + 1].pos], A!Take(b), UNCHANGED <<evars, calls, marks, symbol>>
  PROVE  Registers(j + 1, 2 * v + b)'
<1> DEFINE w == 2 * v + b
           x == 2 * aValue + b
<1>1. /\ Threshold \in Nat /\ Threshold >= 4 /\ Threshold \in Powers
      /\ aRange \in Nat /\ aRange >= 1 /\ aValue \in 0 .. (4 * Threshold - 1) /\ v \in Int
  BY Widths, Sizes DEF Registers
<1>2. InStep(aRange, v, j, symbol)
  BY DEF Registers
<1>3. b \in {0, 1} /\ InStep(2 * aRange, w, j + 1, symbol)
  BY <1>1, <1>2, NextMark
<1>4. 0 <= v /\ v < aRange
  BY <1>2 DEF InStep
<1>5. aRange' = 2 * aRange /\ started' = TRUE /\ aValue' = x % (4 * Threshold)
      /\ symbol' = symbol /\ dest' = dest /\ marks' = marks
  BY DEF A!Take, A!Word, evars
<1>6. aValue' = (IF x < 4 * Threshold THEN x ELSE x - 4 * Threshold)
      /\ aValue' \in 0 .. (4 * Threshold - 1) /\ x \in Int /\ w \in Int
  <2>1. x \in 0 .. (2 * (4 * Threshold) - 1) /\ 4 * Threshold \in Nat
    BY <1>1, <1>3
  <2>2. aValue' = (IF x < 4 * Threshold THEN x ELSE x - 4 * Threshold)
    BY <1>5, <2>1, WrapOnce
  <2>3. x \in Int /\ w \in Int
    BY <1>1, <1>3
  <2>4. aValue' \in 0 .. (4 * Threshold - 1)
    <3>1. PICK y \in Int : y = x
      BY <2>3
    <3>2. QED
      BY <1>1, <2>1, <2>2, <3>1
  <2>5. QED
    BY <2>2, <2>3, <2>4, Zenon
<1>7. aRange' \in 1 .. (2 * Threshold - 1)
  BY <1>1, <1>5
<1>8. InStep(aRange, w, j + 1, symbol)'
  BY <1>3, <1>5 DEF InStep, WidthAfter, LowAfter
<1> HIDE DEF w, x
<1>9. CASE symbol = 0
  <2>1. /\ aRange \in Powers /\ aRange <= Threshold
        /\ \E g \in Int : aValue = v + g * (2 * aRange)
    BY <1>9 DEF Registers
  <2>2. PICK g \in Int : aValue = v + g * (2 * aRange)
    BY <2>1
  <2>3. PICK h \in Powers : Threshold = aRange * h
    BY <1>1, <2>1, PowersDivide
  <2>4. h \in Int
    BY PowersPositive
  <2>5. x = w + g * (2 * (2 * aRange)) /\ 4 * Threshold = h * (2 * (2 * aRange))
    <3>1. 2 * (g * (2 * aRange)) = g * (2 * (2 * aRange))
      BY <1>1
    <3>2. 4 * (aRange * h) = h * (2 * (2 * aRange))
      BY <1>1, <2>4
    <3>3. g * (2 * aRange) \in Int
      BY <1>1
    <3>4. x = w + 2 * (g * (2 * aRange))
      BY <1>1, <1>3, <2>2, <3>3 DEF w, x
    <3>5. QED
      BY <2>3, <3>1, <3>2, <3>4
  <2>6. \E q \in Int : aValue' = w + q * (2 * aRange')
    <3>1. CASE x < 4 * Threshold
      BY <1>5, <1>6, <2>5, <3>1
    <3>2. CASE ~(x < 4 * Threshold)
      <4>1. aValue' = (w + g * (2 * (2 * aRange))) - h * (2 * (2 * aRange))
        BY <1>6, <2>5, <3>2
      <4>2. (w + g * (2 * (2 * aRange))) - h * (2 * (2 * aRange)) = w + (g - h) * (2 * (2 * aRange))
        <5>1. \A y \in Int : g * y \in Int /\ h * y \in Int /\ (g - h) * y = g * y - h * y
          BY <2>4
        <5>2. 2 * (2 * aRange) \in Int
          BY <1>1
        <5>3. ASSUME NEW y \in Int PROVE (w + g * y) - h * y = w + (g - h) * y
          <6>1. g * y \in Int /\ h * y \in Int /\ (g - h) * y = g * y - h * y
            BY <5>1
          <6>2. QED
            BY <1>6, <6>1
        <5>4. QED
          BY <5>2, <5>3
      <4>3. g - h \in Int
        BY <2>4
      <4>4. QED
        BY <1>5, <4>1, <4>2, <4>3
    <3>3. QED
      BY <3>1, <3>2
  <2>7. aRange' \in Powers /\ aRange' <= Threshold
    BY <1>1, <1>5, <2>1, DoubledPower, PowersApart
  <2>8. QED
    BY <1>5, <1>6, <1>7, <1>8, <1>9, <2>6, <2>7 DEF Registers, w
<1>10. CASE symbol # 0
  <2>1. aValue = v \/ aValue = v + 2 * Threshold
    BY <1>10 DEF Registers
  <2>2. aValue' = w
    <3>1. w = 2 * v + b /\ x = 2 * aValue + b /\ b \in {0, 1}
      BY <1>3 DEF w, x
    <3>2. w < 4 * Threshold /\ w >= 0
      BY <1>1, <1>3, <1>4, <3>1
    <3>3. x = w \/ x = w + 4 * Threshold
      <4>1. CASE aValue = v
        BY <3>1, <4>1
      <4>2. CASE aValue = v + 2 * Threshold
        BY <1>1, <3>1, <4>2
      <4>3. QED
        BY <2>1, <4>1, <4>2
    <3>4. QED
      BY <1>1, <1>6, <3>2, <3>3
  <2>3. started' /\ symbol' # 0
    BY <1>5, <1>10
  <2>4. aValue' = 2 * v + b /\ 2 * v + b \in Int
    BY <1>6, <2>2 DEF w
  <2>5. QED
    BY <1>6, <1>7, <1>8, <2>3, <2>4 DEF Registers, w
<1>11. QED
  BY <1>9, <1>10

\* The end of a block narrows nothing if the encoder's intervals are exact.
LEMMA EndKeeps ==
  ASSUME EncoderInv, Exactly, NEW r \in Nat, NEW v \in Int, NEW j \in DOMAIN marks,
         NEW k \in 0 .. Len(calls), k < Len(calls), calls[k + 1].op = "end", InStep(r, v, j, k)
  PROVE  InStep(r, v, j, k + 1)
<1> DEFINE c == calls[k + 1]
<1>1. k + 1 \in 1 .. Len(calls) /\ k + 1 # 0 /\ (k + 1) - 1 = k
  BY DEF EncoderInv, Types
<1>2. k + 1 \in DOMAIN calls /\ c.scale \in Nat /\ c.low \in Int
  BY <1>1, CallFacts DEF EncoderInv
<1>3. c.low = LowAfter(k) /\ Width(c) = WidthAfter(k)
  BY <1>1, <1>2 DEF EncoderInv, Chain
<1>4. Kept(c) = c.range /\ Skipped(c) = 0 /\ 0 * c.scale = 0 /\ c.low + 0 = c.low
  BY <1>2 DEF Kept, Skipped
<1>5. LowAfter(k + 1) = c.low /\ WidthAfter(k + 1) = Width(c)
  BY <1>1, <1>4 DEF LowAfter, WidthAfter, Width
<1>6. QED
  BY <1>3, <1>5 DEF InStep

\* What ebp held at first is out of the way when the second symbol is asked.
LEMMA ValueKnown ==
  ASSUME EncoderInv, NEW j, NEW v \in Int, Registers(j, v), A!Ready
  PROVE  \/ aValue = v
         \/ symbol = 0 /\ aRange = Threshold /\ aValue = v + 2 * Threshold
<1>1. /\ Threshold \in Nat /\ Threshold >= 4
      /\ aRange \in Threshold .. (2 * Threshold - 1) /\ aValue \in 0 .. (4 * Threshold - 1)
      /\ started
  BY Widths DEF Registers, A!Ready
<1>2. 0 <= v /\ v < aRange
  BY DEF Registers, InStep
<1>3. CASE symbol = 0
  <2>1. aRange <= Threshold /\ \E g \in Int : aValue = v + g * (2 * aRange)
    BY <1>1, <1>3 DEF Registers
  <2>2. aRange = Threshold
    BY <1>1, <2>1
  <2>3. PICK g \in Int : aValue = v + g * (2 * Threshold)
    BY <2>1, <2>2
  <2>4. g \in {0, 1}
    <3>1. g <= -1 => g * (2 * Threshold) <= -(2 * Threshold)
      BY <1>1
    <3>2. g >= 2 => g * (2 * Threshold) >= 2 * (2 * Threshold)
      BY <1>1
    <3>3. g * (2 * Threshold) \in Int
      BY <1>1
    <3>4. ~(g <= -1) /\ ~(g >= 2)
      BY <1>1, <1>2, <2>2, <2>3, <3>1, <3>2, <3>3
    <3>5. QED
      BY <3>4
  <2>5. 0 * (2 * Threshold) = 0 /\ 1 * (2 * Threshold) = 2 * Threshold
    BY <1>1
  <2>6. QED
    BY <1>3, <2>2, <2>3, <2>4, <2>5
<1>4. CASE symbol # 0
  <2>1. aValue = v \/ (aValue = v + 2 * Threshold /\ aRange < Threshold)
    BY <1>1, <1>4 DEF Registers
  <2>2. QED
    BY <1>1, <2>1
<1>5. QED
  BY <1>3, <1>4

\* An answer that takes from the range and the value what the call took from
\* the encoder's interval leaves the unpacker in step.
LEMMA StaysInStep ==
  ASSUME EncoderInv, OneSection, phase = "done", NEW j \in DOMAIN marks,
         NEW v \in Int, Registers(j, v), symbol \in 0 .. Len(calls) - 1, A!Ready,
         NEW c, c = calls[symbol + 1], symbol = 0 => c.op = "pre", Accepts(symbol + 1),
         aRange' = Kept(c), aValue' = aValue - Skipped(c), started' = started,
         UNCHANGED <<calls, marks>>, symbol' = PastEnd(symbol + 1)
  PROVE  \E w \in Int : Registers(j, w)'
<1>1. /\ Len(calls) \in Nat /\ symbol \in 0 .. Len(calls) /\ symbol < Len(calls)
      /\ symbol + 1 \in 1 .. Len(calls)
  BY DEF EncoderInv, Types
<1>2. /\ Threshold \in Nat /\ Threshold >= 4 /\ started
      /\ aRange \in Threshold .. (2 * Threshold - 1) /\ InStep(aRange, v, j, symbol)
  BY Widths DEF Registers, A!Ready
<1>3. /\ InStep(Kept(c), v - Skipped(c), j, symbol + 1)
      /\ Kept(c) \in 1 .. (2 * Threshold - 1) /\ Skipped(c) \in Nat
  BY <1>1, <1>2, StepsOn
<1>4. PICK x \in Int, r \in 1 .. (2 * Threshold - 1) : x = v - Skipped(c) /\ r = Kept(c)
  BY <1>3
<1>5. InStep(r, x, j, symbol + 1) /\ r \in Nat /\ 0 <= x /\ x < r
  BY <1>2, <1>3, <1>4 DEF InStep
<1>6. aValue' = x \/ (aValue' = x + 2 * Threshold /\ r < Threshold)
  <2>1. CASE aValue = v
    BY <1>4, <2>1
  <2>2. CASE symbol = 0 /\ aRange = Threshold /\ aValue = v + 2 * Threshold
    <3>1. c.op = "pre" /\ c \in CallTypes /\ Sound(c)
      BY <1>1, <2>2 DEF EncoderInv, Types
    <3>2. Kept(c) = c.sub
      BY <3>1 DEF Kept, Sound
    <3>3. c.sub \in 1 .. (aRange - 2)
      BY <1>1, <1>2, SameBit
    <3>4. r < Threshold
      BY <1>2, <1>4, <2>2, <3>2, <3>3
    <3>5. aValue' = x + 2 * Threshold
      BY <1>2, <1>3, <1>4, <2>2
    <3>6. QED
      BY <3>4, <3>5
  <2>3. QED
    BY <2>1, <2>2, ValueKnown
<1>7. aValue' \in 0 .. (4 * Threshold - 1)
  BY <1>2, <1>5, <1>6
<1>8. /\ symbol' \in {symbol + 1, (symbol + 1) + 1}
      /\ symbol' = (symbol + 1) + 1 =>
           Exactly /\ symbol + 1 < Len(calls) /\ calls[(symbol + 1) + 1].op = "end"
  BY <1>1 DEF PastEnd, Exactly
<1>9. PICK k \in 0 .. Len(calls) : k = symbol' /\ InStep(r, x, j, k)
  <2>1. CASE symbol' = symbol + 1
    BY <1>1, <1>5, <2>1
  <2>2. CASE symbol' = (symbol + 1) + 1
    <3>1. symbol + 1 \in 0 .. Len(calls) /\ (symbol + 1) + 1 \in 0 .. Len(calls)
      BY <1>1, <1>8, <2>2
    <3>2. InStep(r, x, j, (symbol + 1) + 1)
      BY <1>5, <1>8, <2>2, <3>1, EndKeeps
    <3>3. QED
      BY <2>2, <3>1, <3>2
  <2>3. QED
    BY <1>8, <2>1, <2>2
<1>10. InStep(aRange, x, j, symbol)'
  BY <1>4, <1>9 DEF InStep, WidthAfter, LowAfter
<1>11. symbol' # 0
  BY <1>1, <1>8
<1>12. aRange' = r
  BY <1>4
<1>13. Registers(j, x)'
  BY <1>2, <1>6, <1>7, <1>10, <1>11, <1>12 DEF Registers
<1>14. QED
  BY <1>13

\* What the value says of the call that comes next: what ebp held at first can
\* only have made it larger, and the pre-bit is the upper part of the range.
LEMMA ValueTells ==
  ASSUME EncoderInv, phase = "done", NEW j \in DOMAIN marks,
         NEW v \in Int, Registers(j, v), symbol \in 0 .. Len(calls) - 1, A!Ready,
         NEW c, c = calls[symbol + 1], symbol = 0 => c.op = "pre"
  PROVE  /\ c.bit \in {0, 1} /\ Split(c) \in Nat /\ Split(c) = aRange - c.sub /\ aValue \in Nat
         /\ c.op # "end" /\ c.bit = 1 =>
              (aValue < Split(c) <=> ~Above(symbol + 1)) /\ Kept(c) = Split(c) /\ Skipped(c) = 0
         /\ c.op # "end" /\ c.bit = 0 =>
              Split(c) + Skip <= aValue /\ Kept(c) = c.sub /\ Skipped(c) = Split(c) + Skip
         /\ c.op = "end" \/ c.bit = 0 => ~Above(symbol + 1)
         /\ symbol # 0 => aValue = v
         /\ Stuck(symbol + 1) <=> ~Exactly /\ c.op # "end" /\ symbol % ByteBits # 0
                                  /\ v = Split(c) + 1
<1>1. /\ Len(calls) \in Nat /\ symbol \in 0 .. Len(calls) /\ symbol < Len(calls)
      /\ symbol + 1 \in 1 .. Len(calls)
  BY DEF EncoderInv, Types
<1>2. /\ Threshold \in Nat /\ Threshold >= 4
      /\ aRange \in Threshold .. (2 * Threshold - 1) /\ InStep(aRange, v, j, symbol)
      /\ aValue \in 0 .. (4 * Threshold - 1)
  BY Widths DEF Registers, A!Ready
<1>3. /\ c \in CallTypes /\ Sound(c) /\ Split(c) \in Nat
  BY <1>1, CallFacts DEF EncoderInv, Types
<1>4. c.bit \in {0, 1} /\ (c.op = "pre" => c.bit = 0)
  BY <1>3 DEF CallTypes, Sound
<1>5. aValue = v \/ (symbol = 0 /\ aValue = v + 2 * Threshold)
  BY ValueKnown
<1>6. /\ Split(c) = aRange - c.sub /\ Skipped(c) <= v
      /\ c.op # "end" /\ c.bit = 1 => (Above(symbol + 1) <=> Split(c) <= v)
      /\ c.op = "end" \/ c.bit = 0 => ~Above(symbol + 1)
      /\ Stuck(symbol + 1) <=> ~Exactly /\ c.op # "end" /\ symbol % ByteBits # 0
                               /\ v = Split(c) + 1
  BY <1>1, <1>2, SameBit
<1>7. aValue \in Nat
  BY <1>2
<1>8. ASSUME c.op # "end", c.bit = 1
      PROVE  (aValue < Split(c) <=> ~Above(symbol + 1)) /\ Kept(c) = Split(c) /\ Skipped(c) = 0
  <2>1. aValue = v
    BY <1>4, <1>5, <1>8
  <2>2. aValue < Split(c) <=> ~Above(symbol + 1)
    BY <1>3, <1>6, <1>8, <2>1
  <2>3. Kept(c) = Split(c) /\ Skipped(c) = 0
    BY <1>8 DEF Kept, Skipped
  <2>4. QED
    BY <2>2, <2>3
<1>9. ASSUME c.op # "end", c.bit = 0
      PROVE  Split(c) + Skip <= aValue /\ Kept(c) = c.sub /\ Skipped(c) = Split(c) + Skip
  <2>1. Kept(c) = c.sub /\ Skipped(c) = Split(c) + Skip
    BY <1>9 DEF Kept, Skipped
  <2>2. Skip \in Nat
    BY DEF Skip
  <2>3. Split(c) + Skip <= aValue
    BY <1>2, <1>3, <1>5, <1>6, <2>1, <2>2
  <2>4. QED
    BY <2>1, <2>3
<1>10. symbol # 0 => aValue = v
  BY <1>5
<1>11. QED
  BY <1>3, <1>4, <1>6, <1>7, <1>8, <1>9, <1>10

\* In the multi section mode the answer is the bit that was packed.
LEMMA MultiAnswer ==
  ASSUME EncoderInv, EncoderType = "MultiAsm", phase = "done", NEW j \in DOMAIN marks,
         NEW v \in Int, Registers(j, v), symbol \in 0 .. Len(calls) - 1, A!Ready,
         NEW c, c = calls[symbol + 1], symbol = 0 => c.op = "pre", c.op # "end",
         A!MultiSymbol(c.sub)
  PROVE  /\ A!Bit(c.sub) = c.bit /\ Accepts(symbol + 1)
         /\ aRange' = Kept(c) /\ aValue' = aValue - Skipped(c)
<1>1. Accepts(symbol + 1)
  <2>1. symbol + 1 \in 0 .. Len(calls)
    BY DEF EncoderInv, Types
  <2>2. QED
    BY <2>1, ExactAccepts DEF Exactly
<1>2. /\ c.bit \in {0, 1} /\ Split(c) \in Nat /\ Split(c) = aRange - c.sub /\ aValue \in Nat
      /\ c.bit = 1 => (aValue < Split(c) <=> ~Above(symbol + 1))
                      /\ Kept(c) = Split(c) /\ Skipped(c) = 0
      /\ c.bit = 0 => Split(c) + Skip <= aValue /\ Kept(c) = c.sub /\ Skipped(c) = Split(c) + Skip
  BY ValueTells
<1>3. IF aValue < Split(c) THEN aRange' = Split(c) /\ aValue' = aValue
      ELSE aRange' = c.sub /\ aValue' = aValue - Split(c)
  BY <1>2 DEF A!MultiSymbol
<1>4. Skip = 0 /\ Split(c) + 0 = Split(c) /\ aValue - 0 = aValue
  BY <1>2 DEF Skip
<1>5. A!Bit(c.sub) = IF aValue < Split(c) THEN 1 ELSE 0
  BY <1>2 DEF A!Bit
<1>6. CASE c.bit = 1
  <2>1. aValue < Split(c)
    BY <1>1, <1>2, <1>6 DEF Accepts
  <2>2. QED
    BY <1>1, <1>2, <1>3, <1>4, <1>5, <1>6, <2>1
<1>7. CASE c.bit = 0
  <2>1. ~(aValue < Split(c))
    BY <1>2, <1>4, <1>7
  <2>2. QED
    BY <1>1, <1>2, <1>3, <1>4, <1>5, <1>7, <2>1
<1>8. QED
  BY <1>2, <1>6, <1>7

\* In the single section mode it is, and the unpacker goes on, exactly if the
\* number sent is none the call gave away and none that stops the unpacker.
LEMMA SingleAnswer ==
  ASSUME EncoderInv, EncoderType = "SingleAsm", phase = "done", NEW j \in DOMAIN marks,
         NEW v \in Int, Registers(j, v), symbol \in 0 .. Len(calls) - 1, A!Ready,
         NEW c, c = calls[symbol + 1], symbol = 0 => c.op = "pre", c.op # "end",
         A!ByteFull <=> symbol % ByteBits = 0, symbol = 0 => A!ByteFull,
         A!SingleSymbol(c.sub)
  PROVE  /\ Accepts(symbol + 1) <=> A!Bit(c.sub) = c.bit /\ aPhase' # "done"
         /\ aPhase' \in {"done", "running"}
         /\ Accepts(symbol + 1) => aRange' = Kept(c) /\ aValue' = aValue - Skipped(c)
<1>1. /\ c.bit \in {0, 1} /\ Split(c) \in Nat /\ Split(c) = aRange - c.sub /\ aValue \in Nat
      /\ c.bit = 1 => (aValue < Split(c) <=> ~Above(symbol + 1))
                      /\ Kept(c) = Split(c) /\ Skipped(c) = 0
      /\ c.bit = 0 => Split(c) + Skip <= aValue /\ Kept(c) = c.sub /\ Skipped(c) = Split(c) + Skip
      /\ c.bit = 0 => ~Above(symbol + 1)
      /\ symbol # 0 => aValue = v
      /\ Stuck(symbol + 1) <=> symbol % ByteBits # 0 /\ v = Split(c) + 1
  BY ValueTells DEF Exactly
<1>2. /\ IF aValue <= Split(c) THEN aRange' = Split(c) /\ aValue' = aValue
         ELSE aRange' = c.sub /\ aValue' = aValue - (Split(c) + 1)
      /\ aPhase' = IF aValue \in {Split(c), Split(c) + 1} /\ ~A!ByteFull
                   THEN "done" ELSE "running"
  BY <1>1 DEF A!SingleSymbol
<1>3. Skip = 1 /\ aValue - 0 = aValue
  BY <1>1 DEF Skip
<1>4. A!Bit(c.sub) = IF aValue < Split(c) THEN 1 ELSE 0
  BY <1>1 DEF A!Bit
<1>5. Stuck(symbol + 1) <=> ~A!ByteFull /\ aValue = Split(c) + 1
  BY <1>1
<1>6. CASE c.bit = 1
  <2>1. CASE aValue < Split(c)
    <3>1. aValue <= Split(c) /\ aValue \notin {Split(c), Split(c) + 1}
      BY <1>1, <2>1
    <3>2. ~Above(symbol + 1) /\ ~Stuck(symbol + 1)
      BY <1>1, <1>5, <1>6, <2>1, <3>1
    <3>3. Accepts(symbol + 1) /\ A!Bit(c.sub) = c.bit /\ aPhase' = "running"
      BY <1>2, <1>4, <1>6, <2>1, <3>1, <3>2 DEF Accepts
    <3>4. aRange' = Kept(c) /\ aValue' = aValue - Skipped(c)
      BY <1>1, <1>2, <1>3, <1>6, <3>1
    <3>5. QED
      BY <3>3, <3>4
  <2>2. CASE ~(aValue < Split(c))
    <3>1. ~Accepts(symbol + 1)
      BY <1>1, <1>6, <2>2 DEF Accepts
    <3>2. A!Bit(c.sub) # c.bit
      BY <1>4, <1>6, <2>2
    <3>3. aPhase' \in {"done", "running"}
      BY <1>2
    <3>4. QED
      BY <3>1, <3>2, <3>3
  <2>3. QED
    BY <2>1, <2>2
<1>7. CASE c.bit = 0
  <2>1. Split(c) + 1 <= aValue /\ ~(aValue < Split(c)) /\ ~(aValue <= Split(c))
        /\ aValue # Split(c)
    BY <1>1, <1>3, <1>7
  <2>2. A!Bit(c.sub) = c.bit
    BY <1>4, <1>7, <2>1
  <2>3. Accepts(symbol + 1) <=> ~(~A!ByteFull /\ aValue = Split(c) + 1)
    BY <1>1, <1>5, <1>7 DEF Accepts
  <2>4. aPhase' = IF aValue = Split(c) + 1 /\ ~A!ByteFull THEN "done" ELSE "running"
    BY <1>2, <2>1
  <2>5. aRange' = Kept(c) /\ aValue' = aValue - Skipped(c)
    BY <1>1, <1>2, <1>3, <1>7, <2>1
  <2>6. QED
    BY <2>2, <2>3, <2>4, <2>5
<1>8. QED
  BY <1>1, <1>6, <1>7

-----------------------------------------------------------------------------
(* The blocks.                                                             *)

\* How many calls come before the first data bit of block i: the pre-bit, and
\* those of the blocks before.
Start(i) == IF i = 1 THEN 1 ELSE ends[i - 1]

\* The calls of a block that has been closed: its bits, then the end.
BlockCalls(i) ==
  /\ rawLengths[i] \in 1 .. LenWord - 1
  /\ ends[i] \in DOMAIN calls /\ calls[ends[i]].op = "end"
  /\ Start(i) \in Nat /\ ends[i] = Start(i) + rawLengths[i] * ByteBits + 1
  /\ \A k \in Start(i) + 1 .. ends[i] - 1 : calls[k].op # "end"

BlocksInv ==
  /\ ends \in Seq(Nat) /\ rawLengths \in Seq(Nat) /\ Len(rawLengths) = Len(ends)
  /\ blockBits \in Nat /\ coded \in Nat /\ blockBits <= coded /\ coded <= MaxBits
  /\ \A i \in DOMAIN ends : BlockCalls(i)
  /\ hasPreBit = (calls # <<>>)
  /\ calls # <<>> => calls[1].op = "pre"
  /\ section = "open" =>
       /\ calls # <<>> /\ Start(Len(ends) + 1) \in Nat
       /\ Len(calls) = Start(Len(ends) + 1) + blockBits
       /\ \A k \in Start(Len(ends) + 1) + 1 .. Len(calls) : calls[k].op # "end"
  /\ section = "closed" =>
       IF ends = <<>> THEN calls = <<>> /\ blocks = 0 ELSE ends[Len(ends)] = Len(calls)
  /\ phase \in {"flushing", "done"} => section = "closed" /\ ends # <<>>

\* A further doubling changes no call but for its scale.
LEMMA SameCalls ==
  ASSUME EncoderInv, Doubling
  PROVE  /\ DOMAIN calls' = DOMAIN calls /\ Len(calls') = Len(calls)
         /\ \A k \in DOMAIN calls : calls'[k].op = calls[k].op
<1>1. calls \in Seq(CallTypes) /\ DOMAIN calls = 1 .. Len(calls) /\ Len(calls) \in Nat
  BY DEF EncoderInv, Types
<1>2. calls' = [k \in DOMAIN calls |-> [calls[k] EXCEPT !.low = 2 * @, !.scale = 2 * @]]
  BY DEF Doubling
<1>3. ASSUME NEW k \in DOMAIN calls PROVE calls'[k].op = calls[k].op
  <2>1. calls[k] \in CallTypes
    BY <1>1, <1>3
  <2>2. QED
    BY <1>2, <1>3, <2>1 DEF CallTypes
<1>4. DOMAIN calls' = DOMAIN calls
  BY <1>2
<1>5. Len(calls') = Len(calls)
  <2>1. calls' \in Seq({calls'[k] : k \in DOMAIN calls})
    BY <1>1, <1>2, FunctionIsSequence
  <2>2. QED
    BY <1>1, <1>4, <2>1
<1>6. QED
  BY <1>3, <1>4, <1>5

\* What holds of the blocks only depends on how many calls there are and which
\* of them are ends.
LEMMA SameBlocks ==
  ASSUME BlocksInv, DOMAIN calls' = DOMAIN calls, Len(calls') = Len(calls),
         DOMAIN calls = 1 .. Len(calls), Len(calls) \in Nat,
         \A k \in DOMAIN calls : calls'[k].op = calls[k].op,
         calls \in Seq(CallTypes), calls' \in Seq(CallTypes),
         UNCHANGED <<ends, rawLengths, callvars>>,
         phase' \in {"flushing", "done"} => phase \in {"flushing", "done"}
                                            \/ (section = "closed" /\ blocks > 0)
  PROVE  BlocksInv'
<1>1. \A i : Start(i)' = Start(i)
  BY DEF Start
<1>2. \A i \in DOMAIN ends' : BlockCalls(i)'
  <2> SUFFICES ASSUME NEW i \in DOMAIN ends PROVE BlockCalls(i)'
    OBVIOUS
  <2>1. BlockCalls(i)
    BY DEF BlocksInv
  <2>2. /\ rawLengths'[i] \in 1 .. LenWord - 1 /\ ends'[i] \in DOMAIN calls'
        /\ calls'[ends'[i]].op = "end" /\ Start(i) \in Nat
        /\ ends'[i] = Start(i) + rawLengths'[i] * ByteBits + 1
    BY <2>1 DEF BlockCalls
  <2>3. ASSUME NEW k \in Start(i) + 1 .. ends[i] - 1 PROVE calls'[k].op # "end"
    <3>1. k \in DOMAIN calls
      BY <2>2
    <3>2. QED
      BY <2>1, <3>1 DEF BlockCalls
  <2>4. QED
    BY <1>1, <2>2, <2>3 DEF BlockCalls
<1>3. calls' # <<>> <=> calls # <<>>
  OBVIOUS
<1>4. calls' # <<>> => calls'[1].op = "pre"
  <2>1. calls # <<>> => 1 \in DOMAIN calls
    OBVIOUS
  <2>2. QED
    BY <1>3, <2>1 DEF BlocksInv
<1>5. ASSUME section = "open", NEW k \in Start(Len(ends) + 1) + 1 .. Len(calls)
      PROVE  calls'[k].op # "end"
  <2>1. Start(Len(ends) + 1) \in Nat
    BY <1>5 DEF BlocksInv
  <2>2. k \in DOMAIN calls
    BY <2>1
  <2>3. QED
    BY <1>5, <2>2 DEF BlocksInv
<1>6. phase' \in {"flushing", "done"} => section = "closed" /\ ends # <<>>
  BY DEF BlocksInv
<1>7. QED
  BY <1>1, <1>2, <1>3, <1>4, <1>5, <1>6 DEF BlocksInv, callvars

\* What a further call is.
LEMMA Appended ==
  ASSUME EncoderInv, NEW c, calls' = Append(calls, c)
  PROVE  /\ Len(calls) \in Nat /\ DOMAIN calls = 1 .. Len(calls)
         /\ Len(calls') = Len(calls) + 1 /\ DOMAIN calls' = 1 .. Len(calls')
         /\ calls' # <<>> /\ calls'[Len(calls')] = c
         /\ \A k \in 1 .. Len(calls) : calls'[k] = calls[k]
<1>1. calls \in Seq(CallTypes \cup {c})
  <2>1. calls \in Seq(CallTypes)
    BY DEF EncoderInv, Types
  <2>2. QED
    BY <2>1
<1>2. QED
  BY <1>1

\* A call changes nothing about the blocks that are closed.
LEMMA ClosedBlocksStay ==
  ASSUME EncoderInv, BlocksInv, NEW c, calls' = Append(calls, c),
         NEW i \in DOMAIN ends, ends'[i] = ends[i], Start(i)' = Start(i),
         rawLengths'[i] = rawLengths[i]
  PROVE  BlockCalls(i)'
<1>1. BlockCalls(i)
  BY DEF BlocksInv
<1>2. ends[i] \in 1 .. Len(calls) /\ ends[i] \in 1 .. Len(calls') /\ Start(i) \in Nat
      /\ DOMAIN calls' = 1 .. Len(calls') /\ Len(calls) \in Nat
  BY <1>1, Appended DEF BlockCalls
<1>3. calls'[ends'[i]].op = "end"
  BY <1>1, <1>2, Appended DEF BlockCalls
<1>4. ASSUME NEW k \in Start(i) + 1 .. ends[i] - 1 PROVE calls'[k].op # "end"
  <2>1. k \in 1 .. Len(calls)
    BY <1>2
  <2>2. QED
    BY <1>1, <2>1, Appended DEF BlockCalls
<1>5. QED
  BY <1>1, <1>2, <1>3, <1>4 DEF BlockCalls

LEMMA PreEncodeBlocks ==
  ASSUME EncoderInv, BlocksInv, NEW sub \in SubRanges, PreEncode(sub), ENarrow("pre", 0, sub),
         UNCHANGED <<ends, rawLengths>>
  PROVE  BlocksInv'
<1> DEFINE c == Call("pre", 0, sub)
<1>1. /\ section = "closed" /\ ~hasPreBit /\ hasPreBit' = TRUE /\ section' = "open"
      /\ blockBits' = 0 /\ coded' = coded /\ phase' = phase /\ phase = "coding"
      /\ calls' = Append(calls, c)
  BY DEF PreEncode, MayOpen, Ready, ENarrow
<1>2. calls = <<>> /\ ends = <<>>
  <2>1. calls = <<>>
    BY <1>1 DEF BlocksInv
  <2>2. ASSUME ends # <<>> PROVE FALSE
    <3>1. Len(ends) \in DOMAIN ends
      BY <2>2 DEF BlocksInv
    <3>2. ends[Len(ends)] \in DOMAIN calls
      BY <3>1 DEF BlocksInv, BlockCalls
    <3>3. QED
      BY <2>1, <3>2
  <2>3. QED
    BY <2>1, <2>2
<1>3. Len(calls') = 1 /\ calls' # <<>> /\ calls'[1] = c
  <2>1. Len(calls) = 0
    BY <1>2
  <2>2. QED
    BY <1>1, <2>1, Appended
<1>4. c.op = "pre"
  BY DEF Call
<1> HIDE DEF c
<1>5. Start(Len(ends) + 1)' = 1 /\ Len(ends') = 0 /\ ends' = <<>> /\ DOMAIN ends' = {}
  BY <1>2 DEF Start
<1>6. \A k \in 1 + 1 .. 1 : calls'[k].op # "end"
  OBVIOUS
<1>7. coded' \in Nat /\ coded' <= MaxBits /\ 0 <= coded' /\ 0 \in Nat
  BY <1>1, Widths, BoundAssumption DEF BlocksInv
<1>8. /\ ends' \in Seq(Nat) /\ rawLengths' \in Seq(Nat) /\ Len(rawLengths') = Len(ends')
      /\ \A i \in DOMAIN ends' : BlockCalls(i)'
  BY <1>5 DEF BlocksInv
<1>9. section' = "open" /\ phase' = "coding"
  BY <1>1
<1>10. Len(calls') = Start(Len(ends) + 1)' + blockBits' /\ Start(Len(ends) + 1)' \in Nat
  BY <1>1, <1>3, <1>5
<1>11. \A k \in Start(Len(ends) + 1)' + 1 .. Len(calls') : calls'[k].op # "end"
  BY <1>3, <1>5, <1>6
<1>12. QED
  BY <1>1, <1>3, <1>4, <1>7, <1>8, <1>9, <1>10, <1>11 DEF BlocksInv

LEMMA EncodeBlocks ==
  ASSUME EncoderInv, BlocksInv, NEW bit \in {0, 1}, NEW sub \in SubRanges,
         Encode(bit, sub), ENarrow("bit", bit, sub), UNCHANGED <<ends, rawLengths>>
  PROVE  BlocksInv'
<1> DEFINE c == Call("bit", bit, sub)
           first == Start(Len(ends) + 1)
<1>1. /\ section = "open" /\ section' = "open" /\ hasPreBit' = hasPreBit
      /\ blockBits' = blockBits + 1 /\ coded' = coded + 1 /\ coded < MaxBits
      /\ phase' = phase /\ phase = "coding" /\ calls' = Append(calls, c)
  BY DEF Encode, Ready, ENarrow
<1>2. c.op = "bit"
  BY DEF Call
<1> HIDE DEF c
<1>3. /\ Len(calls) \in Nat /\ Len(calls') = Len(calls) + 1 /\ calls' # <<>>
      /\ calls'[Len(calls')] = c /\ \A k \in 1 .. Len(calls) : calls'[k] = calls[k]
  BY <1>1, Appended
<1>4. /\ calls # <<>> /\ first \in Nat /\ Len(calls) = first + blockBits
      /\ \A k \in first + 1 .. Len(calls) : calls[k].op # "end"
      /\ calls[1].op = "pre" /\ hasPreBit = TRUE
  BY <1>1 DEF BlocksInv
<1>5. Start(Len(ends) + 1)' = first /\ \A i : Start(i)' = Start(i)
  BY DEF Start
<1> HIDE DEF first
<1>6. blockBits \in Nat /\ coded \in Nat /\ blockBits <= coded /\ MaxBits \in Nat
  BY BoundAssumption DEF BlocksInv
<1>7. /\ blockBits' \in Nat /\ coded' \in Nat /\ blockBits' <= coded' /\ coded' <= MaxBits
      /\ Len(calls') = first + blockBits'
  BY <1>1, <1>3, <1>4, <1>6
<1>8. ASSUME NEW k \in first + 1 .. Len(calls') PROVE calls'[k].op # "end"
  <2>1. CASE k = Len(calls')
    BY <1>2, <1>3, <2>1
  <2>2. CASE k # Len(calls')
    <3>1. k \in first + 1 .. Len(calls) /\ k \in 1 .. Len(calls)
      BY <1>3, <1>4, <2>2
    <3>2. QED
      BY <1>3, <1>4, <3>1
  <2>3. QED
    BY <2>1, <2>2
<1>9. calls'[1].op = "pre"
  <2>1. Len(calls) # 0
    BY <1>4 DEF EncoderInv, Types
  <2>2. 1 \in 1 .. Len(calls)
    BY <1>3, <2>1
  <2>3. QED
    BY <1>3, <1>4, <2>2
<1>10. \A i \in DOMAIN ends' : BlockCalls(i)'
  BY <1>1, <1>5, ClosedBlocksStay
<1>11. /\ ends' \in Seq(Nat) /\ rawLengths' \in Seq(Nat) /\ Len(rawLengths') = Len(ends')
       /\ hasPreBit' = TRUE
  BY <1>1, <1>4 DEF BlocksInv
<1>12. QED
  BY <1>1, <1>3, <1>4, <1>5, <1>7, <1>8, <1>9, <1>10, <1>11 DEF BlocksInv

\* A block has whole bytes, and fewer than a length word can count.
LEMMA WholeBytes ==
  ASSUME NEW n \in Nat, n > 0, n % ByteBits = 0, n <= MaxBits
  PROVE  n \div ByteBits \in 1 .. LenWord - 1 /\ (n \div ByteBits) * ByteBits = n
<1>1. ByteBits \in Nat /\ ByteBits >= 1 /\ MaxBits \in Nat /\ LenWord \in Nat
      /\ MaxBits \div ByteBits < LenWord
  BY BoundAssumption, LenWordAssumption
<1>2. \A a, d \in Nat : d >= 1 => a \div d \in Nat /\ a = d * (a \div d) + (a % d)
  OBVIOUS
<1>3. \A q, a, d \in Nat : d >= 1 /\ d * q <= a => q <= a \div d
  OBVIOUS
<1> DEFINE q == n \div ByteBits
<1>4. q \in Nat /\ n = ByteBits * q
  BY <1>1, <1>2
<1>5. q <= MaxBits \div ByteBits
  BY <1>1, <1>3, <1>4
<1> HIDE DEF q
<1>6. q # 0
  BY <1>1, <1>4
<1>7. q * ByteBits = n
  BY <1>1, <1>4
<1>8. MaxBits \div ByteBits \in Nat
  BY <1>1, <1>2
<1>9. QED
  BY <1>1, <1>4, <1>5, <1>6, <1>7, <1>8 DEF q

LEMMA EndSectionBlocks ==
  ASSUME EncoderInv, BlocksInv, NEW sub \in SubRanges, EndSection(sub),
         calls' = Append(calls, Call("end", 0, sub)),
         rawLengths' = Append(rawLengths, blockBits \div ByteBits),
         ends' = Append(ends, Len(calls'))
  PROVE  BlocksInv'
<1> DEFINE c == Call("end", 0, sub)
           first == Start(Len(ends) + 1)
           raw == blockBits \div ByteBits
<1>1. /\ section = "open" /\ section' = "closed" /\ hasPreBit' = hasPreBit
      /\ blockBits' = blockBits /\ coded' = coded
      /\ blockBits > 0 /\ blockBits % ByteBits = 0
      /\ phase' = phase /\ phase = "coding" /\ calls' = Append(calls, c)
  BY DEF EndSection, Ready
<1>2. c.op = "end"
  BY DEF Call
<1> HIDE DEF c
<1>3. /\ Len(calls) \in Nat /\ Len(calls') = Len(calls) + 1 /\ calls' # <<>>
      /\ DOMAIN calls' = 1 .. Len(calls')
      /\ calls'[Len(calls')] = c /\ \A k \in 1 .. Len(calls) : calls'[k] = calls[k]
  BY <1>1, Appended
<1>4. /\ calls # <<>> /\ first \in Nat /\ Len(calls) = first + blockBits
      /\ \A k \in first + 1 .. Len(calls) : calls[k].op # "end"
      /\ calls[1].op = "pre" /\ hasPreBit = TRUE
  BY <1>1 DEF BlocksInv
<1>5. blockBits \in Nat /\ coded \in Nat /\ blockBits <= coded /\ coded <= MaxBits /\ MaxBits \in Nat
  BY BoundAssumption DEF BlocksInv
<1>6. raw \in 1 .. LenWord - 1 /\ raw * ByteBits = blockBits
  BY <1>1, <1>5, WholeBytes
<1>7. /\ Len(ends) \in Nat /\ Len(rawLengths) = Len(ends)
      /\ DOMAIN ends = 1 .. Len(ends) /\ DOMAIN rawLengths = 1 .. Len(ends)
  BY DEF BlocksInv
<1> HIDE DEF raw
<1>8. /\ ends' \in Seq(Nat) /\ Len(ends') = Len(ends) + 1 /\ DOMAIN ends' = 1 .. Len(ends) + 1
      /\ ends'[Len(ends) + 1] = Len(calls') /\ ends' # <<>>
      /\ \A i \in 1 .. Len(ends) : ends'[i] = ends[i]
  BY <1>3 DEF BlocksInv
<1>9. /\ rawLengths' \in Seq(Nat) /\ Len(rawLengths') = Len(ends')
      /\ rawLengths'[Len(ends) + 1] = raw
      /\ \A i \in 1 .. Len(ends) : rawLengths'[i] = rawLengths[i]
  BY <1>6, <1>7, <1>8 DEF BlocksInv, raw
<1>10. ASSUME NEW i \in 1 .. Len(ends) + 1 PROVE Start(i)' = Start(i)
  <2>1. i # 1 => i - 1 \in 1 .. Len(ends)
    BY <1>7
  <2>2. QED
    BY <1>8, <2>1 DEF Start
<1>11. ASSUME NEW i \in 1 .. Len(ends) PROVE BlockCalls(i)'
  <2>1. i \in DOMAIN ends /\ i \in 1 .. Len(ends) + 1
    BY <1>7
  <2>2. ends'[i] = ends[i] /\ rawLengths'[i] = rawLengths[i] /\ Start(i)' = Start(i)
    BY <1>8, <1>9, <1>10, <2>1
  <2>3. QED
    BY <1>1, <2>1, <2>2, ClosedBlocksStay
<1>12. ASSUME NEW i \in 1 .. Len(ends) + 1, i = Len(ends) + 1 PROVE BlockCalls(i)'
  <2>2. Start(i)' = first
    BY <1>10, <1>12 DEF first
  <2> HIDE DEF first
  <2>3. /\ rawLengths'[i] = raw /\ ends'[i] = Len(calls') /\ i = Len(ends) + 1
        /\ raw \in 1 .. LenWord - 1
    BY <1>6, <1>8, <1>9, <1>12
  <2>4. Len(calls') = first + raw * ByteBits + 1 /\ first \in Nat
    BY <1>3, <1>4, <1>5, <1>6
  <2>5. Len(calls') \in DOMAIN calls' /\ calls'[Len(calls')].op = "end"
    BY <1>2, <1>3
  <2>6. ASSUME NEW k \in first + 1 .. Len(calls') - 1 PROVE calls'[k].op # "end"
    <3>1. k \in first + 1 .. Len(calls) /\ k \in 1 .. Len(calls)
      BY <1>3, <1>4
    <3>2. QED
      BY <1>3, <1>4, <3>1
  <2>7. QED
    BY <2>2, <2>3, <2>4, <2>5, <2>6 DEF BlockCalls
<1>13. \A i \in DOMAIN ends' : BlockCalls(i)'
  <2> SUFFICES ASSUME NEW i \in 1 .. Len(ends) + 1 PROVE BlockCalls(i)'
    BY <1>8
  <2>1. CASE i \in 1 .. Len(ends)
    BY <1>11, <2>1
  <2>2. CASE i = Len(ends) + 1
    BY <1>12, <2>2
  <2>3. QED
    BY <1>7, <2>1, <2>2
<1>14. calls'[1].op = "pre"
  <2>1. Len(calls) # 0
    BY <1>4 DEF EncoderInv, Types
  <2>2. 1 \in 1 .. Len(calls)
    BY <1>3, <2>1
  <2>3. QED
    BY <1>3, <1>4, <2>2
<1>15. ends'[Len(ends')] = Len(calls')
  BY <1>8
<1>16. QED
  BY <1>1, <1>3, <1>4, <1>5, <1>8, <1>9, <1>13, <1>14, <1>15 DEF BlocksInv

\* A second or later block opens where the last one ended.
LEMMA OpenBlocks ==
  ASSUME EncoderInv, BlocksInv, Framed, PreEncodeNothing, UNCHANGED <<calls, ends, rawLengths>>
  PROVE  BlocksInv'
<1>1. /\ section = "closed" /\ section' = "open" /\ hasPreBit' = hasPreBit /\ hasPreBit
      /\ blockBits' = 0 /\ coded' = coded /\ phase' = phase /\ phase = "coding"
  BY DEF PreEncodeNothing, MayOpen, Ready
<1>2. calls # <<>> /\ ends # <<>> /\ ends[Len(ends)] = Len(calls)
  BY <1>1 DEF BlocksInv
<1>3. /\ Len(ends) \in Nat /\ Len(ends) + 1 # 1 /\ (Len(ends) + 1) - 1 = Len(ends)
      /\ Len(calls) \in Nat
  BY <1>2 DEF BlocksInv, EncoderInv, Types
<1>4. Start(Len(ends) + 1)' = Len(calls)
  BY <1>2, <1>3 DEF Start
<1>5. \A i \in DOMAIN ends' : BlockCalls(i)'
  BY DEF BlocksInv, BlockCalls, Start
<1>6. coded' \in Nat /\ coded' <= MaxBits /\ 0 <= coded' /\ 0 \in Nat
  BY <1>1, BoundAssumption DEF BlocksInv
<1>7. \A k \in Len(calls) + 1 .. Len(calls) : FALSE
  BY <1>3
<1>8. Len(calls') = Start(Len(ends) + 1)' + blockBits'
  BY <1>1, <1>3, <1>4
<1>9. calls'[1].op = "pre" /\ hasPreBit' = (calls' # <<>>)
  BY <1>1, <1>2 DEF BlocksInv
<1>10. /\ ends' \in Seq(Nat) /\ rawLengths' \in Seq(Nat) /\ Len(rawLengths') = Len(ends')
  BY DEF BlocksInv
<1>11. \A k \in Start(Len(ends) + 1)' + 1 .. Len(calls') : calls'[k].op # "end"
  BY <1>4, <1>7
<1>12. QED
  BY <1>1, <1>2, <1>3, <1>4, <1>5, <1>6, <1>8, <1>9, <1>10, <1>11 DEF BlocksInv

LEMMA CodecBlocks ==
  ASSUME EncoderInv, EncoderInv', BlocksInv, Framed, Codec
  PROVE  BlocksInv'
<1>1. /\ calls \in Seq(CallTypes) /\ calls' \in Seq(CallTypes)
      /\ DOMAIN calls = 1 .. Len(calls) /\ Len(calls) \in Nat
  BY DEF EncoderInv, Types
<1>2. ASSUME UNCHANGED callvars PROVE UNCHANGED <<ends, rawLengths>>
  BY <1>2 DEF Codec, BlockCloses, callvars
<1>3. ASSUME Doubling, UNCHANGED <<callvars, phase>> PROVE BlocksInv'
  <2>1. UNCHANGED <<ends, rawLengths>>
    BY <1>2, <1>3
  <2>2. QED
    BY <1>1, <1>3, <2>1, SameCalls, SameBlocks
<1>4. ASSUME UNCHANGED <<calls, callvars>>,
             phase' \in {"flushing", "done"} => phase \in {"flushing", "done"}
                                                \/ (section = "closed" /\ blocks > 0)
      PROVE  BlocksInv'
  <2>1. UNCHANGED <<ends, rawLengths>>
    BY <1>2, <1>4
  <2>2. /\ DOMAIN calls' = DOMAIN calls /\ Len(calls') = Len(calls)
        /\ \A k \in DOMAIN calls : calls'[k].op = calls[k].op
    BY <1>4
  <2>3. QED
    BY <1>1, <1>4, <2>1, <2>2, SameBlocks
<1>5. CASE EncoderStep
  <2>1. CASE Shift /\ Doubling
    BY <1>3, <2>1 DEF Shift
  <2>2. CASE SendBit /\ Doubling
    BY <1>3, <2>2 DEF SendBit
  <2>3. CASE Narrowing
    <3>1. PICK sub \in SubRanges :
            \/ PreEncode(sub) /\ ENarrow("pre", 0, sub)
            \/ \E bit \in {0, 1} : Encode(bit, sub) /\ ENarrow("bit", bit, sub)
            \/ EndSection(sub) /\ calls' = Append(calls, Call("end", 0, sub))
      BY <2>3 DEF Narrowing
    <3>2. CASE PreEncode(sub) /\ ENarrow("pre", 0, sub)
      <4>1. UNCHANGED <<ends, rawLengths>>
        BY <3>2 DEF Codec, BlockCloses, PreEncode
      <4>2. QED
        BY <3>2, <4>1, PreEncodeBlocks
    <3>3. CASE \E bit \in {0, 1} : Encode(bit, sub) /\ ENarrow("bit", bit, sub)
      <4>1. UNCHANGED <<ends, rawLengths>>
        BY <3>3 DEF Codec, BlockCloses, Encode
      <4>2. QED
        BY <3>3, <4>1, EncodeBlocks
    <3>4. CASE EndSection(sub) /\ calls' = Append(calls, Call("end", 0, sub))
      <4>1. /\ rawLengths' = Append(rawLengths, blockBits \div ByteBits)
            /\ ends' = Append(ends, Len(calls'))
        BY <3>4 DEF Codec, BlockCloses, EndSection
      <4>2. QED
        BY <3>4, <4>1, EndSectionBlocks
    <3>5. QED
      BY <3>1, <3>2, <3>3, <3>4
  <2>4. CASE Plain /\ UNCHANGED calls
    <3>1. CASE PreEncodeNothing
      <4>1. UNCHANGED <<ends, rawLengths>>
        BY <3>1 DEF Codec, BlockCloses, PreEncodeNothing
      <4>2. QED
        BY <2>4, <3>1, <4>1, OpenBlocks
    <3>2. CASE FinalizeStart
      BY <1>4, <2>4, <3>2 DEF FinalizeStart
    <3>3. CASE FinalizeStep \/ FinalizeEnd
      BY <1>4, <2>4, <3>3 DEF FinalizeStep, FinalizeEnd
    <3>4. CASE Overflow \/ \E sub \in SubRanges : ProbabilityError(sub)
      BY <1>4, <2>4, <3>4 DEF Overflow, ProbabilityError
    <3>5. QED
      BY <2>4, <3>1, <3>2, <3>3, <3>4 DEF Plain
  <2>5. QED
    BY <1>5, <2>1, <2>2, <2>3, <2>4 DEF EncoderStep
<1>6. CASE DecoderReadBit \/ DecoderPreBit \/ DecoderBit \/ DecoderWrongBit \/ DecoderEnd
  <2>1. UNCHANGED <<evars, calls>>
    BY <1>6 DEF DecoderReadBit, DecoderPreBit, DecoderBit, DecoderWrongBit, DecoderEnd, Answered
  <2>2. UNCHANGED <<calls, callvars, phase>>
    BY <2>1 DEF evars, callvars
  <2>3. QED
    BY <1>4, <2>2
<1>7. QED
  BY <1>5, <1>6 DEF Codec, CNext

-----------------------------------------------------------------------------
(* The unpacker.                                                           *)

\* The unpacker is in block i and has as many symbols to go as are left of it.
Counting(i) ==
  /\ headers = [n \in 1 .. Len(ends) + 1 - i |-> AsmLengths[i + n]]
  /\ IF symbol = 0 THEN i = 1 /\ count = 1 /\ left = AsmLengths[1]
     ELSE /\ left \in 1 .. LenWord - 1 /\ count \in 1 .. ByteBits
          /\ Start(i) <= symbol
          /\ symbol + (left - 1) * ByteBits + count = ends[i] - 1

\* The single section unpacker only knows where in a byte it is.
Bytewise ==
  /\ count \in 1 .. ByteBits
  /\ symbol = 0 => count = 1
  /\ \E n \in Nat : symbol + count - 1 = n * ByteBits

OnTheWay(j) ==
  /\ aPhase = "running" /\ symbol \in 0 .. Len(calls) - 1
  /\ \A k \in 1 .. symbol : Accepts(k)
  /\ \E v \in Int : Registers(j, v)
  /\ IF Exactly THEN \E i \in DOMAIN ends : Counting(i) ELSE Bytewise

\* Some call gave the number sent away, or would stop the unpacker.
Refused == \E k \in 1 .. Len(calls) : ~Accepts(k)

UnpackerInv ==
  IF verdict = "idle" THEN symbol = 0
  ELSE /\ phase = "done" /\ Framed /\ (dPhase # "running" \/ Unpacked)
       /\ verdict \in {"unpacking", "right", "wrong"}
       /\ verdict = "wrong" => Refused
       /\ verdict = "right" => ~Refused
       /\ verdict # "wrong" =>
            \E j \in DOMAIN marks :
              /\ IF started THEN LookedAt(Place(j)) ELSE j = 1 /\ LookedAt(0)
              /\ verdict = "unpacking" => OnTheWay(j)

\* What the unpacker is asked next is no end.
LEMMA AskedIsNoEnd ==
  ASSUME EncoderInv, BlocksInv, symbol \in 0 .. Len(calls) - 1,
         NEW i \in DOMAIN ends, Counting(i)
  PROVE  calls[symbol + 1].op # "end" /\ (symbol = 0 => calls[symbol + 1].op = "pre")
<1>1. CASE symbol = 0
  <2>1. calls # <<>>
    BY <1>1 DEF EncoderInv, Types
  <2>2. symbol + 1 = 1
    BY <1>1
  <2>3. QED
    BY <1>1, <2>1, <2>2 DEF BlocksInv
<1>2. CASE symbol # 0
  <2>1. /\ left \in 1 .. LenWord - 1 /\ count \in 1 .. ByteBits /\ Start(i) <= symbol
        /\ symbol + (left - 1) * ByteBits + count = ends[i] - 1
    BY <1>2 DEF Counting
  <2>2. (left - 1) * ByteBits \in Nat /\ ends[i] \in Nat /\ Start(i) \in Nat
    <3>1. ByteBits \in Nat /\ left - 1 \in Nat
      BY <2>1, BoundAssumption, LenWordAssumption
    <3>2. ends[i] \in Nat /\ Start(i) \in Nat
      BY DEF BlocksInv, BlockCalls
    <3>3. QED
      BY <3>1, <3>2
  <2>3. symbol + 1 \in Start(i) + 1 .. ends[i] - 1
    BY <2>1, <2>2
  <2>4. QED
    BY <1>2, <2>3 DEF BlocksInv, BlockCalls
<1>3. QED
  BY <1>1, <1>2

\* Where a symbol is in its byte.
LEMMA ByteRemainder ==
  ASSUME NEW q \in Nat, NEW d \in Nat, d >= 1, NEW r \in 0 .. d - 1
  PROVE  (q * d + r) % d = r
OBVIOUS

LEMMA SmallRemainder == \A x, q \in Nat : x < q => x % q = x
OBVIOUS

LEMMA HeadAndTail ==
  ASSUME NEW S, NEW s \in Seq(S), Len(s) >= 1
  PROVE  Head(s) = s[1] /\ Tail(s) = [n \in 1 .. Len(s) - 1 |-> s[n + 1]]
<1>1. s # <<>>
  OBVIOUS
<1>2. Head(s) = s[1]
  BY <1>1
<1>3. /\ Tail(s) \in Seq(S) /\ Len(Tail(s)) = Len(s) - 1
      /\ \A n \in 1 .. Len(s) - 1 : Tail(s)[n] = s[n + 1]
  BY <1>1
<1>4. \A q \in Seq(S) : q = [n \in 1 .. Len(q) |-> q[n]]
  OBVIOUS
<1>5. Tail(s) = [n \in 1 .. Len(s) - 1 |-> Tail(s)[n]]
  BY <1>3, <1>4
<1>6. QED
  BY <1>2, <1>3, <1>5

\* The length words: what CreateAsmHeader makes of the lengths, and what the
\* unpacker has left of them in block i.
LEMMA LengthWords ==
  ASSUME BlocksInv, NEW i \in DOMAIN ends,
         headers = [n \in 1 .. Len(ends) + 1 - i |-> AsmLengths[i + n]]
  PROVE  /\ Len(ends) \in Nat /\ i \in 1 .. Len(ends)
         /\ Head(headers) = IF i = Len(ends) THEN 0 ELSE rawLengths[i + 1]
         /\ Tail(headers) = [n \in 1 .. Len(ends) + 1 - (i + 1) |-> AsmLengths[(i + 1) + n]]
<1>1. Len(ends) \in Nat /\ DOMAIN ends = 1 .. Len(ends) /\ Len(rawLengths) = Len(ends)
      /\ i \in 1 .. Len(ends)
  BY DEF BlocksInv
<1>2. PICK m \in Nat : m = Len(ends) + 1 - i /\ m >= 1
  BY <1>1
<1>3. headers \in [1 .. m -> {AsmLengths[i + n] : n \in 1 .. m}] /\ headers = [n \in 1 .. m |-> AsmLengths[i + n]]
  BY <1>2
<1>4. headers \in Seq({AsmLengths[i + n] : n \in 1 .. m}) /\ Len(headers) = m
  BY <1>3, FunctionIsSequence
<1>5. Head(headers) = AsmLengths[i + 1]
  <2>1. headers # <<>> /\ 1 \in 1 .. m
    BY <1>2, <1>4
  <2>2. Head(headers) = headers[1]
    BY <1>4, <2>1
  <2>3. QED
    BY <1>3, <2>1, <2>2
<1>6. AsmLengths[i + 1] = IF i = Len(ends) THEN 0 ELSE rawLengths[i + 1]
  <2>1. i + 1 \in 1 .. Len(rawLengths) + 1 /\ i + 1 # 1
    BY <1>1
  <2>2. CASE i = Len(ends)
    BY <1>1, <2>1, <2>2 DEF AsmLengths
  <2>3. CASE i # Len(ends)
    <3>1. i + 1 \in DOMAIN ends /\ ~(i + 1 > Len(rawLengths))
      BY <1>1, <2>3
    <3>2. rawLengths[i + 1] \in 1 .. LenWord - 1
      BY <3>1 DEF BlocksInv, BlockCalls
    <3>3. AsmLengths[i + 1] = (rawLengths[i + 1] + 0) % LenWord
      BY <2>1, <3>1 DEF AsmLengths
    <3>4. \A x, q \in Nat : x < q => x % q = x
      BY SmallRemainder
    <3>5. rawLengths[i + 1] + 0 \in Nat /\ rawLengths[i + 1] + 0 = rawLengths[i + 1]
          /\ rawLengths[i + 1] + 0 < LenWord
      BY <3>2, LenWordAssumption
    <3>6. QED
      BY <2>3, <3>3, <3>4, <3>5, LenWordAssumption
  <2>4. QED
    BY <2>2, <2>3
<1>7. Tail(headers) = [n \in 1 .. m - 1 |-> headers[n + 1]]
  BY <1>2, <1>4
<1>8. ASSUME NEW n \in 1 .. m - 1 PROVE headers[n + 1] = AsmLengths[(i + 1) + n]
  <2>1. n + 1 \in 1 .. m /\ i + (n + 1) = (i + 1) + n
    BY <1>1, <1>2
  <2>2. QED
    BY <1>3, <2>1
<1>9. m - 1 = Len(ends) + 1 - (i + 1)
  BY <1>1, <1>2
<1>10. QED
  BY <1>1, <1>5, <1>6, <1>7, <1>8, <1>9

\* Inside a block the next call after this one is no end either.
LEMMA NotYet ==
  ASSUME EncoderInv, BlocksInv, NEW i \in DOMAIN ends, NEW k \in Nat, NEW next,
         Start(i) <= k, k + 1 < ends[i], next = PastEnd(k)
  PROVE  next = k /\ k < Len(calls) /\ Len(calls) \in Nat
<1>1. /\ ends[i] \in 1 .. Len(calls) /\ Start(i) \in Nat /\ Len(calls) \in Nat
      /\ \A m \in Start(i) + 1 .. ends[i] - 1 : calls[m].op # "end"
  <2>1. DOMAIN calls = 1 .. Len(calls) /\ Len(calls) \in Nat
    BY DEF EncoderInv, Types
  <2>2. BlockCalls(i)
    BY DEF BlocksInv
  <2>3. QED
    BY <2>1, <2>2, Zenon DEF BlockCalls
<1>2. k + 1 \in Start(i) + 1 .. ends[i] - 1
  BY <1>1
<1>3. QED
  BY <1>1, <1>2 DEF PastEnd

\* A symbol more is counted, and the words run out with the calls.
LEMMA CountsOn ==
  ASSUME EncoderInv, BlocksInv, EncoderType = "MultiAsm", phase = "done",
         symbol \in 0 .. Len(calls) - 1, NEW i \in DOMAIN ends, Counting(i),
         aPhase = "running", NEW sub, A!MultiSymbol(sub), symbol' = PastEnd(symbol + 1),
         UNCHANGED <<calls, rawLengths, ends>>
  PROVE  IF symbol' = Len(calls) THEN aPhase' = "done"
         ELSE /\ aPhase' = "running" /\ symbol' \in 0 .. Len(calls) - 1
              /\ \E n \in DOMAIN ends : Counting(n)'
<1> DEFINE rest == (left - 1) % LenWord
<1>1. /\ Len(calls) \in Nat /\ Len(ends) \in Nat /\ i \in 1 .. Len(ends)
      /\ DOMAIN ends = 1 .. Len(ends) /\ Len(rawLengths) = Len(ends)
      /\ ByteBits \in Nat /\ ByteBits >= 1 /\ LenWord \in Nat
  BY BoundAssumption, LenWordAssumption DEF BlocksInv, EncoderInv, Types
<1>2. /\ rawLengths[i] \in 1 .. LenWord - 1 /\ ends[i] \in 1 .. Len(calls)
      /\ calls[ends[i]].op = "end" /\ Start(i) \in Nat
      /\ ends[i] = Start(i) + rawLengths[i] * ByteBits + 1
  <2>1. DOMAIN calls = 1 .. Len(calls)
    BY DEF EncoderInv, Types
  <2>2. BlockCalls(i)
    BY DEF BlocksInv
  <2>3. QED
    BY <2>1, <2>2, Zenon DEF BlockCalls
<1>3. headers = [n \in 1 .. Len(ends) + 1 - i |-> AsmLengths[i + n]]
  BY DEF Counting
<1>4. \A n : Start(n)' = Start(n)
  BY DEF Start
<1>5. AsmLengths' = AsmLengths
  BY DEF AsmLengths
<1>6. /\ count' = IF count = 1 THEN ByteBits ELSE count - 1
      /\ count # 1 => UNCHANGED <<left, headers, aPhase>>
      /\ count = 1 /\ rest # 0 => left' = rest /\ UNCHANGED <<headers, aPhase>>
      /\ count = 1 /\ rest = 0 =>
           /\ left' = Head(headers) /\ headers' = Tail(headers)
           /\ aPhase' = IF Head(headers) = 0 THEN "done" ELSE "running"
  BY DEF A!MultiSymbol, A!ByteFull
<1>7. \A x, q \in Nat : x < q => x % q = x
  BY SmallRemainder
<1>7a. ends[i] \in Nat /\ ends[i] >= 1 /\ ends[i] <= Len(calls) /\ Start(i) \in Nat /\ symbol \in Nat
  BY <1>1, <1>2
<1>8. ASSUME symbol + 2 < ends[i], Start(i) <= symbol + 1, left' \in 1 .. LenWord - 1,
             count' \in 1 .. ByteBits, UNCHANGED <<headers, aPhase>>,
             (symbol + 1) + (left' - 1) * ByteBits + count' = ends[i] - 1
      PROVE  /\ symbol' # Len(calls) /\ aPhase' = "running" /\ symbol' \in 0 .. Len(calls) - 1
             /\ Counting(i)'
  <2>1. PICK k \in Nat : k = symbol + 1
    BY <1>1
  <2>2. Start(i) <= k /\ k + 1 < ends[i] /\ k # 0
    BY <1>1, <1>2, <1>8, <2>1
  <2>3. symbol' = symbol + 1 /\ symbol' < Len(calls)
    BY <2>1, <2>2, NotYet
  <2>4. symbol' # 0 /\ symbol' \in 0 .. Len(calls) - 1
    BY <1>1, <2>1, <2>2, <2>3
  <2>5. Counting(i)'
    BY <1>3, <1>4, <1>5, <1>8, <2>3, <2>4 DEF Counting
  <2>6. QED
    BY <1>1, <1>8, <2>4, <2>5
<1>9. CASE symbol = 0
  <2>1. i = 1 /\ count = 1 /\ left = AsmLengths[1] /\ Start(i) = 1
    BY <1>9 DEF Counting, Start
  <2>2. left = (rawLengths[i] + 1) % LenWord
    BY <1>1, <2>1 DEF AsmLengths
  <2>3. rest = rawLengths[i]
    <3>1. CASE rawLengths[i] + 1 < LenWord
      <4>1. left = rawLengths[i] + 1
        BY <1>1, <1>2, <1>7, <2>2, <3>1
      <4>2. left - 1 = rawLengths[i] /\ rawLengths[i] \in Nat /\ rawLengths[i] < LenWord
        BY <1>1, <1>2, <4>1
      <4>3. QED
        BY <1>1, <1>7, <4>2
    <3>2. CASE rawLengths[i] + 1 = LenWord
      <4>1. \A q \in Nat : q >= 2 => q % q = 0 /\ (0 - 1) % q = q - 1
        OBVIOUS
      <4>2. LenWord >= 2 /\ rawLengths[i] = LenWord - 1
        BY <1>1, <1>2, <3>2
      <4>3. QED
        BY <1>1, <2>2, <3>2, <4>1, <4>2
    <3>3. QED
      BY <1>1, <1>2, <3>1, <3>2
  <2> HIDE DEF rest
  <2>4. left' = rawLengths[i] /\ count' = ByteBits /\ UNCHANGED <<headers, aPhase>>
    BY <1>2, <1>6, <2>1, <2>3
  <2>5. rawLengths[i] * ByteBits = (rawLengths[i] - 1) * ByteBits + ByteBits
        /\ (rawLengths[i] - 1) * ByteBits \in Nat
    <3>1. \A x \in Nat : x >= 1 => x * ByteBits = (x - 1) * ByteBits + ByteBits /\ (x - 1) * ByteBits \in Nat
      BY <1>1
    <3>2. QED
      BY <1>1, <1>2, <3>1
  <2>6. ends[i] = 1 + ((left' - 1) * ByteBits + ByteBits) + 1
    BY <1>2, <2>1, <2>4, <2>5
  <2>7. symbol + 2 < ends[i] /\ (symbol + 1) + (left' - 1) * ByteBits + count' = ends[i] - 1
    BY <1>1, <1>9, <2>4, <2>5, <2>6
  <2>8. QED
    BY <1>1, <1>2, <1>8, <1>9, <2>1, <2>4, <2>7
<1>10. CASE symbol # 0
  <2>1. /\ left \in 1 .. LenWord - 1 /\ count \in 1 .. ByteBits /\ Start(i) <= symbol
        /\ symbol + (left - 1) * ByteBits + count = ends[i] - 1
    BY <1>10 DEF Counting
  <2>2. (left - 1) * ByteBits \in Nat /\ rest = left - 1
        /\ (left > 1 => (left - 1) * ByteBits = (left - 2) * ByteBits + ByteBits
                        /\ (left - 2) * ByteBits \in Nat)
        /\ (left = 1 => (left - 1) * ByteBits = 0)
    <3>1. \A x \in Nat : /\ x * ByteBits \in Nat
                         /\ x >= 1 => x * ByteBits = (x - 1) * ByteBits + ByteBits
                                      /\ (x - 1) * ByteBits \in Nat
                         /\ x = 0 => x * ByteBits = 0
      BY <1>1
    <3>2. left - 1 \in Nat /\ (left - 1) - 1 = left - 2 /\ left - 1 < LenWord
      BY <1>1, <2>1
    <3>3. rest = left - 1
      BY <1>1, <1>7, <3>2
    <3>4. QED
      BY <2>1, <3>1, <3>2, <3>3
  <2> HIDE DEF rest
  <2>3. CASE count # 1
    <3>1. left' = left /\ count' = count - 1 /\ UNCHANGED <<headers, aPhase>>
      BY <1>6, <2>3
    <3>2. symbol + 2 < ends[i] /\ (symbol + 1) + (left' - 1) * ByteBits + count' = ends[i] - 1
          /\ Start(i) <= symbol + 1 /\ count' \in 1 .. ByteBits
      <4>1. PICK x \in Nat : x = (left - 1) * ByteBits /\ x = (left' - 1) * ByteBits
        BY <2>2, <3>1
      <4>2. /\ symbol + x + count = ends[i] - 1 /\ count \in 1 .. ByteBits /\ Start(i) <= symbol
        BY <2>1, <4>1
      <4>3. symbol + 2 < ends[i] /\ (symbol + 1) + x + (count - 1) = ends[i] - 1
            /\ Start(i) <= symbol + 1 /\ count - 1 \in 1 .. ByteBits
        BY <1>1, <1>7a, <2>3, <4>2
      <4>4. QED
        BY <3>1, <4>1, <4>3
    <3>3. QED
      BY <1>8, <2>1, <3>1, <3>2
  <2>4. CASE count = 1 /\ left # 1
    <3>1. left' = left - 1 /\ count' = ByteBits /\ UNCHANGED <<headers, aPhase>>
      BY <1>6, <2>1, <2>2, <2>4
    <3>2. left' - 1 = left - 2 /\ left' \in 1 .. LenWord - 1 /\ left > 1
      BY <1>1, <2>1, <2>4, <3>1
    <3>3. symbol + 2 < ends[i] /\ (symbol + 1) + (left' - 1) * ByteBits + count' = ends[i] - 1
          /\ Start(i) <= symbol + 1 /\ count' \in 1 .. ByteBits
      <4>1. PICK x \in Nat : /\ x = (left - 2) * ByteBits /\ x = (left' - 1) * ByteBits
                             /\ (left - 1) * ByteBits = x + ByteBits
        BY <2>2, <3>2
      <4>2. symbol + (x + ByteBits) + 1 = ends[i] - 1
        BY <2>1, <2>4, <4>1
      <4>3. symbol + 2 < ends[i] /\ (symbol + 1) + x + ByteBits = ends[i] - 1
            /\ Start(i) <= symbol + 1 /\ ByteBits \in 1 .. ByteBits
        <5>1. Start(i) <= symbol
          BY <2>1
        <5>2. QED
          BY <1>1, <1>7a, <4>2, <5>1
      <4>4. QED
        BY <3>1, <4>1, <4>3
    <3>4. QED
      BY <1>8, <3>1, <3>2, <3>3
  <2>5. CASE count = 1 /\ left = 1
    <3>1. symbol + 2 = ends[i]
      BY <1>1, <1>2, <2>1, <2>2, <2>5
    <3>2. symbol' = ends[i]
      <4>1. symbol + 1 < Len(calls) /\ (symbol + 1) + 1 = ends[i]
        BY <1>1, <1>2, <3>1
      <4>2. QED
        BY <1>2, <4>1 DEF PastEnd
    <3>3. /\ left' = Head(headers) /\ headers' = Tail(headers)
          /\ aPhase' = IF Head(headers) = 0 THEN "done" ELSE "running"
          /\ count' = ByteBits
      BY <1>6, <2>2, <2>5
    <3>4. /\ Head(headers) = IF i = Len(ends) THEN 0 ELSE rawLengths[i + 1]
          /\ Tail(headers) = [n \in 1 .. Len(ends) + 1 - (i + 1) |-> AsmLengths[(i + 1) + n]]
      BY <1>3, LengthWords
    <3>5. CASE i = Len(ends)
      <4>1. ends[i] = Len(calls)
        <5>1. section = "closed" /\ ends # <<>>
          BY DEF BlocksInv
        <5>2. QED
          BY <3>5, <5>1 DEF BlocksInv
      <4>2. QED
        BY <3>2, <3>3, <3>4, <3>5, <4>1
    <3>6. CASE i # Len(ends)
      <4>1. PICK n \in DOMAIN ends : n = i + 1 /\ n # 1 /\ n - 1 = i
        BY <1>1, <3>6
      <4>2. /\ rawLengths[n] \in 1 .. LenWord - 1 /\ ends[n] \in 1 .. Len(calls)
            /\ Start(n) = ends[i] /\ ends[n] = ends[i] + rawLengths[n] * ByteBits + 1
        <5>1. BlockCalls(n) /\ Start(n) = ends[i] /\ DOMAIN calls = 1 .. Len(calls)
          BY <4>1 DEF BlocksInv, Start, EncoderInv, Types
        <5>2. QED
          BY <5>1 DEF BlockCalls
      <4>3. left' = rawLengths[n] /\ aPhase' = "running"
        BY <3>3, <3>4, <3>6, <4>1, <4>2
      <4>4. rawLengths[n] * ByteBits = (rawLengths[n] - 1) * ByteBits + ByteBits
            /\ (rawLengths[n] - 1) * ByteBits \in Nat
        <5>1. \A x \in Nat : x >= 1 => x * ByteBits = (x - 1) * ByteBits + ByteBits /\ (x - 1) * ByteBits \in Nat
          BY <1>1
        <5>2. QED
          BY <1>1, <4>2, <5>1
      <4>11. PICK x \in Nat : /\ x = (rawLengths[n] - 1) * ByteBits /\ x = (left' - 1) * ByteBits
                             /\ ends[n] = ends[i] + (x + ByteBits) + 1
        BY <4>2, <4>3, <4>4
      <4>5. symbol' + (left' - 1) * ByteBits + count' = ends[n] - 1
        <5>1. ends[i] + x + ByteBits = ends[n] - 1
          BY <1>1, <1>2, <4>11
        <5>2. QED
          BY <3>2, <3>3, <4>11, <5>1
      <4>6. symbol' # Len(calls) /\ symbol' \in 0 .. Len(calls) - 1 /\ symbol' # 0
        <5>1. ends[n] = ends[i] + (x + ByteBits) + 1 /\ ends[n] \in 1 .. Len(calls)
          BY <4>2, <4>11
        <5>2. ends[i] < ends[n] /\ ends[n] <= Len(calls) /\ ends[n] \in Nat
          BY <1>1, <1>7a, <5>1
        <5>3. QED
          BY <1>1, <1>7a, <3>2, <5>2
      <4>7. headers' = [m \in 1 .. Len(ends) + 1 - n |-> AsmLengths[n + m]]
        BY <3>3, <3>4, <4>1
      <4>8. count' \in 1 .. ByteBits /\ left' \in 1 .. LenWord - 1 /\ Start(n) <= symbol'
        <5>1. ends[i] <= ends[i] /\ ByteBits \in 1 .. ByteBits
          BY <1>1, <1>2
        <5>2. QED
          BY <3>2, <3>3, <4>2, <4>3, <5>1
      <4>9. Counting(n)'
        BY <1>4, <1>5, <4>5, <4>6, <4>7, <4>8 DEF Counting
      <4>10. QED
        BY <4>3, <4>6, <4>9
    <3>7. QED
      BY <3>5, <3>6
  <2>6. QED
    BY <2>3, <2>4, <2>5
<1>11. QED
  BY <1>9, <1>10

-----------------------------------------------------------------------------
(* The end of the one section.                                             *)

\* The flag of a byte shows where the symbol is in it.
LEMMA ByteEnds ==
  ASSUME Bytewise, symbol \in Nat
  PROVE  A!ByteFull <=> symbol % ByteBits = 0
<1>1. /\ count \in 1 .. ByteBits /\ ByteBits \in Nat /\ ByteBits >= 2
  BY BoundAssumption, ByteAssumption DEF Bytewise
<1>2. PICK n \in Nat : symbol + count - 1 = n * ByteBits
  BY DEF Bytewise
<1>3. CASE count = 1
  <2>1. symbol = n * ByteBits + 0
    BY <1>1, <1>2, <1>3
  <2>2. symbol % ByteBits = 0
    BY <1>1, <2>1, ByteRemainder
  <2>3. QED
    BY <1>3, <2>2 DEF A!ByteFull
<1>4. CASE count # 1
  <2>1. n # 0
    <3>1. 0 * ByteBits = 0
      BY <1>1
    <3>2. QED
      BY <1>1, <1>2, <1>4, <3>1
  <2>2. PICK m \in Nat : n = m + 1
    <3>1. n - 1 \in Nat /\ n = (n - 1) + 1
      BY <2>1
    <3>2. QED
      BY <3>1
  <2>3. n * ByteBits = m * ByteBits + ByteBits /\ m * ByteBits \in Nat
    BY <1>1, <2>2
  <2>4. symbol = m * ByteBits + (ByteBits - count + 1)
        /\ ByteBits - count + 1 \in 1 .. ByteBits - 1
    BY <1>1, <1>2, <1>4, <2>3
  <2>5. symbol % ByteBits = ByteBits - count + 1
    <3>1. PICK r \in 0 .. ByteBits - 1 : r = ByteBits - count + 1
      BY <1>1, <2>4
    <3>2. (m * ByteBits + r) % ByteBits = r
      BY <1>1, ByteRemainder
    <3>3. QED
      BY <2>4, <3>1, <3>2
  <2>6. QED
    BY <1>1, <1>4, <2>4, <2>5 DEF A!ByteFull
<1>5. QED
  BY <1>3, <1>4

\* The end is the last call, and one symbol behind the end of a byte.
LEMMA WhereTheEndIs ==
  ASSUME EncoderInv, OneSection, BlocksInv, ~Exactly, phase = "done"
  PROVE  /\ Len(calls) \in Nat /\ Len(calls) >= 3 /\ calls[Len(calls)].op = "end"
         /\ calls[1].op = "pre" /\ (Len(calls) - 1) % ByteBits = 1
         /\ \A k \in 1 .. Len(calls) : calls[k].op = "end" <=> k = Len(calls)
<1>1. /\ ends # <<>> /\ Len(ends) \in Nat /\ 1 \in DOMAIN ends /\ Len(ends) \in DOMAIN ends
      /\ section = "closed" /\ ends[Len(ends)] = Len(calls)
      /\ DOMAIN calls = 1 .. Len(calls) /\ Len(calls) \in Nat
  <2>1. ends # <<>> /\ section = "closed" /\ ends \in Seq(Nat) /\ ends[Len(ends)] = Len(calls)
    BY DEF BlocksInv
  <2>2. Len(ends) \in Nat /\ 1 \in DOMAIN ends /\ Len(ends) \in DOMAIN ends
    BY <2>1
  <2>3. DOMAIN calls = 1 .. Len(calls) /\ Len(calls) \in Nat
    BY DEF EncoderInv, Types
  <2>4. QED
    BY <2>1, <2>2, <2>3
<1>2. BlockCalls(1) /\ BlockCalls(Len(ends)) /\ Start(1) = 1
  BY <1>1 DEF BlocksInv, Start
<1>3. /\ rawLengths[1] \in 1 .. LenWord - 1 /\ ends[1] \in DOMAIN calls
      /\ calls[ends[1]].op = "end" /\ ends[1] = 1 + rawLengths[1] * ByteBits + 1
  BY <1>2 DEF BlockCalls
<1>4. calls[Len(calls)].op = "end" /\ Len(calls) \in DOMAIN calls
  BY <1>1, <1>2 DEF BlockCalls
<1>5. \A k \in DOMAIN calls : calls[k].op = "end" => k = Len(calls)
  BY DEF OneSection
<1>6. Len(calls) - 1 = rawLengths[1] * ByteBits + 1
  <2>1. ends[1] = Len(calls)
    BY <1>3, <1>5
  <2>2. PICK x \in Nat : x = rawLengths[1] * ByteBits
    <3>1. \A y, z \in Nat : y * z \in Nat
      OBVIOUS
    <3>2. rawLengths[1] \in Nat /\ ByteBits \in Nat
      BY <1>3, ByteAssumption, BoundAssumption
    <3>3. QED
      BY <3>1, <3>2
  <2>3. Len(calls) = 1 + x + 1
    BY <1>3, <2>1, <2>2
  <2>4. QED
    BY <2>2, <2>3
<1>7. rawLengths[1] \in Nat /\ rawLengths[1] >= 1 /\ ByteBits \in Nat /\ ByteBits >= 2
  BY <1>3, ByteAssumption, BoundAssumption
<1>8. (Len(calls) - 1) % ByteBits = 1
  <2>1. 1 \in 0 .. ByteBits - 1
    BY <1>7
  <2>2. QED
    BY <1>6, <1>7, <2>1, ByteRemainder
<1>9. Len(calls) >= 3
  <2>1. PICK x \in Nat : x = rawLengths[1] * ByteBits /\ x >= 1
    <3>1. \A y, z \in Nat : y >= 1 /\ z >= 2 => y * z \in Nat /\ y * z >= 1
      OBVIOUS
    <3>2. QED
      BY <1>7, <3>1
  <2>2. QED
    BY <1>1, <1>6, <2>1
<1>10. calls[1].op = "pre"
  <2>1. calls # <<>>
    BY <1>1, <1>9
  <2>2. QED
    BY <2>1 DEF BlocksInv
<1>11. QED
  BY <1>1, <1>4, <1>5, <1>8, <1>9, <1>10

\* A symbol further in the byte.
LEMMA BytewiseOn ==
  ASSUME Bytewise, symbol \in Nat, symbol' = symbol + 1,
         count' = IF A!ByteFull THEN ByteBits ELSE count - 1
  PROVE  Bytewise'
<1>1. /\ count \in 1 .. ByteBits /\ ByteBits \in Nat /\ ByteBits >= 2
  BY BoundAssumption, ByteAssumption DEF Bytewise
<1>2. PICK n \in Nat : symbol + count - 1 = n * ByteBits
  BY DEF Bytewise
<1>3. CASE count = 1
  <2>1. count' = ByteBits
    BY <1>3 DEF A!ByteFull
  <2>2. (n + 1) * ByteBits = n * ByteBits + ByteBits /\ n * ByteBits \in Nat /\ n + 1 \in Nat
    BY <1>1
  <2>3. symbol' + count' - 1 = (n + 1) * ByteBits
    BY <1>1, <1>2, <1>3, <2>1, <2>2
  <2>4. \E m \in Nat : symbol' + count' - 1 = m * ByteBits
    BY <2>2, <2>3
  <2>5. count' \in 1 .. ByteBits /\ (symbol' = 0 => count' = 1)
    BY <1>1, <2>1
  <2>6. QED
    BY <2>4, <2>5, Zenon DEF Bytewise
<1>4. CASE count # 1
  <2>1. count' = count - 1 /\ count' \in 1 .. ByteBits
    BY <1>1, <1>4 DEF A!ByteFull
  <2>2. symbol' + count' - 1 = n * ByteBits /\ symbol' # 0
    BY <1>1, <1>2, <2>1
  <2>3. \E m \in Nat : symbol' + count' - 1 = m * ByteBits
    BY <2>2
  <2>4. count' \in 1 .. ByteBits /\ (symbol' = 0 => count' = 1)
    BY <2>1, <2>2
  <2>5. QED
    BY <2>3, <2>4, Zenon DEF Bytewise
<1>5. QED
  BY <1>3, <1>4

-----------------------------------------------------------------------------
(* The steps.                                                              *)

AInv == CodecInv /\ Doublings /\ (Framed => BlocksInv) /\ UnpackerInv

\* When the C++ decoder is done with its stream it does nothing more.
LEMMA DecoderRests ==
  ASSUME DecoderInv, dPhase # "running" \/ Unpacked
  PROVE  ~(DecoderReadBit \/ DecoderPreBit \/ DecoderBit \/ DecoderWrongBit \/ DecoderEnd)
<1>1. CASE dPhase # "running"
  BY <1>1 DEF DecoderReadBit, DecoderPreBit, DecoderBit, DecoderWrongBit, DecoderEnd,
              D!ReadBit, D!Looping, D!PreDecode, D!Decode, D!ProcessEndOfSection, D!Ready
<1>2. CASE Unpacked
  <2>1. ~More
    BY <1>2 DEF Unpacked
  <2>2. ~DecoderReadBit
    <3>1. dRange >= Threshold
      BY <1>2 DEF Unpacked, D!Ready
    <3>2. ~(dRange < Threshold)
      BY <3>1, Widths DEF DecoderInv
    <3>3. QED
      BY <3>2 DEF DecoderReadBit, D!ReadBit, D!Looping
  <2>3. QED
    BY <2>1, <2>2 DEF DecoderPreBit, DecoderBit, DecoderWrongBit, DecoderEnd
<1>3. QED
  BY <1>1, <1>2

LEMMA UnpackerWaits ==
  ASSUME UnpackerInv, UNCHANGED allvars
  PROVE  UnpackerInv'
<1>1. /\ UNCHANGED <<evars, calls, marks, dvars, replayed, rawLengths, ends, symbol, verdict>>
      /\ UNCHANGED <<mem, ptr, aRange, aValue, started, count, left, headers, aPhase>>
  BY DEF allvars, vars, avars
<1>2. UNCHANGED <<phase, dest, dPhase, dRange>>
  BY <1>1 DEF evars, dvars
<1>3. \A s : LookedAt(s)' = LookedAt(s)
  BY <1>1, <1>2 DEF LookedAt, Bytes, Byte, Remaining
<1>4. \A k : Accepts(k)' = Accepts(k)
  BY <1>1, SameJudgement
<1>5. \A j, v : Registers(j, v)' = Registers(j, v)
  BY <1>1 DEF Registers, InStep, WidthAfter, LowAfter
<1>6. \A i : Counting(i)' = Counting(i)
  BY <1>1 DEF Counting, AsmLengths, Start
<1>7. Bytewise' = Bytewise
  BY <1>1 DEF Bytewise
<1>8. \A j : OnTheWay(j)' = OnTheWay(j)
  BY <1>1, <1>4, <1>5, <1>6, <1>7 DEF OnTheWay, Exactly
<1>9. Refused' = Refused /\ Framed' = Framed /\ Unpacked' = Unpacked
  BY <1>1, <1>2, <1>4 DEF Refused, Framed, Unpacked, More, D!Ready
<1>10. verdict = "idle" => UnpackerInv'
  BY <1>1 DEF UnpackerInv
<1>11. verdict # "idle" => UnpackerInv'
  <2> SUFFICES ASSUME verdict # "idle" PROVE UnpackerInv'
    OBVIOUS
  <2>1. /\ phase' = "done" /\ Framed' /\ (dPhase' # "running" \/ Unpacked')
        /\ verdict' \in {"unpacking", "right", "wrong"}
        /\ (verdict' = "wrong" => Refused')
        /\ (verdict' = "right" => ~Refused')
    BY <1>1, <1>2, <1>9 DEF UnpackerInv
  <2>2. verdict # "wrong" =>
          \E j \in DOMAIN marks :
            /\ IF started THEN LookedAt(Place(j)) ELSE j = 1 /\ LookedAt(0)
            /\ verdict = "unpacking" => OnTheWay(j)
    BY DEF UnpackerInv
  <2>3. verdict' # "wrong" =>
          \E j \in DOMAIN marks' :
            /\ IF started' THEN LookedAt(Place(j))' ELSE j = 1 /\ LookedAt(0)'
            /\ verdict' = "unpacking" => OnTheWay(j)'
    BY <1>1, <1>3, <1>8, <2>2
  <2>4. verdict' # "idle"
    BY <1>1
  <2>5. QED
    BY <2>1, <2>3, <2>4 DEF UnpackerInv
<1>12. QED
  BY <1>10, <1>11

\* What laturi and the loader hand over.
LEMMA LoadInv ==
  ASSUME EncoderInv, Doublings, BlocksInv, UnpackerInv, Load
  PROVE  UnpackerInv'
<1>1. /\ phase = "done" /\ verdict = "idle" /\ verdict' = "unpacking" /\ symbol = 0 /\ symbol' = 0
      /\ UNCHANGED <<vars, rawLengths, ends>> /\ A!Enter(Bytes(dest), AsmLengths) /\ Framed
  BY DEF Load, UnpackerInv, Framed
<1>10. (dPhase # "running" \/ Unpacked)'
  <2>1. dPhase # "running" \/ Unpacked
    BY <1>1 DEF Load, Finished
  <2>2. UNCHANGED <<phase, dPhase, dRange, replayed, calls>>
    BY <1>1 DEF vars, evars, dvars
  <2>3. QED
    BY <2>1, <2>2 DEF Unpacked, More, D!Ready
<1>2. UNCHANGED <<phase, dest, calls, marks, rawLengths, ends>>
  BY <1>1 DEF vars, evars
<1>3. /\ mem' = Bytes(dest) /\ ptr' = 0 /\ aRange' = 1 /\ aValue' \in 0 .. 4 * Threshold - 1
      /\ started' = FALSE /\ count' = 1 /\ left' = Head(AsmLengths) /\ headers' = Tail(AsmLengths)
      /\ aPhase' = "running"
  BY <1>1 DEF A!Enter, A!Word
<1>4. Len(dest) \in Nat /\ Len(dest) >= StreamByte + 1
  BY <1>1, FramingComplete
<1>5. LookedAt(0)'
  <2>1. 0 \in DOMAIN Bytes(dest) /\ \A a \in DOMAIN Bytes(dest) : Bytes(dest)[a] = Byte(dest, a)
    <3>1. StreamByte * 0 + 1 <= Len(dest)
      BY <1>4, ByteSize
    <3>2. QED
      BY <1>4, <3>1, Addresses DEF Bytes
  <2>2. Byte(dest, 0) = Remaining(0, 0)
    <3>1. \A k \in 1 .. StreamByte : k + 0 = k /\ k <= StreamByte
      BY ByteSize
    <3>2. QED
      BY <3>1 DEF Byte, Remaining
  <2>3. 0 - 0 * StreamByte = 0
    BY ByteSize
  <2>4. Bytes(dest)' = Bytes(dest) /\ (\A a : Byte(dest, a)' = Byte(dest, a))
        /\ Remaining(0, 0)' = Remaining(0, 0)
    BY <1>2 DEF Bytes, Byte, Remaining
  <2>5. QED
    BY <1>3, <2>1, <2>2, <2>3, <2>4 DEF LookedAt
<1>6. 1 \in DOMAIN marks' /\ Registers(1, 0)'
  <2>1. 1 \in DOMAIN marks /\ marks[1].number = 0 /\ marks[1].unit \in Nat
    <3>1. 1 \in DOMAIN marks /\ marks[1].number = 0
      BY DEF EncoderInv, Types, Ends
    <3>2. QED
      BY <3>1, MarkFacts, PowersPositive DEF EncoderInv
  <2>2. 1 * marks[1].unit = marks[1].unit /\ (marks[1].number - 0) * marks[1].unit = 0
    BY <2>1
  <2>3. InStep(aRange, 0, 1, symbol)'
    BY <1>1, <1>2, <1>3, <2>2 DEF InStep, WidthAfter, LowAfter
  <2>4. 1 \in 1 .. (2 * Threshold - 1) /\ 0 \in Int
    BY Widths
  <2>5. QED
    BY <1>1, <1>2, <1>3, <2>1, <2>3, <2>4 DEF Registers
<1>7. 1 \in DOMAIN ends' /\ Counting(1)' /\ symbol' \in 0 .. Len(calls') - 1
  <2>1. ends # <<>> /\ Len(ends) \in Nat /\ DOMAIN ends = 1 .. Len(ends) /\ Len(rawLengths) = Len(ends)
    BY <1>1 DEF BlocksInv
  <2>2. Len(ends) >= 1 /\ 1 \in DOMAIN ends
    BY <2>1
  <2>3. ends[1] \in 1 .. Len(calls) /\ Len(calls) \in Nat
    <3>1. BlockCalls(1)
      BY <2>2 DEF BlocksInv
    <3>2. QED
      BY <3>1 DEF BlockCalls, EncoderInv, Types
  <2> DEFINE S == {AsmLengths[n] : n \in 1 .. Len(ends) + 1}
  <2>4. AsmLengths \in [1 .. Len(ends) + 1 -> S] /\ Len(ends) + 1 \in Nat
    BY <2>1 DEF AsmLengths
  <2>5. AsmLengths \in Seq(S) /\ Len(AsmLengths) = Len(ends) + 1
    BY <2>4, FunctionIsSequence
  <2>6. Head(AsmLengths) = AsmLengths[1]
        /\ Tail(AsmLengths) = [n \in 1 .. (Len(ends) + 1) - 1 |-> AsmLengths[n + 1]]
    <3> HIDE DEF S
    <3>1. Len(AsmLengths) >= 1 /\ Len(AsmLengths) - 1 = (Len(ends) + 1) - 1
      BY <2>1, <2>5
    <3>2. QED
      BY <2>5, <3>1, HeadAndTail
  <2>7. Tail(AsmLengths) = [n \in 1 .. Len(ends) + 1 - 1 |-> AsmLengths[1 + n]]
    <3>1. \A n \in 1 .. (Len(ends) + 1) - 1 : n + 1 = 1 + n
      BY <2>1
    <3>2. QED
      BY <2>6, <3>1
  <2>8. AsmLengths' = AsmLengths
    BY <1>2 DEF AsmLengths
  <2>9. Counting(1)'
    BY <1>1, <1>2, <1>3, <2>6, <2>7, <2>8 DEF Counting
  <2>10. QED
    BY <1>1, <1>2, <2>2, <2>3, <2>9
<1>11. Bytewise'
  <2>1. ByteBits \in Nat /\ ByteBits >= 2
    BY ByteAssumption, BoundAssumption
  <2>2. 0 + 1 - 1 = 0 * ByteBits /\ 1 \in 1 .. ByteBits
    BY <2>1
  <2>3. QED
    BY <1>1, <1>3, <2>2 DEF Bytewise
<1>8. OnTheWay(1)'
  <2>1. \A k \in 1 .. symbol' : FALSE
    BY <1>1
  <2>2. \E v \in Int : Registers(1, v)'
    BY <1>6
  <2>3. QED
    BY <1>3, <1>7, <1>11, <2>1, <2>2 DEF OnTheWay, Exactly
<1>9. QED
  BY <1>1, <1>2, <1>3, <1>5, <1>6, <1>8, <1>10 DEF UnpackerInv, Framed

\* Every bit the unpacker takes is the next one of the number.
LEMMA AsmReadInv ==
  ASSUME EncoderInv, Doublings, BlocksInv, UnpackerInv, AsmRead
  PROVE  UnpackerInv'
<1>1. /\ verdict = "unpacking" /\ verdict' = "unpacking" /\ phase = "done" /\ symbol' = symbol
      /\ UNCHANGED <<evars, calls, marks, rawLengths, ends, symbol>>
      /\ A!ReadBit \/ A!ReadBitOfNextByte
      /\ Framed
  BY DEF AsmRead, UnpackerInv, vars
<1>12. (dPhase # "running" \/ Unpacked)'
  <2>1. dPhase # "running" \/ Unpacked
    BY <1>1 DEF UnpackerInv
  <2>2. UNCHANGED <<phase, dPhase, dRange, replayed, calls>>
    BY DEF AsmRead, vars, evars, dvars
  <2>3. QED
    BY <2>1, <2>2 DEF Unpacked, More, D!Ready
<1>2. UNCHANGED <<phase, dest, calls, marks, rawLengths, ends, symbol>>
  BY <1>1 DEF evars
<1>3. PICK j \in DOMAIN marks : /\ IF started THEN LookedAt(Place(j)) ELSE j = 1 /\ LookedAt(0)
                                /\ OnTheWay(j)
  BY <1>1 DEF UnpackerInv
<1>4. PICK v \in Int : Registers(j, v)
  BY <1>3 DEF OnTheWay
<1>5. symbol \in 0 .. Len(calls)
  <2>1. Len(calls) \in Nat /\ symbol \in 0 .. Len(calls) - 1
    BY <1>3 DEF OnTheWay, EncoderInv, Types
  <2>2. QED
    BY <2>1
<1>6. j \in Nat /\ j >= 1 /\ Len(dest) \in Nat /\ Len(dest) >= StreamByte + 1 /\ dest[1] = 0
  BY <1>1, FramingComplete DEF EncoderInv, Types
<1>7. A!Looping
  BY <1>1 DEF A!ReadBit, A!ReadBitOfNextByte
<1>8. ASSUME NEW n \in DOMAIN marks, NEW w \in Int, LookedAt(Place(n))', Registers(n, w)', started',
             UNCHANGED <<count, left, headers, aPhase>>
      PROVE  UnpackerInv'
  <2>1. \A i : Counting(i)' = Counting(i)
    BY <1>2, <1>8 DEF Counting, AsmLengths, Start
  <2>2. Bytewise' = Bytewise
    BY <1>2, <1>8 DEF Bytewise
  <2>3. \A k : Accepts(k)' = Accepts(k)
    BY <1>1, SameJudgement
  <2>4. OnTheWay(n)'
    BY <1>2, <1>3, <1>8, <2>1, <2>2, <2>3 DEF OnTheWay, Exactly
  <2>5. QED
    BY <1>1, <1>2, <1>8, <1>12, <2>4 DEF UnpackerInv, Framed
<1>9. CASE ~started
  <2>1. j = 1 /\ LookedAt(0)
    BY <1>3, <1>9
  <2>2. Onward(0) = 1 /\ 0 \notin {StreamByte - 1, StreamByte} /\ 1 <= Len(dest) /\ Place(1) = 1
    BY <1>6, ByteSize DEF Onward, Place
  <2>3. LookedAt(Onward(0))' /\ A!Take(dest[Onward(0)])
    BY <1>1, <1>2, <2>1, <2>2, TakesTheNext
  <2>4. LookedAt(Place(1))' /\ A!Take(0)
    BY <1>6, <2>2, <2>3
  <2>5. Registers(1, 0)'
    BY <1>1, <1>4, <1>9, <2>1, <2>4, FirstPass
  <2>6. started' /\ UNCHANGED <<count, left, headers, aPhase>>
    BY <2>4 DEF A!Take
  <2>7. QED
    BY <1>8, <2>1, <2>4, <2>5, <2>6
<1>10. CASE started
  <2>1. LookedAt(Place(j)) /\ aRange < Threshold
    BY <1>3, <1>7, <1>10 DEF A!Looping
  <2>2. aRange \in Nat /\ InStep(aRange, v, j, symbol)
    BY <1>4 DEF Registers
  <2>3. /\ j + 1 \in DOMAIN marks /\ marks[j + 1].pos \in 1 .. Len(dest)
        /\ dest[marks[j + 1].pos] \in {0, 1}
    BY <1>1, <1>5, <2>1, <2>2, NextMark
  <2>4. marks[j + 1].pos = Place(j + 1)
    BY <1>1, <2>3, NextPlace
  <2>5. Place(j + 1) = Onward(Place(j)) /\ Place(j) \notin {StreamByte - 1, StreamByte} /\ Place(j) \in Nat
    BY <1>6, PlacesOnward
  <2>6. Onward(Place(j)) <= Len(dest)
    BY <1>6, <2>3, <2>4, <2>5
  <2>7. PICK b \in {0, 1} : b = dest[marks[j + 1].pos]
    BY <2>3
  <2>8. PICK s \in Nat : s = Place(j)
    BY <2>5
  <2>9. LookedAt(Onward(s))' /\ A!Take(dest[Onward(s)])
    BY <1>1, <1>2, <2>1, <2>5, <2>6, <2>8, TakesTheNext
  <2>10. A!Take(b)
    BY <2>4, <2>5, <2>7, <2>8, <2>9
  <2>11. Registers(j + 1, 2 * v + b)'
    BY <1>1, <1>4, <1>5, <1>10, <2>1, <2>7, <2>10, LaterPass
  <2>12. started' /\ UNCHANGED <<count, left, headers, aPhase>>
    BY <2>10 DEF A!Take
  <2>13. LookedAt(Place(j + 1))'
    BY <2>5, <2>8, <2>9 DEF Onward, Place
  <2>14. 2 * v + b \in Int
    OBVIOUS
  <2>15. QED
    BY <1>8, <2>3, <2>11, <2>12, <2>13, <2>14
<1>11. QED
  BY <1>9, <1>10

\* Every symbol that the number sent allows is the bit that was packed, and the
\* last one is known for it; at the first other one the unpacker goes wrong.
LEMMA AsmSymbolInv ==
  ASSUME EncoderInv, OneSection, Doublings, BlocksInv, UnpackerInv, AsmSymbol
  PROVE  UnpackerInv'
<1>1. /\ verdict = "unpacking" /\ phase = "done" /\ Framed
      /\ UNCHANGED <<evars, calls, marks, rawLengths, ends>>
      /\ symbol' = PastEnd(symbol + 1)
  BY DEF AsmSymbol, UnpackerInv, vars
<1>2. UNCHANGED <<phase, dest, calls, marks, rawLengths, ends>>
  BY <1>1 DEF evars
<1>3. PICK j \in DOMAIN marks : /\ IF started THEN LookedAt(Place(j)) ELSE j = 1 /\ LookedAt(0)
                                /\ OnTheWay(j)
  BY <1>1 DEF UnpackerInv
<1>4. PICK v \in Int : Registers(j, v)
  BY <1>3 DEF OnTheWay
<1>5. PICK c : c = calls[symbol + 1]
  OBVIOUS
<1>6. /\ A!SingleSymbol(c.sub) \/ A!MultiSymbol(c.sub)
      /\ verdict' = IF \/ c.op # "end" /\ A!Bit(c.sub) # c.bit
                       \/ (aPhase' = "done") # (symbol' = Len(calls))
                    THEN "wrong" ELSE IF symbol' = Len(calls) THEN "right" ELSE "unpacking"
  BY <1>5 DEF AsmSymbol
<1>7. /\ symbol \in 0 .. Len(calls) - 1 /\ aPhase = "running" /\ Len(calls) \in Nat
      /\ \A k \in 1 .. symbol : Accepts(k)
  BY <1>3 DEF OnTheWay, EncoderInv, Types
<1>8. A!Ready /\ started /\ UNCHANGED <<mem, ptr, started>>
  BY <1>6 DEF A!SingleSymbol, A!MultiSymbol, A!Ready
<1>9. LookedAt(Place(j))' /\ started' /\ started' = started
  <2>1. \A s : LookedAt(s)' = LookedAt(s)
    BY <1>2, <1>8 DEF LookedAt, Bytes, Byte, Remaining
  <2>2. QED
    BY <1>3, <1>8, <2>1 DEF Place
<1>10. /\ (dPhase # "running" \/ Unpacked)'
       /\ \A k : Accepts(k)' = Accepts(k)
       /\ Len(calls)' = Len(calls)
  <2>1. dPhase # "running" \/ Unpacked
    BY <1>1 DEF UnpackerInv
  <2>2. UNCHANGED <<phase, dPhase, dRange, replayed, calls>>
    BY DEF AsmSymbol, vars, evars, dvars
  <2>3. \A k : Accepts(k)' = Accepts(k)
    BY <1>1, SameJudgement
  <2>4. QED
    BY <2>1, <2>2, <2>3 DEF Unpacked, More, D!Ready
<1>11. Refused' = Refused
  BY <1>10 DEF Refused
<1>12. ASSUME verdict' = "wrong", ~Accepts(symbol + 1) PROVE UnpackerInv'
  <2>1. symbol + 1 \in 1 .. Len(calls)
    BY <1>7
  <2>2. Refused'
    BY <1>11, <1>12, <2>1 DEF Refused
  <2>3. QED
    BY <1>1, <1>2, <1>10, <1>12, <2>2 DEF UnpackerInv, Framed
<1>13. ASSUME \A k \in 1 .. symbol' : Accepts(k), symbol' = Len(calls), verdict' = "right"
       PROVE  UnpackerInv'
  <2>1. ~Refused'
    BY <1>11, <1>13 DEF Refused
  <2>2. QED
    BY <1>1, <1>2, <1>9, <1>10, <1>13, <2>1 DEF UnpackerInv, Framed
<1>14. ASSUME \A k \in 1 .. symbol' : Accepts(k), symbol' \in 0 .. Len(calls) - 1,
              verdict' = "unpacking", aPhase' = "running",
              IF Exactly THEN \E i \in DOMAIN ends : Counting(i)' ELSE Bytewise',
              \E w \in Int : Registers(j, w)'
       PROVE  UnpackerInv'
  <2>1. OnTheWay(j)'
    BY <1>2, <1>10, <1>14 DEF OnTheWay, Exactly
  <2>2. QED
    BY <1>1, <1>2, <1>9, <1>10, <1>14, <2>1 DEF UnpackerInv, Framed
<1>15. ASSUME Accepts(symbol + 1), symbol' = symbol + 1
       PROVE  \A k \in 1 .. symbol' : Accepts(k)
  <2>1. \A k \in 1 .. symbol + 1 : k \in 1 .. symbol \/ k = symbol + 1
    BY <1>7
  <2>2. QED
    BY <1>7, <1>15, <2>1
<1>16. ASSUME symbol = 0 => c.op = "pre", Accepts(symbol + 1),
              aRange' = Kept(c), aValue' = aValue - Skipped(c)
       PROVE  \E w \in Int : Registers(j, w)'
  BY <1>1, <1>2, <1>4, <1>5, <1>7, <1>8, <1>9, <1>16, StaysInStep
<1>17. CASE EncoderType = "MultiAsm"
  <2>1. Exactly /\ A!MultiSymbol(c.sub)
    BY <1>6, <1>17 DEF Exactly, A!SingleSymbol
  <2>2. PICK i \in DOMAIN ends : Counting(i)
    BY <1>3, <2>1 DEF OnTheWay
  <2>3. c.op # "end" /\ (symbol = 0 => c.op = "pre")
    BY <1>5, <1>7, <2>2, AskedIsNoEnd
  <2>4. /\ A!Bit(c.sub) = c.bit /\ Accepts(symbol + 1)
        /\ aRange' = Kept(c) /\ aValue' = aValue - Skipped(c)
    BY <1>1, <1>4, <1>5, <1>7, <1>8, <1>17, <2>1, <2>3, MultiAnswer
  <2>5. \E w \in Int : Registers(j, w)'
    BY <1>16, <2>3, <2>4
  <2>6. IF symbol' = Len(calls) THEN aPhase' = "done"
        ELSE /\ aPhase' = "running" /\ symbol' \in 0 .. Len(calls) - 1
             /\ \E n \in DOMAIN ends : Counting(n)'
    <3>1. PICK sub : sub = c.sub
      OBVIOUS
    <3>2. A!MultiSymbol(sub)
      BY <2>1, <3>1
    <3>3. QED
      BY <1>1, <1>2, <1>7, <1>17, <2>2, <3>2, CountsOn
  <2>7. \A k \in 1 .. symbol' : Accepts(k)
    <3>1. \A k \in 1 .. Len(calls) : Accepts(k)
      <4>1. \A k \in 1 .. Len(calls) : k \in 0 .. Len(calls)
        OBVIOUS
      <4>2. QED
        BY <2>1, <4>1, ExactAccepts
    <3>2. symbol' <= Len(calls)
      BY <1>7, <2>6
    <3>3. symbol' \in Int
      BY <1>7, <2>6
    <3>4. QED
      BY <1>7, <3>1, <3>2, <3>3
  <2>8. verdict' = IF symbol' = Len(calls) THEN "right" ELSE "unpacking"
    BY <1>6, <2>3, <2>4, <2>6
  <2>9. CASE symbol' = Len(calls)
    BY <1>13, <2>7, <2>8, <2>9
  <2>10. CASE symbol' # Len(calls)
    BY <1>14, <2>1, <2>5, <2>6, <2>7, <2>8, <2>10
  <2>11. QED
    BY <2>9, <2>10
<1>18. CASE EncoderType = "SingleAsm"
  <2>1. ~Exactly /\ A!SingleSymbol(c.sub) /\ symbol' = symbol + 1 /\ Bytewise
    BY <1>1, <1>3, <1>6, <1>18 DEF Exactly, A!MultiSymbol, PastEnd, OnTheWay
  <2>2. /\ Len(calls) >= 3 /\ calls[1].op = "pre" /\ (Len(calls) - 1) % ByteBits = 1
        /\ \A k \in 1 .. Len(calls) : calls[k].op = "end" <=> k = Len(calls)
    BY <1>1, <2>1, WhereTheEndIs
  <2>3. symbol = 0 => c.op = "pre"
    <3>1. symbol = 0 => symbol + 1 = 1
      OBVIOUS
    <3>2. QED
      BY <1>5, <2>2, <3>1
  <2>4. /\ c.op = "end" <=> symbol + 1 = Len(calls)
        /\ symbol \in Nat /\ symbol + 1 \in 1 .. Len(calls)
    BY <1>5, <1>7, <2>2
  <2>5. /\ A!ByteFull <=> symbol % ByteBits = 0
        /\ symbol = 0 => A!ByteFull
    BY <2>1, <2>4, ByteEnds DEF Bytewise, A!ByteFull
  <2>6. CASE c.op = "end"
    <3>1. symbol + 1 = Len(calls) /\ symbol = Len(calls) - 1 /\ symbol # 0
      BY <1>7, <2>2, <2>4, <2>6
    <3>2. ~A!ByteFull
      <4>1. symbol % ByteBits = 1
        BY <2>2, <3>1, Zenon
      <4>2. QED
        BY <2>5, <4>1
    <3>3. /\ aValue = v /\ Split(c) = aRange - c.sub
          /\ ~Above(symbol + 1) /\ ~Stuck(symbol + 1)
      BY <1>1, <1>4, <1>5, <1>7, <1>8, <2>3, <2>6, <3>1, ValueTells
    <3>4. v = Split(c)
      <4>1. aRange \in Threshold .. (2 * Threshold - 1) /\ InStep(aRange, v, j, symbol)
        BY <1>4, <1>8, Widths DEF Registers, A!Ready
      <4>2. symbol \in 0 .. Len(calls) /\ symbol < Len(calls)
        BY <1>7
      <4>3. QED
        BY <1>1, <1>5, <2>1, <2>6, <4>1, <4>2, EndIsHit
    <3>5. aPhase' = "done"
      BY <2>1, <3>2, <3>3, <3>4 DEF A!SingleSymbol
    <3>6. verdict' = "right" /\ symbol' = Len(calls)
      BY <1>6, <2>1, <2>6, <3>1, <3>5
    <3>7. Accepts(symbol + 1)
      BY <3>3 DEF Accepts
    <3>8. QED
      BY <1>13, <1>15, <2>1, <3>6, <3>7
  <2>7. CASE c.op # "end"
    <3>1. symbol' # Len(calls) /\ symbol' \in 0 .. Len(calls) - 1
      BY <1>7, <2>1, <2>4, <2>7
    <3>2. /\ Accepts(symbol + 1) <=> A!Bit(c.sub) = c.bit /\ aPhase' # "done"
          /\ aPhase' \in {"done", "running"}
          /\ Accepts(symbol + 1) => aRange' = Kept(c) /\ aValue' = aValue - Skipped(c)
      BY <1>1, <1>4, <1>5, <1>7, <1>8, <1>18, <2>1, <2>3, <2>5, <2>7, SingleAnswer
    <3>3. verdict' = IF A!Bit(c.sub) # c.bit \/ aPhase' = "done" THEN "wrong" ELSE "unpacking"
      BY <1>6, <2>7, <3>1
    <3>4. CASE Accepts(symbol + 1)
      <4>1. verdict' = "unpacking" /\ aPhase' = "running"
        BY <3>2, <3>3, <3>4
      <4>2. \E w \in Int : Registers(j, w)'
        BY <1>16, <2>3, <3>2, <3>4
      <4>3. Bytewise'
        <5>1. count' = IF A!ByteFull THEN ByteBits ELSE count - 1
          BY <2>1 DEF A!SingleSymbol
        <5>2. QED
          BY <2>1, <2>4, <5>1, BytewiseOn
      <4>4. QED
        BY <1>14, <1>15, <2>1, <3>1, <3>4, <4>1, <4>2, <4>3
    <3>5. CASE ~Accepts(symbol + 1)
      <4>1. verdict' = "wrong"
        BY <3>2, <3>3, <3>5
      <4>2. QED
        BY <1>12, <3>5, <4>1
    <3>6. QED
      BY <3>4, <3>5
  <2>8. QED
    BY <2>6, <2>7
<1>19. QED
  BY <1>1, <1>17, <1>18, EncoderTypeAssumption DEF Framed

LEMMA AllInit ==
  ASSUME AInit
  PROVE  AInv
<1>1. CodecInv
  BY CodecInit DEF AInit
<1>2. /\ phase = "coding" /\ section = "closed" /\ calls = <<>> /\ ends = <<>> /\ rawLengths = <<>>
      /\ blockBits = 0 /\ coded = 0 /\ blocks = 0 /\ hasPreBit = FALSE /\ symbol = 0 /\ verdict = "idle"
  BY DEF AInit, CInit, Init
<1>3. Doublings
  BY <1>2 DEF Doublings
<1>4. Framed => BlocksInv
  <2>1. /\ <<>> \in Seq(Nat) /\ Len(<<>>) = 0 /\ DOMAIN <<>> = {}
    OBVIOUS
  <2>2. 0 \in Nat /\ 0 <= 0 /\ 0 <= MaxBits
    BY BoundAssumption
  <2>3. QED
    BY <1>2, <2>1, <2>2 DEF BlocksInv
<1>5. UnpackerInv
  BY <1>2 DEF UnpackerInv
<1>6. QED
  BY <1>1, <1>3, <1>4, <1>5 DEF AInv

LEMMA AllStep ==
  ASSUME AInv, [ANext]_allvars
  PROVE  AInv'
<1>1. CodecInv /\ EncoderInv /\ OneSection /\ DecoderInv /\ Doublings /\ UnpackerInv
      /\ (Framed => BlocksInv)
  BY DEF AInv, CodecInv
<1>2. CodecInv' /\ EncoderInv'
  <2>1. [CNext]_vars
    BY DEF ANext, Codec, Load, AsmRead, AsmSymbol, AsmTerminating, allvars
  <2>2. QED
    BY <1>1, <2>1, CodecStep DEF CodecInv
<1>3. CASE Codec
  <2>1. UNCHANGED <<avars, symbol, verdict>>
    BY <1>3 DEF Codec
  <2>2. (Framed => BlocksInv)'
    <3>1. Framed => BlocksInv'
      BY <1>1, <1>2, <1>3, CodecBlocks
    <3>2. QED
      BY <3>1 DEF Framed
  <2>3. verdict = "idle" /\ symbol = 0
    <3>1. phase = "done" /\ (dPhase # "running" \/ Unpacked) => FALSE
      BY <1>1, <1>3, EncoderStepInv, DecoderRests DEF Codec, CNext
    <3>2. QED
      BY <1>1, <3>1 DEF UnpackerInv
  <2>4. UnpackerInv'
    BY <2>1, <2>3 DEF UnpackerInv
  <2>5. Doublings'
    <3>1. CASE EncoderStep
      BY <1>1, <1>2, <3>1, DoublingsInv
    <3>2. CASE ~EncoderStep
      <4>1. UNCHANGED <<evars, calls, marks>>
        BY <1>3, <3>2 DEF Codec, CNext, DecoderReadBit, DecoderPreBit, DecoderBit,
                          DecoderWrongBit, DecoderEnd, Answered
      <4>2. QED
        BY <1>1, <4>1 DEF Doublings, Drains, evars
    <3>3. QED
      BY <3>1, <3>2
  <2>6. QED
    BY <1>2, <2>2, <2>4, <2>5 DEF AInv
<1>4. CASE Load \/ AsmRead \/ AsmSymbol \/ UNCHANGED allvars
  <2>1. UNCHANGED <<vars, rawLengths, ends>>
    BY <1>4 DEF Load, AsmRead, AsmSymbol, allvars
  <2>2. UNCHANGED <<evars, calls, marks, rawLengths, ends>>
    BY <2>1 DEF vars
  <2>3. Doublings'
    BY <1>1, <2>2 DEF Doublings, Drains, evars
  <2>4. (Framed => BlocksInv)'
    BY <1>1, <2>2 DEF BlocksInv, BlockCalls, Start, evars, Framed
  <2>5. UnpackerInv'
    <3>1. CASE Load
      <4>1. Framed
        BY <3>1 DEF Load, Framed
      <4>2. QED
        BY <1>1, <3>1, <4>1, LoadInv
    <3>2. CASE AsmRead
      <4>1. Framed
        BY <1>1, <3>2 DEF AsmRead, UnpackerInv
      <4>2. QED
        BY <1>1, <3>2, <4>1, AsmReadInv
    <3>3. CASE AsmSymbol
      <4>1. Framed
        BY <1>1, <3>3 DEF AsmSymbol, UnpackerInv
      <4>2. QED
        BY <1>1, <3>3, <4>1, AsmSymbolInv
    <3>4. CASE UNCHANGED allvars
      BY <1>1, <3>4, UnpackerWaits
    <3>5. QED
      BY <1>4, <3>1, <3>2, <3>3, <3>4
  <2>6. QED
    BY <1>2, <2>3, <2>4, <2>5 DEF AInv
<1>5. QED
  BY <1>3, <1>4 DEF ANext, AsmTerminating

THEOREM AsmInvariant == ASpec => []AInv
<1>1. AInit => AInv
  BY AllInit
<1>2. AInv /\ [ANext]_allvars => AInv'
  BY AllStep
<1>3. QED
  BY <1>1, <1>2, PTL DEF ASpec

\* What was packed for the intro comes out of its unpacker: every bit of every
\* block, whatever ebp held at the start, and the unpacker stops after the last
\* symbol of the last block and not before.
THEOREM IntroUnpacks == ASpec => []MultiUnpacks
<1>1. AInv => MultiUnpacks
  <2> SUFFICES ASSUME AInv, EncoderType = "MultiAsm", verdict = "wrong" PROVE FALSE
    BY DEF MultiUnpacks
  <2>1. PICK k \in 1 .. Len(calls) : ~Accepts(k)
    BY DEF AInv, UnpackerInv, Refused
  <2>2. EncoderInv /\ Exactly /\ k \in 0 .. Len(calls)
    BY DEF AInv, CodecInv, Exactly
  <2>3. QED
    BY <2>1, <2>2, ExactAccepts
<1>2. QED
  BY <1>1, AsmInvariant, PTL

\* DecodeAsmStream accepts a stream exactly when the unpacker of the intro
\* unpacks it: what makes each of them stop or err is the same fact about the
\* number sent and one of the calls.
THEOREM CheckPredicts == ASpec => []CheckPredictsUnpacker
<1>1. AInv => CheckPredictsUnpacker
  <2> SUFFICES ASSUME AInv, verdict \in {"right", "wrong"}
               PROVE  (verdict = "right") = (dPhase = "running")
    BY DEF CheckPredictsUnpacker
  <2>1. /\ dPhase # "running" \/ Unpacked
        /\ verdict = "wrong" <=> Refused
    BY DEF AInv, UnpackerInv
  <2>2. replayed \in 0 .. Len(calls) /\ Len(calls) \in Nat /\ Judged
    BY DEF AInv, CodecInv, DecoderInv, EncoderInv, Types
  <2>3. CASE dPhase = "running"
    <3>1. replayed = Len(calls)
      BY <2>1, <2>2, <2>3 DEF Unpacked, More
    <3>2. \A k \in 1 .. Len(calls) : Accepts(k)
      BY <2>2, <2>3, <3>1 DEF Judged
    <3>3. verdict # "wrong"
      BY <2>1, <3>2 DEF Refused
    <3>4. QED
      BY <2>3, <3>3
  <2>4. CASE dPhase # "running"
    <3>1. replayed >= 1 /\ ~Accepts(replayed)
      BY <2>2, <2>4 DEF Judged
    <3>2. replayed \in 1 .. Len(calls)
      BY <2>2, <3>1
    <3>3. verdict = "wrong"
      BY <2>1, <3>1, <3>2 DEF Refused
    <3>4. QED
      BY <2>4, <3>3
  <2>5. QED
    BY <2>3, <2>4
<1>2. QED
  BY <1>1, AsmInvariant, PTL

\* ... and reads and overwrites no byte behind the stream on the way.
THEOREM IntroStaysInside == ASpec => []UnpackerStaysInside
<1>1. ASSUME AInv PROVE UnpackerStaysInside
  <2> SUFFICES ASSUME verdict \in {"unpacking", "right"} PROVE ptr <= (Len(dest) - 1) \div StreamByte
    BY DEF UnpackerStaysInside
  <2>1. EncoderInv /\ Doublings /\ UnpackerInv /\ phase = "done" /\ Framed
    BY <1>1 DEF AInv, CodecInv, UnpackerInv
  <2>2. Len(dest) \in Nat /\ Len(dest) >= StreamByte + 1
    BY <2>1, FramingComplete
  <2>3. PICK j \in DOMAIN marks : IF started THEN LookedAt(Place(j)) ELSE j = 1 /\ LookedAt(0)
    BY <2>1 DEF UnpackerInv
  <2>4. PICK s \in Nat : LookedAt(s) /\ s <= Len(dest)
    <3>1. CASE ~started
      BY <2>2, <2>3, <3>1
    <3>2. CASE started
      <4>1. j \in Nat /\ j >= 1 /\ Place(j) \in Nat
        <5>1. j \in Nat /\ j >= 1
          BY <2>1 DEF EncoderInv, Types
        <5>2. QED
          BY <5>1, PlacesOnward
      <4>2. Place(j) <= Len(dest)
        <5>1. CASE j = 1
          BY <2>2, <5>1, ByteSize DEF Place
        <5>2. CASE j # 1
          <6>1. PICK i \in Nat : i = j - 1 /\ i \in 1 .. Len(marks) - 1 /\ i + 1 = j
            BY <4>1, <5>2 DEF EncoderInv, Types
          <6>2. Follows(dest, marks[i], marks[i + 1])
            BY <2>1, <6>1 DEF EncoderInv, Sent
          <6>3. marks[j].pos = Place(j)
            BY <2>1, <4>1, <5>2, MarkPlaces
          <6>4. QED
            BY <6>1, <6>2, <6>3 DEF Follows
        <5>3. QED
          BY <5>1, <5>2
      <4>3. QED
        BY <2>3, <3>2, <4>1, <4>2
    <3>3. QED
      BY <3>1, <3>2
  <2>5. ptr \in Nat /\ StreamByte * ptr \in Nat /\ ptr * StreamByte = StreamByte * ptr
    <3>1. ptr \in Nat
      BY <2>4 DEF LookedAt
    <3>2. QED
      BY <3>1, ByteSize
  <2>6. StreamByte * ptr + 1 <= Len(dest)
    <3>1. CASE s = 0
      <4>1. ptr = 0 /\ StreamByte * 0 = 0
        BY <2>4, <3>1, ByteSize DEF LookedAt
      <4>2. QED
        BY <2>2, <4>1, ByteSize
    <3>2. CASE s # 0
      <4>1. s - ptr * StreamByte >= 1
        BY <2>4, <3>2, ByteSize DEF LookedAt
      <4>2. QED
        BY <2>2, <2>4, <2>5, <4>1
    <3>3. QED
      BY <3>1, <3>2
  <2>7. QED
    BY <2>2, <2>5, <2>6, Addresses
<1>2. AInv => UnpackerStaysInside
  BY <1>1
<1>3. QED
  BY <1>2, AsmInvariant, PTL

=============================================================================
