---------------------------- MODULE BlockHeader ----------------------------
(***************************************************************************)
(* The header of a block: which context models predict its bits and with   *)
(* which weights (BlockCodec::EncodeHeaderAndClean and DecodeHeader), the  *)
(* header of a packed stream (StreamCodec::CreateSingleStream and          *)
(* LoadStream), and the form the intro's unpacker walks through backwards  *)
(* (StreamCodec::CreateAsmHeader, onekpaq_decompressor32.asm).             *)
(*                                                                         *)
(* A header stores no weights.  Model numbers go in order of falling       *)
(* weight; a number that is repeated, or that is larger than the one       *)
(* before it, means "double everything so far".  The unpacker reads the    *)
(* complemented numbers and takes a square root where the decoder doubles. *)
(*                                                                         *)
(* Weights are powers of two; a weight 2^n is represented by n, so << 1 is *)
(* + 1 and >> 1 is - 1.                                                    *)
(***************************************************************************)
EXTENDS Integers, Sequences, FiniteSets, SequencesExt

CONSTANTS
  ModelCount,   \* [255] model numbers are 0 .. ModelCount - 1
  ByteMax,      \* [255] the largest byte
  LengthByte    \* [256] the two bytes of a length count to LengthByte * LengthByte - 1

\* 0xff, whose complement ends a block of the asm header, is never a model:
\* QWContextModel::GetModelCount.
ASSUME ModelAssumption ==
  ModelCount \in Nat \ {0} /\ ByteMax \in Nat /\ ModelCount <= ByteMax
ASSUME LengthAssumption == LengthByte \in Nat \ {0, 1}

Numbers == 0 .. ModelCount - 1
NoModel == ByteMax + 1          \* [0x100]
Model(m, w) == [model |-> m, weight |-> w]

-----------------------------------------------------------------------------
(* BlockCodec                                                              *)

\* Falling weight, then falling number; a removed model has weight 0 in the
\* source, sorts last and is popped: here it is not in the set.
Before(a, b) ==
  a.weight > b.weight \/ (a.weight = b.weight /\ a.model > b.model)

Sorted(models) ==
  [i \in 1 .. Cardinality(models) |->
     CHOOSE m \in models : Cardinality({k \in models : Before(k, m)}) = i - 1]

\* The comparator's ASSERT "duplicate model", and what the decoder needs.
Distinct(models) == \A a, b \in models : a.model = b.model => a = b

\* Mutant of Repeats: the double that the number implies is written as well.
RepeatsAll(from, to, prev, next) == from - to

\* "free double": the number itself tells the decoder to double once.
Repeats(from, to, prev, next) ==
  from - to - (IF from # to /\ prev < next THEN 1 ELSE 0)

EncodeStep(acc, m) ==
  [weight |-> m.weight,
   model  |-> m.model,
   bytes  |-> acc.bytes
                \o [i \in 1 .. Repeats(acc.weight, m.weight, acc.model, m.model)
                      |-> acc.model]
                \o <<m.model>>]

\* The model bytes: header[3] to the end.
EncodeModels(models) ==
  LET order == Sorted(models)
      last  == FoldLeft(EncodeStep,
                        [weight |-> order[1].weight, model |-> NoModel,
                         bytes |-> <<>>], order)
  IN  last.bytes \o [i \in 1 .. last.weight |-> last.model]

Header(length, models) == [size |-> length, models |-> EncodeModels(models)]

DecodeStep(acc, byte) ==
  LET doubled == [i \in DOMAIN acc.models |->
                    [acc.models[i] EXCEPT !.weight = @ + 1]]
      ready   == IF byte >= acc.model THEN doubled ELSE acc.models
  IN  [model  |-> byte,
       models |-> IF byte = acc.model THEN ready
                  ELSE Append(ready, Model(byte, 0))]

DecodeModels(bytes) ==
  FoldLeft(DecodeStep, [model |-> NoModel, models |-> <<>>], bytes).models

-----------------------------------------------------------------------------
(* The packed stream.                                                      *)

High(n) == n \div LengthByte
LowByte(n) == n % LengthByte

\* One block as CreateSingleStream stores it: length, its own size, models.
StoredBlock(h) ==
  <<LowByte(h.size), High(h.size), Len(h.models) + 3>> \o h.models

\* Two zero bytes, no length of a block, end the headers of a multi section
\* stream.
StoredHeaders(headers, multi) ==
  FlattenSeq([i \in DOMAIN headers |-> StoredBlock(headers[i])])
    \o (IF multi THEN <<0, 0>> ELSE <<>>)

\* Mutant of HeaderAt: && for ||.
HeaderAtBoth(bytes, p) == bytes[p] # 0 /\ bytes[p + 1] # 0

\* The two bytes at p are a length and not the end.
HeaderAt(bytes, p) == bytes[p] # 0 \/ bytes[p + 1] # 0

\* LoadStream: header by header until two zero bytes; one header is all there
\* is of a single section stream.  pos counts from 1.
LoadStream(bytes, multi) ==
  LET at[n \in 0 .. Len(bytes)] ==      \* start of the n-th header
        IF n = 0 THEN 1
        ELSE LET p == at[n - 1]
             IN  IF p + 2 <= Len(bytes) /\ HeaderAt(bytes, p)
                 THEN p + bytes[p + 2] ELSE p
      there(n) == /\ at[n] + 2 <= Len(bytes)
                  /\ HeaderAt(bytes, at[n])
      count == IF ~multi THEN 1
               ELSE CHOOSE n \in 0 .. Len(bytes) :
                      ~there(n) /\ \A k \in 0 .. n - 1 : there(k)
  IN  [headers |-> [n \in 1 .. count |->
                      SubSeq(bytes, at[n - 1], at[n] - 1)],
       rest    |-> SubSeq(bytes, at[count] + (IF multi THEN 2 ELSE 0),
                          Len(bytes))]

-----------------------------------------------------------------------------
(* The unpacker's header.                                                  *)

\* The last byte of a block only repeats the last model, every weight being
\* two at least; a zero in its place means the same to the unpacker.
AsmModels(bytes) ==
  [i \in DOMAIN bytes |-> IF i = Len(bytes) THEN 0 ELSE ByteMax - bytes[i]]

\* Mutant of AsmHeader: every block's length is counted up by the pre-bit.
AsmHeaderEvery(headers, multi) ==
  FlattenSeq([i \in DOMAIN headers |->
      LET length == headers[i].size + 1
      IN  (IF multi THEN <<High(length) % LengthByte, LowByte(length)>> ELSE <<>>)
            \o AsmModels(headers[i].models)])
    \o (IF multi THEN <<0, 0>> ELSE <<>>)

\* In the order the unpacker meets the bytes, edx going down.
AsmHeader(headers, multi) ==
  FlattenSeq([i \in DOMAIN headers |->
      LET length == headers[i].size + (IF i = 1 THEN 1 ELSE 0)
      IN  (IF multi THEN <<High(length) % LengthByte, LowByte(length)>> ELSE <<>>)
            \o AsmModels(headers[i].models)])
    \o (IF multi THEN <<0, 0>> ELSE <<>>)

\* context_loop, context_reload and context_next over one block: ch against
\* the byte below decides on a square root, al = 0 on the end.
AsmStep(acc, byte) ==
  LET rooted == [i \in DOMAIN acc.models |->
                   [acc.models[i] EXCEPT !.weight = @ + 1]]
      ready  == IF acc.ch >= byte THEN rooted ELSE acc.models
  IN  IF acc.over THEN acc
      ELSE IF acc.ch = byte THEN [acc EXCEPT !.models = rooted]
      ELSE IF byte = 0 THEN [acc EXCEPT !.models = ready, !.over = TRUE]
      ELSE [ch |-> byte, over |-> FALSE,
            models |-> Append(ready, Model(ByteMax - byte, 0))]

AsmWalk(bytes) ==
  FoldLeft(AsmStep,
           [ch |-> bytes[1], over |-> FALSE,
            models |-> <<Model(ByteMax - bytes[1], 0)>>],
           Tail(bytes)).models

\* skip_header_loop: from the model behind the first to the zero, then over
\* the next length; a zero length is the end.  Where each block's models start.
AsmStarts(bytes) ==
  LET zero(p) == CHOOSE z \in p + 1 .. Len(bytes) :
                   bytes[z] = 0 /\ \A k \in p + 1 .. z - 1 : bytes[k] # 0
      at[n \in 1 .. Len(bytes)] == IF n = 1 THEN 3 ELSE zero(at[n - 1]) + 3
      more(n) == LET z == zero(at[n]) IN <<bytes[z + 1], bytes[z + 2]>> # <<0, 0>>
      count == CHOOSE n \in 1 .. Len(bytes) :
                 ~more(n) /\ \A k \in 1 .. n - 1 : more(k)
  IN  [n \in 1 .. count |-> at[n]]

\* What the unpacker makes of a multi section header: length word and models.
AsmBlocks(bytes) ==
  LET start == AsmStarts(bytes)
  IN  [n \in DOMAIN start |->
         [size   |-> bytes[start[n] - 2] * LengthByte + bytes[start[n] - 1],
          models |-> AsmWalk(SubSeq(bytes, start[n], Len(bytes)))]]

=============================================================================
