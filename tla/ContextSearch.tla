--------------------------- MODULE ContextSearch ---------------------------
(***************************************************************************)
(* BlockCodec::CreateContextModels: the brute force search for the set of  *)
(* context models of a block, and the headers that StreamCodec::Encode     *)
(* collects from the blocks.                                               *)
(*                                                                         *)
(* The search compares estimated lengths, sums of floats over the whole    *)
(* block that depend on data, random seeds and rounding.  Here any outcome *)
(* of a comparison is possible, except that a first candidate always beats *)
(* infinity: what is checked is what every path of the search leaves in    *)
(* the header.                                                             *)
(***************************************************************************)
EXTENDS BlockHeader

CONSTANTS
  Weights,      \* [1 .. 7] the exponents IterateModels tries
  SeedWeights,  \* the weights of random models the search is seeded with
  Sizes,        \* bound: the block sizes looked at
  MaxBlocks,    \* bound: blocks in the stream
  Multi         \* multi section mode: one header per block

ASSUME SearchAssumption ==
  /\ Weights \subseteq Nat \ {0} /\ Weights # {}
  /\ \A s \in SeedWeights : s \in Seq(Nat \ {0})
  /\ Sizes \subseteq 1 .. LengthByte * LengthByte - 1
  /\ MaxBlocks \in Nat /\ Multi \in BOOLEAN

VARIABLES
  best,     \* currentBestModels; {} while currentBestLength is infinite
  test,     \* testModels
  tried,    \* testLength is finite: test came out of IterateModels
  headers,  \* _header of every finished block
  packed    \* the stream has been put together

vars == <<best, test, tried, headers, packed>>

Used(models) == {m.model : m \in models}
Free(models) == Numbers \ Used(models)

Init ==
  /\ best = {} /\ test = {} /\ tried = FALSE
  /\ headers = <<>> /\ packed = FALSE

Searching ==
  /\ ~packed
  /\ Len(headers) < (IF Multi THEN MaxBlocks ELSE 1)

-----------------------------------------------------------------------------
(* IterateModels: what one call may return.                                *)

Added(models) == {models \cup {Model(n, w)} : n \in Free(models), w \in Weights}

Reweighted(models) ==
  UNION {{(models \ {m}) \cup {Model(m.model, w)} : w \in Weights \ {m.weight}} :
           m \in models}

\* "if weight is the same, test removing model", unless it is the last one.
Removed(models) ==
  {models \ {m} : m \in {k \in models : Cardinality(models) # 1
                                        /\ k.weight \in Weights}}

\* Mutant of Swapped: the new number is not looked up among the models.
SwappedUnchecked(models) ==
  {(models \ {m}) \cup {Model(n, m.weight)} : m \in models, n \in Numbers}

Swapped(models) ==
  {(models \ {m}) \cup {Model(n, m.weight)} : m \in models, n \in Free(models)}

Candidates(models) ==
  Added(models) \cup Reweighted(models) \cup Removed(models) \cup Swapped(models)

Improve ==
  /\ Searching
  /\ \E candidate \in Candidates(test) : test' = candidate
  /\ tried' = TRUE
  /\ UNCHANGED <<best, headers, packed>>

-----------------------------------------------------------------------------
\* The loop over a seed ends; its result is kept if it is better.
Settle ==
  /\ Searching /\ tried
  /\ \/ best' = test
     \/ best # {} /\ best' = best
  /\ test' = {} /\ tried' = FALSE
  /\ UNCHANGED <<headers, packed>>

\* The next seed: the best models so far and random new ones.
Seed(weights) ==
  /\ Searching /\ ~tried /\ best # {} /\ test = {}
  /\ \E numbers \in [DOMAIN weights -> Free(best)] :
       /\ \A i, j \in DOMAIN weights : i # j => numbers[i] # numbers[j]
       /\ test' = best \cup {Model(numbers[i], weights[i]) : i \in DOMAIN weights}
  /\ UNCHANGED <<best, tried, headers, packed>>

\* The search of a block is over: "will scale and sort".
FinishBlock(size) ==
  /\ Searching /\ ~tried /\ best # {} /\ test = {}
  /\ headers' = Append(headers, Header(size, best))
  /\ best' = {}
  /\ UNCHANGED <<test, tried, packed>>

\* "too short block is non estimatable block"
ShortBlock(size) ==
  /\ Searching /\ ~tried /\ best = {} /\ test = {}
  /\ headers' = Append(headers, Header(size, {Model(0, 1)}))
  /\ UNCHANGED <<best, test, tried, packed>>

Pack ==
  /\ ~packed /\ headers # <<>> /\ best = {} /\ test = {}
  /\ packed' = TRUE
  /\ UNCHANGED <<best, test, tried, headers>>

Terminating == packed /\ UNCHANGED vars

Next ==
  \/ Improve \/ Settle
  \/ \E weights \in SeedWeights : Seed(weights)
  \/ \E size \in Sizes : FinishBlock(size) \/ ShortBlock(size)
  \/ Pack \/ Terminating

Spec == Init /\ [][Next]_vars

-----------------------------------------------------------------------------
(* Properties.                                                             *)

\* The sets the search goes through can be written down: never empty, no model
\* twice ("empty models" and "duplicate model" in EncodeHeaderAndClean).
Encodable ==
  /\ Distinct(test) /\ Distinct(best)
  /\ tried => test # {}

\* DecodeHeader gets back from the header every model with its weight, though
\* the weights are only implied by the order of the model bytes.
HeaderRoundTrip ==
  tried => DecodeModels(EncodeModels(test)) = Sorted(test)

Payload == <<ByteMax, 0, 0, ByteMax>>

\* LoadStream finds every header and the start of the data again, whatever
\* zero bytes lengths and data hold.
StreamParses ==
  packed =>
    LoadStream(StoredHeaders(headers, Multi) \o Payload, Multi)
      = [headers |-> [i \in DOMAIN headers |-> StoredBlock(headers[i])],
         rest    |-> Payload]

\* The unpacker, which is told no header sizes, finds every block's length and
\* models, and takes as many square roots after every model as the packer: the
\* "free double" and the missing last byte mean the same to jc / jbe as to
\* DecodeHeader.  A length may only wrap to zero in the first block.
AsmStreamParses ==
  packed /\ Multi =>
    AsmBlocks(AsmHeader(headers, Multi))
      = [i \in DOMAIN headers |->
           [size   |-> (headers[i].size + (IF i = 1 THEN 1 ELSE 0))
                         % (LengthByte * LengthByte),
            models |-> DecodeModels(headers[i].models)]]

=============================================================================
