--------------------------- MODULE HuffmanLengths ---------------------------
(***************************************************************************)
(* kompura.c, optimize_huffman_coeffs: from how often each symbol occurs   *)
(* to the lengths of its Huffman code and to the code itself.              *)
(*                                                                         *)
(* The function does not build a tree.  Every symbol gets the length       *)
(* ceil(-log2(its share)), cut off at max_bit_len, which leaves some of    *)
(* the budget of 2^Width code points over; the longest lengths are merged  *)
(* with the next shorter one if the budget allows (smooth_level), and the  *)
(* rest is spent one symbol at a time, on the one that saves most bits per *)
(* code point.  What comes out must be a complete prefix code, and one     *)
(* that the reader can rebuild from the lengths alone (RFC 1951, 3.2.2).   *)
(*                                                                         *)
(* Shares and savings are ratios of integers in the source's floats; they  *)
(* are compared here as integers.  The state and its formulas have names   *)
(* apart from BlockChoice's: KompuraProofs extends both.                   *)
(***************************************************************************)
EXTENDS Integers, Sequences, FiniteSets, SequencesExt, FiniteSetsExt

CONSTANTS
  MapSize,    \* [288, 32 or 19] symbols are 0 .. MapSize - 1
  MaxCount,   \* bound: occurrences of one symbol
  Width,      \* [15] the budget is 2^Width
  MaxBitLen,  \* [15 or 7] max_bit_len
  Smooths     \* [0, 10 .. 14] values of smooth_level

ASSUME HuffmanAssumption ==
  /\ MapSize \in Nat \ {0} /\ MaxCount \in Nat \ {0}
  /\ Width \in Nat /\ MaxBitLen \in 1 .. Width
  /\ Smooths \subseteq 0 .. Width

VARIABLES
  count,    \* items[].count
  length,   \* items[].bit_length
  gain,     \* items[].lc_per_budget, in units of 2^-Width
  budget,   \* budget
  smooth,   \* smooth_level
  level,    \* j of the smoothing loop
  stage    \* "smoothing", "spending" or "done"

hvars == <<count, length, gain, budget, smooth, level, stage>>

Symbols == 0 .. MapSize - 1
Counted == {s \in Symbols : count[s] > 0}
Eats(len) == 2 ^ (Width - len)      \* 1<<(15-bits)
Saving(c, len) == c * 2 ^ len       \* calculate_lc_per_budget

-----------------------------------------------------------------------------
\* ceil(-log2(c / total)), at least 1, at most MaxBitLen; a count of zero gives
\* an infinity, which becomes 0 on the machines the tool is built for.
Pessimistic(c, total) ==
  IF c = 0 THEN 0
  ELSE LET fits == {len \in 1 .. MaxBitLen : c * 2 ^ len >= total}
       IN  IF fits = {} THEN MaxBitLen ELSE Min(fits)

InitialLengths(c) == [s \in Symbols |-> Pessimistic(c[s], SumFunction(c))]

\* What the counted symbols leave of the budget.
Left(c, len) ==
  2 ^ Width - SumFunction([s \in Symbols |-> IF c[s] = 0 THEN 0 ELSE Eats(len[s])])

HInit ==
  /\ count \in [Symbols -> 0 .. MaxCount]
  /\ Counted # {}
  /\ length = InitialLengths(count)
  /\ gain = [s \in Symbols |->
               IF count[s] = 0 \/ length[s] = 1 THEN 0
               ELSE Saving(count[s], length[s])]
  /\ budget = Left(count, length)
  /\ smooth \in Smooths
  /\ level = Max({length[s] : s \in Symbols})
  /\ stage = IF budget # 0 /\ smooth # 0 THEN "smoothing" ELSE "spending"

-----------------------------------------------------------------------------
(* "completely remove bit lengths we can"                                  *)

AtLevel == {s \in Symbols : length[s] = level}
LevelCosts == Cardinality(AtLevel) * Eats(level)

\* Mutant of LevelFits: the comparison is left out.
LevelFitsAlways == TRUE

LevelFits == LevelCosts < budget

\* gain is not brought up to date.
RemoveLevel ==
  /\ stage = "smoothing"
  /\ level >= smooth /\ LevelFits
  /\ length' = [s \in Symbols |-> IF s \in AtLevel THEN level - 1 ELSE length[s]]
  /\ budget' = budget - LevelCosts
  /\ level' = level - 1
  /\ UNCHANGED <<count, gain, smooth, stage>>

SmoothingOver ==
  /\ stage = "smoothing"
  /\ level < smooth \/ ~LevelFits
  /\ stage' = "spending"
  /\ UNCHANGED <<count, length, gain, budget, smooth, level>>

-----------------------------------------------------------------------------
(* "spread goodwill (==leftover budget) to the possible receivers"         *)

\* qsort: the members of S, each behind all that are before it.
Sorted(S, before) ==
  [k \in 1 .. Cardinality(S) |->
     CHOOSE s \in S : Cardinality({t \in S : <<t, s>> \in before}) = k - 1]

\* By falling count, then by symbol; the loops stop at a count of zero.
ByCount ==
  Sorted(Counted, {p \in Symbols \X Symbols :
                     count[p[1]] > count[p[2]] \/ (count[p[1]] = count[p[2]] /\ p[1] < p[2])})

\* Mutant of ScanStep: <= for <, what costs all that is left is too expensive.
ScanStepStrict(acc, s) ==
  IF acc.gain[s] <= acc.best THEN acc
  ELSE IF budget <= Eats(length[s]) THEN [acc EXCEPT !.gain[s] = 0]
  ELSE [acc EXCEPT !.best = acc.gain[s], !.index = s]

\* One pass: the first symbol with the largest gain, -1 for none; a gain that
\* is larger than the best so far but too expensive is written off for good.
ScanStep(acc, s) ==
  IF acc.gain[s] <= acc.best THEN acc
  ELSE IF budget < Eats(length[s]) THEN [acc EXCEPT !.gain[s] = 0]
  ELSE [acc EXCEPT !.best = acc.gain[s], !.index = s]

Scan == FoldLeft(ScanStep, [best |-> 0, index |-> -1, gain |-> gain], ByCount)

Spend ==
  /\ stage = "spending" /\ budget # 0
  /\ Scan.index # -1
  /\ LET s == Scan.index
     IN  /\ budget' = budget - Eats(length[s])
         /\ length' = [length EXCEPT ![s] = @ - 1]
         /\ gain' = [Scan.gain EXCEPT ![s] = Saving(count[s], length[s] - 1)]
  /\ UNCHANGED <<count, smooth, level, stage>>

\* The budget is gone, or a pass finds nobody to give it to and the rest of the
\* 65536 passes will not either.
SpendingOver ==
  /\ stage = "spending"
  /\ budget = 0 \/ Scan.index = -1
  /\ stage' = "done"
  /\ UNCHANGED <<count, length, gain, budget, smooth, level>>

HTerminating == stage = "done" /\ UNCHANGED hvars

HNext ==
  \/ RemoveLevel \/ SmoothingOver
  \/ Spend \/ SpendingOver
  \/ HTerminating

HSpec == HInit /\ [][HNext]_hvars

-----------------------------------------------------------------------------
(* The code.                                                               *)

Coded == {s \in Symbols : length[s] > 0}

\* Mutant of ByLength: falling symbol.
ByLengthFalling ==
  Sorted(Coded, {p \in Symbols \X Symbols :
                   length[p[1]] < length[p[2]] \/ (length[p[1]] = length[p[2]] /\ p[1] > p[2])})

\* huff_item_compare_blen: rising length, then rising symbol.
ByLength ==
  Sorted(Coded, {p \in Symbols \X Symbols :
                   length[p[1]] < length[p[2]] \/ (length[p[1]] = length[p[2]] /\ p[1] < p[2])})

\* symval when the i-th symbol in that order gets its code.
Symval(i) ==
  FoldLeft(LAMBDA v, s : v + Eats(length[s]), 0, SubSeq(ByLength, 1, i - 1))

\* bit_rotate and write_bits send a code with its most significant bit first.
BitsOf(value, len) == [k \in 1 .. len |-> (value \div 2 ^ (len - k)) % 2]

Code ==
  LET order    == ByLength
      place(s) == CHOOSE i \in DOMAIN order : order[i] = s
  IN  [s \in Coded |-> BitsOf(Symval(place(s)) \div Eats(length[s]), length[s])]

\* What an inflater makes of the lengths (RFC 1951, 3.2.2): the first code of a
\* length follows the last of the one before, doubled.
InflateCode ==
  LET have(len) == Cardinality({s \in Coded : length[s] = len})
      first[len \in 0 .. Width] ==
        IF len = 0 THEN 0
        ELSE 2 * (first[len - 1] + (IF len = 1 THEN 0 ELSE have(len - 1)))
      before(s) == Cardinality({t \in Coded : length[t] = length[s] /\ t < s})
  IN  [s \in Coded |-> BitsOf(first[length[s]] + before(s), length[s])]

-----------------------------------------------------------------------------
(* Properties.                                                             *)

\* DBG_ASSERT "Pessimistic budget is below zero", and the same later on.
BudgetKept == budget >= 0

\* DBG_ASSERT "Fixed budget is not zero": every code point has been given away
\* unless there is only one symbol, so an inflater finds the code complete.
Complete ==
  stage = "done" => budget = 0 \/ (Cardinality(Counted) = 1
                                   /\ budget = 2 ^ (Width - 1))

\* Exactly the symbols that occur have got a code, although shortening takes bits
\* away from one and all of them, and the inflater, who sees only the lengths,
\* rebuilds the same code.
ReaderAgrees == stage = "done" => Coded = Counted /\ Code = InflateCode

=============================================================================
