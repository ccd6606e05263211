---------------------------- MODULE KompuraProofs ----------------------------
(***************************************************************************)
(* Proofs about BlockChoice and DeflateStream for every number and size of *)
(* linker blocks, all codes, all results of packing and every size of the  *)
(* bytes, about HuffmanLengths for every table of counts, and about        *)
(* TableLengths for every pair of code tables.                             *)
(*                                                                         *)
(* The invariant has one part for each phase.  While packing and ordering, *)
(* the slots of a group hold workloads of its run (SlotsOk), and its first *)
(* slot the least of them as soon as it has been ordered.  While the       *)
(* odometer runs, every comb before the present one is known, which needs  *)
(* that it counts: Successor says that between a comb and the next there   *)
(* is none.  While blocks are written, the bits written, those of the      *)
(* block at hand, and those that are planned for the blocks ahead are      *)
(* together no more than best_length; and what is written joins up.        *)
(*                                                                         *)
(* Ahead is what a comb costs from a linker block on, Best is what the     *)
(* reference in Shortest is.  Both are functions defined from the end of   *)
(* the image; that they exist is DownExists, and everything about them is  *)
(* by induction from the end (DownInduction).                              *)
(*                                                                         *)
(* The stream: Hold says that the bytes are the bits sent, cut in bytes.   *)
(* write_bits or-s a value into the byte that is begun and goes on in the  *)
(* next ones; a sum instead of an or is right as the bits are apart.       *)
(*                                                                         *)
(* The lengths: budget is what the codes leave of the code points, a sum   *)
(* over a set (SumsOver); every step takes from it what it gives away.  In *)
(* the end the longest code is not worth shortening, which with something  *)
(* left can only be so if it is the only one.                              *)
(*                                                                         *)
(* The tables: a run within which the words stop leaves enough for one     *)
(* more repeat, so that what the inflater has is always the beginning of   *)
(* the table.                                                              *)
(***************************************************************************)
EXTENDS BlockChoice, HuffmanLengths, TableLengths, Induction, FiniteSetTheorems, TLAPS

-----------------------------------------------------------------------------
(* Powers of two.                                                          *)

\* As many as a set of n elements has subsets.
LEMMA Subsets == \A n \in Nat : IsFiniteSet(SUBSET (1 .. n)) /\ Cardinality(SUBSET (1 .. n)) = 2 ^ n
<1> SUFFICES ASSUME NEW n \in Nat
             PROVE  IsFiniteSet(SUBSET (1 .. n)) /\ Cardinality(SUBSET (1 .. n)) = 2 ^ n
  OBVIOUS
<1>1. IsFiniteSet(1 .. n) /\ Cardinality(1 .. n) = n
  BY FS_Interval
<1>2. QED
  BY <1>1, FS_SUBSET

\* Powers of two as one would define them.
LEMMA PowerOfZero == 2 ^ 0 = 1
<1>1. Cardinality(SUBSET (1 .. 0)) = 2 ^ 0
  BY Subsets
<1>2. SUBSET (1 .. 0) = {{}}
  OBVIOUS
<1>3. Cardinality({{}}) = 1
  BY FS_Singleton
<1>4. QED
  BY <1>1, <1>2, <1>3

WithOne(S, x) == {s \cup {x} : s \in S}

\* With and without one more element.
LEMMA TwiceAsMany ==
  ASSUME NEW S, IsFiniteSet(S), NEW x, \A s \in S : x \notin s
  PROVE  Cardinality(S \cup WithOne(S, x)) = 2 * Cardinality(S)
<1>1. PICK f, W : f = [s \in S |-> s \cup {x}] /\ W = WithOne(S, x)
  OBVIOUS
<1>2. f \in Bijection(S, W)
  <2>1. f \in [S -> W] /\ \A u \in W : \E s \in S : f[s] = u
    BY <1>1 DEF WithOne
  <2>2. ASSUME NEW s \in S, NEW t \in S, f[s] = f[t] PROVE s = t
    <3>1. s \cup {x} = t \cup {x} /\ x \notin s /\ x \notin t
      BY <1>1, <2>2
    <3>2. \A y : y \in s <=> y \in s \cup {x} /\ y # x
      BY <3>1
    <3>3. \A y : y \in t <=> y \in t \cup {x} /\ y # x
      BY <3>1
    <3>4. \A y : y \in s <=> y \in t
      BY <3>1, <3>2, <3>3, Zenon
    <3>5. QED
      BY <3>4
  <2>3. QED
    BY <2>1, <2>2, Zenon DEF Bijection, Injection, Surjection, IsInjective
<1>3. IsFiniteSet(W) /\ Cardinality(W) = Cardinality(S)
  BY <1>2, FS_Bijection, Zenon DEF ExistsBijection
<1>4. S \cap W = {}
  BY <1>1 DEF WithOne
<1>5. Cardinality(S \cap W) = 0
  BY <1>4, FS_EmptySet
<1>6. Cardinality(S \cup W) = Cardinality(S) + Cardinality(W) - Cardinality(S \cap W)
  BY <1>3, FS_Union
<1>7. Cardinality(S) \in Nat
  BY FS_CardinalityType
<1>8. QED
  BY <1>1, <1>3, <1>5, <1>6, <1>7

LEMMA PowerOfNext == \A n \in Nat : 2 ^ n \in Nat /\ 2 ^ (n + 1) = 2 * 2 ^ n
<1> SUFFICES ASSUME NEW n \in Nat PROVE 2 ^ n \in Nat /\ 2 ^ (n + 1) = 2 * 2 ^ n
  OBVIOUS
<1>1. n + 1 \in Nat
  OBVIOUS
<1>2. /\ IsFiniteSet(SUBSET (1 .. n)) /\ Cardinality(SUBSET (1 .. n)) = 2 ^ n
      /\ Cardinality(SUBSET (1 .. n + 1)) = 2 ^ (n + 1)
  BY <1>1, Subsets
<1>3. PICK S : S = SUBSET (1 .. n)
  OBVIOUS
<1>4. PICK W : W = WithOne(S, n + 1)
  OBVIOUS
<1>5. \A s \in S : n + 1 \notin s
  BY <1>3
<1>6. SUBSET (1 .. n + 1) = S \cup W
  <2>1. ASSUME NEW s \in SUBSET (1 .. n + 1) PROVE s \in S \cup W
    <3>1. s \ {n + 1} \in S
      BY <1>3
    <3>2. CASE n + 1 \in s
      <4>1. s = (s \ {n + 1}) \cup {n + 1}
        BY <3>2
      <4>2. QED
        BY <1>4, <3>1, <4>1 DEF WithOne
    <3>3. CASE n + 1 \notin s
      BY <3>1, <3>3
    <3>4. QED
      BY <3>2, <3>3
  <2>2. ASSUME NEW s \in S \cup W PROVE s \in SUBSET (1 .. n + 1)
    BY <1>3, <1>4 DEF WithOne
  <2>3. QED
    BY <2>1, <2>2
<1>7. Cardinality(S \cup W) = 2 * Cardinality(S)
  <2>1. IsFiniteSet(S)
    BY <1>2, <1>3
  <2>2. QED
    BY <1>4, <1>5, <2>1, TwiceAsMany, Zenon
<1>8. Cardinality(S) \in Nat
  BY <1>2, <1>3, FS_CardinalityType
<1>9. QED
  BY <1>2, <1>3, <1>6, <1>7, <1>8

LEMMA PowersOfTwo == \A n \in Nat : 2 ^ n \in Powers /\ 2 ^ n \in Nat \ {0}
<1> DEFINE N == {n \in Nat : 2 ^ n \in Powers}
<1>1. 0 \in N
  BY PowerOfZero, OneIsPower
<1>2. \A n \in N : n + 1 \in N
  BY PowerOfNext, DoubledPower
<1> HIDE DEF N
<1>3. N = Nat
  <2>1. N \in SUBSET Nat
    BY DEF N
  <2>2. QED
    BY <1>1, <1>2, <2>1, SetInduction
<1>4. \A n \in Nat : 2 ^ n \in Powers
  BY <1>3 DEF N
<1>5. QED
  BY <1>4, PowersPositive

\* Exponents add up.
LEMMA PowerOfSum == \A m \in Nat, n \in Nat : 2 ^ (m + n) = 2 ^ m * 2 ^ n
<1> SUFFICES ASSUME NEW m \in Nat PROVE \A n \in Nat : 2 ^ (m + n) = 2 ^ m * 2 ^ n
  OBVIOUS
<1> DEFINE N == {n \in Nat : 2 ^ (m + n) = 2 ^ m * 2 ^ n}
<1>1. 0 \in N
  <2>1. 2 ^ m \in Nat /\ m + 0 = m
    BY PowersOfTwo
  <2>2. QED
    BY <2>1, PowerOfZero
<1>2. ASSUME NEW n \in N PROVE n + 1 \in N
  <2>1. n \in Nat /\ m + n \in Nat /\ m + (n + 1) = (m + n) + 1
    OBVIOUS
  <2>2. 2 ^ (m + (n + 1)) = 2 * (2 ^ m * 2 ^ n) /\ 2 ^ (n + 1) = 2 * 2 ^ n
    BY <2>1, PowerOfNext
  <2>3. 2 ^ m \in Nat /\ 2 ^ n \in Nat
    BY <2>1, PowersOfTwo
  <2>4. \A a \in Nat, b \in Nat : 2 * (a * b) = a * (2 * b)
    OBVIOUS
  <2>5. 2 ^ (m + (n + 1)) = 2 ^ m * 2 ^ (n + 1)
    BY <2>2, <2>3, <2>4
  <2>6. QED
    BY <2>1, <2>5
<1> HIDE DEF N
<1>3. N = Nat
  <2>1. N \in SUBSET Nat
    BY DEF N
  <2>2. QED
    BY <1>1, <1>2, <2>1, SetInduction
<1>4. QED
  BY <1>3 DEF N

-----------------------------------------------------------------------------
(* Sums.                                                                   *)

LEMMA TotalNatural ==
  ASSUME NEW s \in Seq(Nat)
  PROVE  Total(s) \in Nat
<1> DEFINE P == {q \in Seq(Nat) : Total(q) \in Nat}
<1>1. <<>> \in P
  BY TotalEmpty
<1>2. ASSUME NEW q \in P, NEW x \in Nat PROVE Append(q, x) \in P
  <2>1. q \in Seq(Nat) /\ q \in Seq(Int) /\ x \in Int /\ Append(q, x) \in Seq(Nat) /\ Total(q) \in Nat
    OBVIOUS
  <2>2. Total(Append(q, x)) = Total(q) + x
    BY <2>1, TotalAppend
  <2>3. QED
    BY <2>1, <2>2
<1>3. P \in SUBSET Seq(Nat)
  OBVIOUS
<1> HIDE DEF P
<1>4. P = Seq(Nat)
  BY <1>1, <1>2, <1>3, SequenceInduction
<1>5. QED
  BY <1>4 DEF P

LEMMA TotalInteger ==
  ASSUME NEW s \in Seq(Int)
  PROVE  Total(s) \in Int
<1>1. Total(s) = Fold(Adding, 0, s)
  BY TotalIsFold
<1>2. QED
  BY <1>1, AddingKeeps, FoldType

LEMMA TotalConcat ==
  ASSUME NEW s \in Seq(Int), NEW t \in Seq(Int)
  PROVE  Total(s \o t) = Total(s) + Total(t)
<1> DEFINE P == {q \in Seq(Int) : Total(s \o q) = Total(s) + Total(q)}
<1>1. <<>> \in P
  <2>1. s \o <<>> = s /\ Total(s) \in Int
    BY TotalInteger
  <2>2. QED
    BY <2>1, TotalEmpty
<1>2. ASSUME NEW q \in P, NEW x \in Int PROVE Append(q, x) \in P
  <2>1. q \in Seq(Int) /\ Append(q, x) \in Seq(Int) /\ Total(s \o q) = Total(s) + Total(q)
    OBVIOUS
  <2>2. s \o Append(q, x) = Append(s \o q, x) /\ s \o q \in Seq(Int)
    BY <2>1
  <2>3. Total(Append(q, x)) = Total(q) + x /\ Total(Append(s \o q, x)) = Total(s \o q) + x
    BY <2>1, <2>2, TotalAppend
  <2>4. Total(s) \in Int /\ Total(q) \in Int
    BY <2>1, TotalInteger
  <2>5. Total(s \o Append(q, x)) = Total(s) + Total(Append(q, x))
    BY <2>1, <2>2, <2>3, <2>4
  <2>6. QED
    BY <2>1, <2>5
<1>3. P \in SUBSET Seq(Int)
  OBVIOUS
<1> HIDE DEF P
<1>4. P = Seq(Int)
  BY <1>1, <1>2, <1>3, SequenceInduction
<1>5. QED
  BY <1>4 DEF P

LEMMA TotalOne ==
  ASSUME NEW x \in Int
  PROVE  Total(<<x>>) = x
<1>1. <<>> \in Seq(Int) /\ Append(<<>>, x) = <<x>>
  OBVIOUS
<1>2. Total(Append(<<>>, x)) = Total(<<>>) + x
  BY <1>1, TotalAppend
<1>3. QED
  BY <1>1, <1>2, TotalEmpty

\* F sums up what f has at the indices of a set.
SumsUp(F, f) ==
  F = [S \in SUBSET (1 .. Len(f)) |-> IF S = {} THEN 0 ELSE F[S \ {Max(S)}] + f[Max(S)]]

LEMMA SumsUpIs ==
  ASSUME NEW f \in Seq(Int)
  PROVE  /\ \E F : SumsUp(F, f)
         /\ \A F : SumsUp(F, f) => F[1 .. Len(f)] = Total(f)
<1>1. PICK n \in Nat : n = Len(f) /\ DOMAIN f = 1 .. n /\ \A k \in 1 .. n : f[k] \in Int
  OBVIOUS
<1>2. ASSUME NEW F, NEW S \in SUBSET (1 .. n), S # {}, F[S \ {Max(S)}] \in Int
      PROVE  Adding[<<F[S \ {Max(S)}], f[Max(S)]>>] = F[S \ {Max(S)}] + f[Max(S)]
  <2>1. f[Max(S)] \in Int
    BY <1>1, <1>2, GreatestIndex
  <2>2. QED
    BY <1>2, <2>1 DEF Adding
<1>3. \E F : SumsUp(F, f)
  <2>1. PICK H \in [SUBSET (1 .. n) -> Int] : Run(H, Adding, 0, f)
    BY <1>1, AddingKeeps, RunExists
  <2>2. \A S \in SUBSET (1 .. n) : H[S \ {Max(S)}] \in Int
    BY <2>1
  <2>3. SumsUp(H, f)
    BY <1>1, <1>2, <2>1, <2>2 DEF Run, RunTo, SumsUp
  <2>4. QED
    BY <2>3
<1>4. ASSUME NEW F, SumsUp(F, f) PROVE F[1 .. Len(f)] = Total(f)
  <2>1. F[{}] = 0
    BY <1>1, <1>4 DEF SumsUp
  <2>2. \A S \in SUBSET (1 .. n) : S # {} => F[S] = F[S \ {Max(S)}] + f[Max(S)]
    BY <1>1, <1>4 DEF SumsUp
  <2>3. Unrolls(F, Adding, 0, Int, f)
    BY <1>1, <1>2, <2>1, <2>2 DEF Unrolls
  <2>4. F[1 .. Len(f)] = Fold(Adding, 0, f)
    BY <2>3, AddingKeeps, UnrollsIs
  <2>5. QED
    BY <2>4, TotalIsFold
<1>5. QED
  BY <1>3, <1>4

-----------------------------------------------------------------------------
(* Numbers that strings of bits stand for.                                 *)

BitStrings == Seq({0, 1})

Weights(s) == [k \in DOMAIN s |-> s[k] * 2 ^ (k - 1)]

LEMMA WeightsAre ==
  ASSUME NEW s \in BitStrings
  PROVE  Weights(s) \in Seq(Nat) /\ Weights(s) \in Seq(Int) /\ Len(Weights(s)) = Len(s)
<1>1. PICK n \in Nat : n = Len(s) /\ DOMAIN s = 1 .. n /\ \A k \in 1 .. n : s[k] \in {0, 1}
  BY DEF BitStrings
<1>2. \A k \in 1 .. n : s[k] * 2 ^ (k - 1) \in Nat
  <2>1. \A k \in 1 .. n : k - 1 \in Nat
    OBVIOUS
  <2>2. \A k \in 1 .. n : 2 ^ (k - 1) \in Nat
    BY <2>1, PowersOfTwo
  <2>3. \A x \in {0, 1}, y \in Nat : x * y \in Nat
    OBVIOUS
  <2>4. QED
    BY <1>1, <2>2, <2>3
<1>3. Weights(s) \in [1 .. n -> Nat]
  BY <1>1, <1>2 DEF Weights
<1>4. QED
  BY <1>1, <1>3

\* Value is the sum of the weighted bits.
LEMMA ValueIs ==
  ASSUME NEW s \in BitStrings
  PROVE  Value(s) = Total(Weights(s))
<1>1. PICK n \in Nat : n = Len(s) /\ DOMAIN s = 1 .. n
  BY DEF BitStrings
<1> DEFINE q == [k \in DOMAIN s |-> k]
           Sums(F) == F = [S \in SUBSET (1 .. n) |->
                             IF S = {} THEN 0
                             ELSE F[S \ {Max(S)}] + s[q[Max(S)]] * 2 ^ (q[Max(S)] - 1)]
           G == CHOOSE F : Sums(F)
<1>2. Len(q) = n
  BY <1>1
<1>3. Value(s) = G[1 .. n]
  BY <1>1, <1>2 DEF Value, FoldLeft, MapThenFoldSet
<1>4. Weights(s) \in Seq(Int) /\ Len(Weights(s)) = n
  BY <1>1, WeightsAre
<1>5. \A S \in SUBSET (1 .. n) : S # {} => Weights(s)[Max(S)] = s[q[Max(S)]] * 2 ^ (q[Max(S)] - 1)
  BY <1>1, GreatestIndex DEF Weights
<1>6. \A F : Sums(F) <=> SumsUp(F, Weights(s))
  BY <1>4, <1>5 DEF SumsUp
<1> HIDE DEF Sums
<1>7. \E F : Sums(F)
  BY <1>4, <1>6, SumsUpIs
<1>8. Sums(G)
  BY <1>7
<1> HIDE DEF G
<1>9. QED
  BY <1>3, <1>4, <1>6, <1>8, SumsUpIs

LEMMA SplitAt ==
  ASSUME NEW T, NEW s \in Seq(T), NEW j \in 0 .. Len(s)
  PROVE  SubSeq(s, 1, j) \o SubSeq(s, j + 1, Len(s)) = s
<1>1. PICK n \in Nat : n = Len(s) /\ DOMAIN s = 1 .. n /\ j \in 0 .. n
  OBVIOUS
<1>2. PICK a, b : a = SubSeq(s, 1, j) /\ b = SubSeq(s, j + 1, n)
  OBVIOUS
<1>3. /\ a \in Seq(T) /\ Len(a) = j /\ \A k \in 1 .. j : a[k] = s[k]
  BY <1>1, <1>2
<1>4. /\ b \in Seq(T) /\ Len(b) = n - j /\ \A k \in 1 .. n - j : b[k] = s[j + k]
  BY <1>1, <1>2
<1>5. a \o b \in Seq(T) /\ Len(a \o b) = n /\ \A k \in 1 .. n : (a \o b)[k] = s[k]
  <2>1. Len(a \o b) = n /\ a \o b \in Seq(T)
    <3>1. Len(a \o b) = Len(a) + Len(b) /\ a \o b \in Seq(T)
      BY <1>3, <1>4, ConcatProperties
    <3>2. QED
      BY <1>1, <1>3, <1>4, <3>1
  <2>2. ASSUME NEW k \in 1 .. j PROVE (a \o b)[k] = s[k]
    <3>1. (a \o b)[k] = a[k]
      BY <1>1, <1>3, <1>4
    <3>2. QED
      BY <1>3, <3>1
  <2>3. ASSUME NEW k \in j + 1 .. n PROVE (a \o b)[k] = s[k]
    <3>1. k - j \in 1 .. n - j /\ j + (k - j) = k
      BY <1>1
    <3>2. (a \o b)[k] = b[k - j]
      BY <1>1, <1>3, <1>4
    <3>3. QED
      BY <1>4, <3>1, <3>2
  <2>4. QED
    BY <1>1, <2>1, <2>2, <2>3
<1>6. a \o b = s
  <2>1. PICK c \in Seq(T) : c = a \o b /\ Len(c) = n /\ \A k \in 1 .. n : c[k] = s[k]
    BY <1>5, Zenon
  <2>2. QED
    BY <1>1, <2>1
<1>7. QED
  BY <1>1, <1>2, <1>6

LEMMA ValueEmpty == Value(<<>>) = 0
<1>1. <<>> \in BitStrings /\ Weights(<<>>) = <<>>
  BY DEF BitStrings, Weights
<1>2. QED
  BY <1>1, ValueIs, TotalEmpty

\* One more bit weighs twice as much as the one before.
LEMMA ValueAppend ==
  ASSUME NEW s \in BitStrings, NEW b \in {0, 1}
  PROVE  /\ Append(s, b) \in BitStrings /\ Value(s) \in Nat
         /\ Value(Append(s, b)) = Value(s) + b * 2 ^ Len(s)
<1>1. PICK n \in Nat : n = Len(s) /\ DOMAIN s = 1 .. n /\ \A k \in 1 .. n : s[k] \in {0, 1}
  BY DEF BitStrings
<1>2. PICK t \in BitStrings : /\ t = Append(s, b) /\ DOMAIN t = 1 .. n + 1 /\ t[n + 1] = b
                              /\ \A k \in 1 .. n : t[k] = s[k]
  <2>1. Append(s, b) \in BitStrings
    BY DEF BitStrings
  <2>2. /\ DOMAIN Append(s, b) = 1 .. n + 1 /\ Append(s, b)[n + 1] = b
        /\ \A k \in 1 .. n : Append(s, b)[k] = s[k]
    BY <1>1 DEF BitStrings
  <2>3. QED
    BY <2>1, <2>2, Zenon
<1>3. PICK v \in Seq(Int) : v = Weights(s) /\ Len(v) = n /\ v \in Seq(Nat)
  BY <1>1, WeightsAre
<1>4. PICK x \in Nat : x = b * 2 ^ n
  <2>1. 2 ^ n \in Nat
    BY PowersOfTwo
  <2>2. QED
    BY <2>1
<1>5. Weights(t) = Append(v, x)
  <2>1. Weights(t) = [k \in 1 .. n + 1 |-> t[k] * 2 ^ (k - 1)]
    BY <1>2 DEF Weights
  <2>2. \A k \in 1 .. n : v[k] = s[k] * 2 ^ (k - 1)
    BY <1>1, <1>3 DEF Weights
  <2>3. (n + 1) - 1 = n
    OBVIOUS
  <2>4. \A k \in 1 .. n + 1 : Append(v, x)[k] = t[k] * 2 ^ (k - 1)
    BY <1>2, <1>3, <1>4, <2>2, <2>3
  <2>5. Append(v, x) = [k \in 1 .. n + 1 |-> Append(v, x)[k]]
    BY <1>3, <1>4
  <2>6. QED
    BY <2>1, <2>4, <2>5
<1>6. Value(s) = Total(v) /\ Value(t) = Total(Append(v, x))
  BY <1>2, <1>3, <1>5, ValueIs
<1>7. Total(Append(v, x)) = Total(v) + x
  BY <1>3, <1>4, TotalAppend
<1>8. Total(v) \in Nat
  BY <1>3, TotalNatural
<1>9. QED
  BY <1>1, <1>2, <1>4, <1>6, <1>7, <1>8

\* n bits are a number below 2^n.
LEMMA ValueBounds ==
  ASSUME NEW s \in BitStrings
  PROVE  Value(s) \in 0 .. 2 ^ Len(s) - 1
<1> DEFINE P == {q \in BitStrings : Value(q) \in 0 .. 2 ^ Len(q) - 1}
<1>1. <<>> \in P
  BY ValueEmpty, PowerOfZero DEF BitStrings
<1>2. ASSUME NEW q \in P, NEW b \in {0, 1} PROVE Append(q, b) \in P
  <2>1. q \in BitStrings /\ Value(q) \in 0 .. 2 ^ Len(q) - 1 /\ Len(q) \in Nat
    BY DEF BitStrings
  <2>2. Append(q, b) \in BitStrings /\ Value(Append(q, b)) = Value(q) + b * 2 ^ Len(q)
    BY <2>1, ValueAppend
  <2>3. Len(Append(q, b)) = Len(q) + 1
    BY <2>1 DEF BitStrings
  <2>4. 2 ^ Len(q) \in Nat /\ 2 ^ (Len(q) + 1) = 2 * 2 ^ Len(q)
    BY <2>1, PowerOfNext
  <2>5. \A x \in Nat, y \in Nat : y <= x - 1 => y + b * x \in 0 .. 2 * x - 1
    OBVIOUS
  <2>6. Value(Append(q, b)) \in 0 .. 2 ^ Len(Append(q, b)) - 1
    BY <2>1, <2>2, <2>3, <2>4, <2>5
  <2>7. QED
    BY <2>2, <2>6
<1>3. P \in SUBSET Seq({0, 1})
  BY DEF BitStrings
<1> HIDE DEF P
<1>4. P = Seq({0, 1})
  BY <1>1, <1>2, <1>3, SequenceInduction
<1>5. QED
  BY <1>4 DEF P, BitStrings

\* What follows n bits counts 2^n times.
LEMMA ValueConcat ==
  ASSUME NEW s \in BitStrings, NEW t \in BitStrings
  PROVE  s \o t \in BitStrings /\ Value(s \o t) = Value(s) + 2 ^ Len(s) * Value(t)
<1> DEFINE P == {q \in BitStrings : Value(s \o q) = Value(s) + 2 ^ Len(s) * Value(q)}
<1>1. Len(s) \in Nat /\ 2 ^ Len(s) \in Nat /\ Value(s) \in Nat
  <2>1. Len(s) \in Nat
    BY DEF BitStrings
  <2>2. 2 ^ Len(s) \in Nat
    BY <2>1, PowersOfTwo
  <2>3. QED
    BY <2>1, <2>2, ValueBounds
<1>2. <<>> \in P
  <2>1. <<>> \in BitStrings /\ s \o <<>> = s
    BY DEF BitStrings
  <2>2. QED
    BY <1>1, <2>1, ValueEmpty
<1>3. ASSUME NEW q \in P, NEW b \in {0, 1} PROVE Append(q, b) \in P
  <2>1. PICK n \in Nat, m \in Nat, u \in Nat : n = Len(s) /\ m = Len(q) /\ u = Value(q)
    <3>1. q \in BitStrings /\ Len(q) \in Nat
      BY DEF BitStrings
    <3>2. QED
      BY <1>1, <3>1, ValueAppend
  <2>2. q \in BitStrings /\ Value(s \o q) = Value(s) + 2 ^ n * u
    BY <2>1
  <2>3. s \o Append(q, b) = Append(s \o q, b) /\ s \o q \in BitStrings /\ Len(s \o q) = n + m
    BY <2>1, <2>2 DEF BitStrings
  <2>4. /\ Append(q, b) \in BitStrings
        /\ Value(Append(q, b)) = u + b * 2 ^ m
        /\ Value(Append(s \o q, b)) = Value(s \o q) + b * 2 ^ (n + m)
    BY <2>1, <2>2, <2>3, ValueAppend
  <2>5. PICK x, y : x = 2 ^ n /\ y = 2 ^ m
    OBVIOUS
  <2>9. x \in Nat /\ y \in Nat /\ 2 ^ (n + m) = x * y
    <3>1. n \in Nat /\ m \in Nat
      BY <2>1
    <3>2. 2 ^ n \in Nat /\ 2 ^ m \in Nat
      BY <3>1, PowersOfTwo
    <3>3. 2 ^ (n + m) = 2 ^ n * 2 ^ m
      BY <3>1, PowerOfSum
    <3>4. QED
      BY <2>5, <3>2, <3>3
  <2>6. \A v \in Nat : (v + x * u) + b * (x * y) = v + x * (u + b * y)
    BY <2>9
  <2>7. Value(s \o Append(q, b)) = Value(s) + 2 ^ n * Value(Append(q, b))
    <3>1. b \in Nat /\ u \in Nat /\ Value(s) \in Nat
      BY <1>1, <2>1
    <3>2. Value(s \o Append(q, b)) = (Value(s) + x * u) + b * (x * y)
      BY <2>2, <2>3, <2>4, <2>5, <2>9
    <3>3. Value(Append(q, b)) = u + b * y
      BY <2>4, <2>5
    <3>4. QED
      BY <2>5, <2>6, <3>1, <3>2, <3>3
  <2>8. QED
    BY <2>1, <2>4, <2>7
<1>4. P \in SUBSET Seq({0, 1})
  BY DEF BitStrings
<1> HIDE DEF P
<1>5. P = Seq({0, 1})
  BY <1>2, <1>3, <1>4, SequenceInduction
<1>6. s \o t \in BitStrings
  BY DEF BitStrings
<1>7. QED
  BY <1>5, <1>6 DEF P, BitStrings

LEMMA ValueZeros ==
  ASSUME NEW n \in Nat
  PROVE  Zeros(n) \in BitStrings /\ Len(Zeros(n)) = n /\ Value(Zeros(n)) = 0
<1> DEFINE N == {m \in Nat : Value(Zeros(m)) = 0}
<1>1. \A m \in Nat : Zeros(m) \in BitStrings /\ Len(Zeros(m)) = m
  BY DEF Zeros, BitStrings
<1>2. 0 \in N
  <2>1. Zeros(0) = <<>>
    BY DEF Zeros
  <2>2. QED
    BY <2>1, ValueEmpty
<1>3. ASSUME NEW m \in N PROVE m + 1 \in N
  <2>1. m \in Nat /\ m + 1 \in Nat /\ Value(Zeros(m)) = 0
    OBVIOUS
  <2>2. Zeros(m + 1) = Append(Zeros(m), 0)
    BY <2>1 DEF Zeros
  <2>3. Value(Append(Zeros(m), 0)) = Value(Zeros(m)) + 0 * 2 ^ Len(Zeros(m))
    BY <1>1, <2>1, ValueAppend
  <2>4. 2 ^ Len(Zeros(m)) \in Nat
    BY <1>1, <2>1, PowersOfTwo
  <2>5. \A x \in Nat : 0 + 0 * x = 0
    OBVIOUS
  <2>6. Value(Zeros(m + 1)) = 0
    BY <2>1, <2>2, <2>3, <2>4, <2>5
  <2>7. QED
    BY <2>1, <2>6
<1> HIDE DEF N
<1>4. N = Nat
  <2>1. N \in SUBSET Nat
    BY DEF N
  <2>2. QED
    BY <1>2, <1>3, <2>1, SetInduction
<1>5. QED
  BY <1>1, <1>4 DEF N

\* A bit of the number is a bit of the string.
LEMMA BitOfValue ==
  ASSUME NEW s \in BitStrings, NEW k \in Nat, k < Len(s)
  PROVE  (Value(s) \div 2 ^ k) % 2 = s[k + 1]
<1>1. PICK n \in Nat : n = Len(s) /\ DOMAIN s = 1 .. n /\ \A j \in 1 .. n : s[j] \in {0, 1}
  BY DEF BitStrings
<1>2. PICK a, b, c : a = SubSeq(s, 1, k) /\ b = <<s[k + 1]>> /\ c = SubSeq(s, k + 2, n)
  OBVIOUS
<1>3. /\ a \in BitStrings /\ b \in BitStrings /\ c \in BitStrings /\ Len(a) = k /\ Len(b) = 1
      /\ s = (a \o b) \o c
  <2>1. k + 1 \in 1 .. n
    BY <1>1
  <2>2. b \in BitStrings /\ Len(b) = 1
    BY <1>1, <1>2, <2>1 DEF BitStrings
  <2>3. a \in BitStrings /\ Len(a) = k
    BY <1>1, <1>2, <2>1 DEF BitStrings
  <2>4. c \in BitStrings
    BY <1>1, <1>2, <2>1 DEF BitStrings
  <2>5. SubSeq(s, 1, k) \o <<s[k + 1]>> = SubSeq(s, 1, k + 1)
    BY <1>1, <2>1 DEF BitStrings
  <2>6. SubSeq(s, 1, k + 1) \o SubSeq(s, k + 2, n) = s
    <3>1. k + 2 = (k + 1) + 1 /\ s \in Seq({0, 1})
      BY DEF BitStrings
    <3>2. k + 1 \in 0 .. Len(s)
      BY <1>1, <2>1
    <3>3. SubSeq(s, 1, k + 1) \o SubSeq(s, (k + 1) + 1, Len(s)) = s
      BY <3>1, <3>2, SplitAt
    <3>4. QED
      BY <1>1, <3>1, <3>3
  <2>7. QED
    BY <1>2, <2>2, <2>3, <2>4, <2>5, <2>6
<1>4. PICK d \in {0, 1} : d = s[k + 1] /\ b = Append(<<>>, d)
  BY <1>1, <1>2
<1>5. Value(b) = d
  <2>1. <<>> \in BitStrings /\ Len(<<>>) = 0
    BY DEF BitStrings
  <2>2. Value(Append(<<>>, d)) = Value(<<>>) + d * 2 ^ 0
    BY <2>1, ValueAppend
  <2>3. QED
    BY <1>4, <2>2, ValueEmpty, PowerOfZero
<1>6. /\ a \o b \in BitStrings /\ Len(a \o b) = k + 1 /\ Value(a \o b) = Value(a) + 2 ^ k * d
      /\ Value(s) = Value(a \o b) + 2 ^ (k + 1) * Value(c)
  <2>1. a \o b \in BitStrings /\ Len(a \o b) = k + 1
    <3>1. a \o b \in BitStrings
      BY <1>3, ValueConcat
    <3>2. Len(a \o b) = Len(a) + Len(b)
      BY <1>3, ConcatProperties DEF BitStrings
    <3>3. QED
      BY <1>3, <3>1, <3>2
  <2>2. Value(a \o b) = Value(a) + 2 ^ k * d
    BY <1>3, <1>5, ValueConcat
  <2>3. QED
    BY <1>3, <2>1, <2>2, ValueConcat
<1>7. PICK p \in Nat \ {0} : p = 2 ^ k /\ 2 ^ (k + 1) = 2 * p
  BY PowerOfNext, PowersOfTwo
<1>8. PICK x \in 0 .. p - 1, y \in Nat : x = Value(a) /\ y = Value(c)
  BY <1>3, <1>7, ValueBounds, ValueAppend
<1>9. Value(s) = x + p * (d + 2 * y)
  <2>1. Value(s) = (x + p * d) + (2 * p) * y
    BY <1>6, <1>7, <1>8
  <2>2. \A v, q \in Nat : (v + q * d) + (2 * q) * y = v + q * (d + 2 * y)
    OBVIOUS
  <2>3. QED
    BY <1>7, <2>1, <2>2
<1>10. Value(s) \div p = d + 2 * y
  <2>1. d + 2 * y \in Nat
    OBVIOUS
  <2>2. \A z \in Nat : (x + p * z) \div p = z
    OBVIOUS
  <2>3. QED
    BY <1>9, <2>1, <2>2
<1>11. (d + 2 * y) % 2 = d
  OBVIOUS
<1>12. QED
  BY <1>4, <1>7, <1>10, <1>11

-----------------------------------------------------------------------------
(* Bytes of a string of bits.                                              *)

LEMMA ByteBitsIs == ByteBits \in Nat /\ ByteBits >= 3 /\ Byte \in Nat \ {0}
<1>1. ByteBits \in Nat /\ ByteBits >= 3
  BY StreamAssumption
<1>2. QED
  BY <1>1, PowersOfTwo DEF Byte

BitAt(s, p) == IF p < Len(s) THEN s[p + 1] ELSE 0

\* n bits from p on; behind the string there is nothing but zeros.
Piece(s, p, n) == [k \in 1 .. n |-> BitAt(s, p + k - 1)]

ByteOf(s, n) == Value(Piece(s, n * ByteBits, ByteBits))

LEMMA BitAtType ==
  ASSUME NEW s \in BitStrings, NEW p \in Nat
  PROVE  BitAt(s, p) \in {0, 1}
<1>1. CASE p < Len(s)
  <2>1. p + 1 \in 1 .. Len(s)
    BY <1>1 DEF BitStrings
  <2>2. s[p + 1] \in {0, 1}
    BY <2>1 DEF BitStrings
  <2>3. QED
    BY <1>1, <2>2 DEF BitAt
<1>2. CASE ~ (p < Len(s))
  BY <1>2 DEF BitAt
<1>3. QED
  BY <1>1, <1>2

LEMMA PieceIs ==
  ASSUME NEW s \in BitStrings, NEW p \in Nat, NEW n \in Nat
  PROVE  /\ Piece(s, p, n) \in BitStrings /\ Len(Piece(s, p, n)) = n
         /\ \A k \in 1 .. n : Piece(s, p, n)[k] = BitAt(s, p + k - 1)
<1>1. \A k \in 1 .. n : BitAt(s, p + k - 1) \in {0, 1}
  <2>1. \A k \in 1 .. n : p + k - 1 \in Nat
    OBVIOUS
  <2>2. QED
    BY <2>1, BitAtType
<1>2. Piece(s, p, n) \in [1 .. n -> {0, 1}]
  BY <1>1 DEF Piece
<1>3. QED
  BY <1>2 DEF Piece, BitStrings

\* Strings with the same bits are the same.
LEMMA SameBits ==
  ASSUME NEW s \in BitStrings, NEW t \in BitStrings, Len(s) = Len(t),
         \A k \in 1 .. Len(s) : s[k] = t[k]
  PROVE  s = t
BY DEF BitStrings

LEMMA PieceOf ==
  ASSUME NEW s \in BitStrings, NEW p \in Nat, NEW n \in Nat, NEW t \in BitStrings, Len(t) = n,
         \A k \in 1 .. n : t[k] = BitAt(s, p + k - 1)
  PROVE  Piece(s, p, n) = t
<1>1. PICK u \in BitStrings : u = Piece(s, p, n) /\ Len(u) = n /\ \A k \in 1 .. n : u[k] = BitAt(s, p + k - 1)
  BY PieceIs, Zenon
<1>2. u = t
  BY <1>1, SameBits
<1>3. QED
  BY <1>1, <1>2

\* A piece is its first bits and the rest, shifted.
LEMMA PieceSplits ==
  ASSUME NEW s \in BitStrings, NEW p \in Nat, NEW m \in Nat, NEW n \in Nat
  PROVE  Piece(s, p, m + n) = Piece(s, p, m) \o Piece(s, p + m, n)
<1>1. PICK a, b : a = Piece(s, p, m) /\ b = Piece(s, p + m, n)
  OBVIOUS
<1>2. a \in BitStrings /\ Len(a) = m /\ \A k \in 1 .. m : a[k] = BitAt(s, p + k - 1)
  BY <1>1, PieceIs
<1>3. b \in BitStrings /\ Len(b) = n /\ \A k \in 1 .. n : b[k] = BitAt(s, p + m + k - 1)
  <2>1. p + m \in Nat
    OBVIOUS
  <2>2. QED
    BY <1>1, <2>1, PieceIs
<1>4. a \o b \in BitStrings /\ Len(a \o b) = m + n
  <2>1. a \o b \in BitStrings
    BY <1>2, <1>3, ValueConcat
  <2>2. Len(a \o b) = Len(a) + Len(b)
    BY <1>2, <1>3, ConcatProperties DEF BitStrings
  <2>3. QED
    BY <1>2, <1>3, <2>1, <2>2
<1>5. \A k \in 1 .. m + n : (a \o b)[k] = BitAt(s, p + k - 1)
  <2>0. \A k \in 1 .. m + n : (a \o b)[k] = IF k <= m THEN a[k] ELSE b[k - m]
    BY <1>2, <1>3, ConcatProperties DEF BitStrings
  <2>1. ASSUME NEW k \in 1 .. m PROVE (a \o b)[k] = BitAt(s, p + k - 1)
    <3>1. (a \o b)[k] = a[k]
      <4>1. k \in 1 .. m + n /\ k <= m
        OBVIOUS
      <4>2. QED
        BY <2>0, <4>1, Zenon
    <3>2. QED
      BY <1>2, <3>1
  <2>2. ASSUME NEW k \in m + 1 .. m + n PROVE (a \o b)[k] = BitAt(s, p + k - 1)
    <3>1. k - m \in 1 .. n /\ p + m + (k - m) - 1 = p + k - 1
      OBVIOUS
    <3>2. (a \o b)[k] = b[k - m]
      <4>1. k \in 1 .. m + n /\ ~ (k <= m)
        OBVIOUS
      <4>2. QED
        BY <2>0, <4>1, Zenon
    <3>3. b[k - m] = BitAt(s, p + m + (k - m) - 1)
      BY <1>3, <3>1
    <3>4. QED
      BY <3>1, <3>2, <3>3
  <2>3. \A k \in 1 .. m + n : k \in 1 .. m \/ k \in m + 1 .. m + n
    OBVIOUS
  <2>4. QED
    BY <2>1, <2>2, <2>3, Zenon
<1>6. Piece(s, p, m + n) = a \o b
  <2>1. m + n \in Nat
    OBVIOUS
  <2>2. QED
    BY <1>4, <1>5, <2>1, PieceOf
<1>7. QED
  BY <1>1, <1>6

\* A string and zeros behind it stand for the same number.
LEMMA PieceWhole ==
  ASSUME NEW s \in BitStrings, NEW n \in Nat, Len(s) <= n
  PROVE  Value(Piece(s, 0, n)) = Value(s)
<1>1. PICK m \in Nat, l \in Nat : l = Len(s) /\ n = l + m
  <2>1. Len(s) \in Nat /\ n - Len(s) \in Nat /\ n = Len(s) + (n - Len(s))
    BY DEF BitStrings
  <2>2. QED
    BY <2>1
<1>2. Piece(s, 0, l + m) = Piece(s, 0, l) \o Piece(s, 0 + l, m)
  <2>1. 0 \in Nat /\ l \in Nat /\ m \in Nat
    BY <1>1
  <2>2. QED
    BY <2>1, PieceSplits
<1>3. Piece(s, 0, l) = s
  <2>1. \A k \in 1 .. l : s[k] = BitAt(s, 0 + k - 1)
    BY <1>1 DEF BitAt
  <2>2. QED
    BY <1>1, <2>1, PieceOf
<1>4. Piece(s, 0 + l, m) = Zeros(m)
  <2>1. \A k \in 1 .. m : Zeros(m)[k] = BitAt(s, (0 + l) + k - 1)
    BY <1>1 DEF BitAt, Zeros
  <2>2. 0 + l \in Nat
    BY <1>1
  <2>3. QED
    BY <1>1, <2>1, <2>2, ValueZeros, PieceOf
<1>5. Value(s \o Zeros(m)) = Value(s) + 2 ^ l * Value(Zeros(m))
  BY <1>1, ValueConcat, ValueZeros
<1>6. 2 ^ l \in Nat /\ Value(Zeros(m)) = 0 /\ Value(s) \in Nat
  <2>1. l \in Nat /\ m \in Nat
    BY <1>1
  <2>2. 2 ^ l \in Nat
    BY <2>1, PowersOfTwo
  <2>3. Value(Zeros(m)) = 0
    BY <2>1, ValueZeros
  <2>4. 0 \in {0, 1}
    OBVIOUS
  <2>5. Value(s) \in Nat
    BY <2>4, ValueAppend
  <2>6. QED
    BY <2>2, <2>3, <2>5
<1>7. Piece(s, 0, n) = s \o Zeros(m)
  BY <1>1, <1>2, <1>3, <1>4
<1>8. \A x \in Nat, y \in Nat : y + x * 0 = y
  OBVIOUS
<1>9. QED
  BY <1>5, <1>6, <1>7, <1>8

-----------------------------------------------------------------------------
(* a | b.                                                                  *)

OrWeights(a, b) ==
  [k \in 1 .. ByteBits |->
     IF ((a \div 2 ^ (k - 1)) % 2) + ((b \div 2 ^ (k - 1)) % 2) > 0 THEN 2 ^ (k - 1) ELSE 0]

LEMMA OrWeightsType ==
  ASSUME NEW a, NEW b
  PROVE  OrWeights(a, b) \in Seq(Nat) /\ OrWeights(a, b) \in Seq(Int) /\ Len(OrWeights(a, b)) = ByteBits
<1>1. \A k \in 1 .. ByteBits : 2 ^ (k - 1) \in Nat
  <2>1. \A k \in 1 .. ByteBits : k - 1 \in Nat
    BY ByteBitsIs
  <2>2. QED
    BY <2>1, PowersOfTwo
<1>2. OrWeights(a, b) \in [1 .. ByteBits -> Nat]
  BY <1>1 DEF OrWeights
<1>3. QED
  BY <1>2, ByteBitsIs

\* What is or-ed together without a common bit is added.
LEMMA OrIs ==
  ASSUME NEW a, NEW b
  PROVE  Or(a, b) = Total(OrWeights(a, b)) /\ Or(a, b) \in Nat
<1> DEFINE n == ByteBits
           q == [k \in 1 .. n |-> k - 1]
           Bits2(k) == ((a \div 2 ^ k) % 2) + ((b \div 2 ^ k) % 2)
           Sums(F) == F = [S \in SUBSET (1 .. n) |->
                             IF S = {} THEN 0
                             ELSE F[S \ {Max(S)}] + (IF Bits2(q[Max(S)]) > 0 THEN 2 ^ q[Max(S)] ELSE 0)]
           G == CHOOSE F : Sums(F)
<1>1. n \in Nat
  BY ByteBitsIs
<1>2. Len(q) = n
  BY <1>1
<1>3. Or(a, b) = G[1 .. n]
  BY <1>1, <1>2 DEF Or, FoldLeft, MapThenFoldSet
<1>4. OrWeights(a, b) \in Seq(Int) /\ Len(OrWeights(a, b)) = n
  BY <1>1, OrWeightsType
<1>5. \A S \in SUBSET (1 .. n) : S # {} =>
        OrWeights(a, b)[Max(S)] = IF Bits2(q[Max(S)]) > 0 THEN 2 ^ q[Max(S)] ELSE 0
  BY <1>1, GreatestIndex DEF OrWeights
<1>6. \A F : Sums(F) <=> SumsUp(F, OrWeights(a, b))
  BY <1>4, <1>5 DEF SumsUp
<1> HIDE DEF Sums
<1>7. \E F : Sums(F)
  BY <1>4, <1>6, SumsUpIs
<1>8. Sums(G)
  BY <1>7
<1> HIDE DEF G
<1>9. Or(a, b) = Total(OrWeights(a, b))
  BY <1>3, <1>4, <1>6, <1>8, SumsUpIs
<1>10. QED
  BY <1>9, OrWeightsType, TotalNatural

Joined(u, v) == [k \in 1 .. ByteBits |-> IF u[k] + v[k] > 0 THEN 1 ELSE 0]

LEMMA OrOfBits ==
  ASSUME NEW u \in BitStrings, NEW v \in BitStrings, Len(u) = ByteBits, Len(v) = ByteBits
  PROVE  /\ Joined(u, v) \in BitStrings /\ Len(Joined(u, v)) = ByteBits
         /\ Or(Value(u), Value(v)) = Value(Joined(u, v))
<1>1. PICK n \in Nat : n = ByteBits
  BY ByteBitsIs
<1>2. PICK s \in BitStrings : s = Joined(u, v) /\ Len(s) = n /\ DOMAIN s = 1 .. n
                              /\ \A k \in 1 .. n : s[k] = IF u[k] + v[k] > 0 THEN 1 ELSE 0
  <2>1. Joined(u, v) \in [1 .. n -> {0, 1}]
    BY <1>1 DEF Joined
  <2>2. Joined(u, v) \in BitStrings /\ Len(Joined(u, v)) = n /\ DOMAIN Joined(u, v) = 1 .. n
    BY <1>1, <2>1 DEF BitStrings
  <2>3. \A k \in 1 .. n : Joined(u, v)[k] = IF u[k] + v[k] > 0 THEN 1 ELSE 0
    BY <1>1 DEF Joined
  <2>4. QED
    BY <2>2, <2>3, Zenon
<1>3. \A k \in 1 .. n : OrWeights(Value(u), Value(v))[k] = s[k] * 2 ^ (k - 1)
  <2> SUFFICES ASSUME NEW k \in 1 .. n
               PROVE  OrWeights(Value(u), Value(v))[k] = s[k] * 2 ^ (k - 1)
    OBVIOUS
  <2>1. k - 1 \in Nat /\ k - 1 < n /\ (k - 1) + 1 = k
    OBVIOUS
  <2>2. (Value(u) \div 2 ^ (k - 1)) % 2 = u[k]
    BY <1>1, <2>1, BitOfValue
  <2>3. (Value(v) \div 2 ^ (k - 1)) % 2 = v[k]
    BY <1>1, <2>1, BitOfValue
  <2>4. 2 ^ (k - 1) \in Nat
    BY <2>1, PowersOfTwo
  <2>5. OrWeights(Value(u), Value(v))[k] = IF u[k] + v[k] > 0 THEN 2 ^ (k - 1) ELSE 0
    BY <1>1, <2>2, <2>3 DEF OrWeights
  <2>6. \A x \in Nat : 1 * x = x /\ 0 * x = 0
    OBVIOUS
  <2>7. QED
    BY <1>2, <2>4, <2>5, <2>6
<1>4. OrWeights(Value(u), Value(v)) = Weights(s)
  <2>1. OrWeights(Value(u), Value(v)) = [k \in 1 .. n |-> OrWeights(Value(u), Value(v))[k]]
    BY <1>1 DEF OrWeights
  <2>2. QED
    BY <1>2, <1>3, <2>1 DEF Weights
<1>5. QED
  BY <1>1, <1>2, <1>4, OrIs, ValueIs

-----------------------------------------------------------------------------
(* write_bits.                                                             *)

LEMMA BitAtConcat ==
  ASSUME NEW s \in BitStrings, NEW t \in BitStrings, NEW p \in Nat
  PROVE  BitAt(s \o t, p) = IF p < Len(s) THEN BitAt(s, p) ELSE BitAt(t, p - Len(s))
<1>1. PICK m \in Nat, n \in Nat : m = Len(s) /\ n = Len(t)
  BY DEF BitStrings
<1>2. Len(s \o t) = m + n /\ \A k \in 1 .. m + n : (s \o t)[k] = IF k <= m THEN s[k] ELSE t[k - m]
  BY <1>1, ConcatProperties DEF BitStrings
<1>3. CASE p < m
  <2>1. p + 1 \in 1 .. m + n /\ p + 1 <= m /\ p < m + n
    BY <1>3
  <2>2. (s \o t)[p + 1] = s[p + 1]
    BY <1>2, <2>1, Zenon
  <2>3. QED
    BY <1>1, <1>2, <1>3, <2>1, <2>2 DEF BitAt
<1>4. CASE p >= m /\ p < m + n
  <2>1. p + 1 \in 1 .. m + n /\ ~ (p + 1 <= m) /\ (p + 1) - m = (p - m) + 1 /\ p - m < n /\ ~ (p < m)
    BY <1>4
  <2>2. (s \o t)[p + 1] = t[(p + 1) - m]
    BY <1>2, <2>1, Zenon
  <2>3. QED
    BY <1>1, <1>2, <1>4, <2>1, <2>2 DEF BitAt
<1>5. CASE p >= m + n
  <2>1. ~ (p < m + n) /\ ~ (p < m) /\ ~ (p - m < n)
    BY <1>5
  <2>2. QED
    BY <1>1, <1>2, <2>1 DEF BitAt
<1>6. QED
  BY <1>3, <1>4, <1>5

\* Bytes that end before the new bits, or start behind them.
LEMMA ByteUntouched ==
  ASSUME NEW s \in BitStrings, NEW t \in BitStrings, NEW n \in Nat,
         (n + 1) * ByteBits <= Len(s) \/ n * ByteBits >= Len(s) + Len(t)
  PROVE  ByteOf(s \o t, n) = ByteOf(s, n)
<1>1. PICK B \in Nat : B = ByteBits
  BY ByteBitsIs
<1>2. PICK p \in Nat : p = n * B /\ (n + 1) * B = p + B
  <2>1. n * B \in Nat /\ (n + 1) * B = n * B + B
    OBVIOUS
  <2>2. QED
    BY <2>1
<1>3. Len(s) \in Nat /\ Len(t) \in Nat /\ s \o t \in BitStrings
  BY ValueConcat DEF BitStrings
<1>4. \A k \in 1 .. B : BitAt(s \o t, p + k - 1) = BitAt(s, p + k - 1)
  <2> SUFFICES ASSUME NEW k \in 1 .. B PROVE BitAt(s \o t, p + k - 1) = BitAt(s, p + k - 1)
    OBVIOUS
  <2>1. p + k - 1 \in Nat
    OBVIOUS
  <2>2. BitAt(s \o t, p + k - 1) = IF p + k - 1 < Len(s) THEN BitAt(s, p + k - 1)
                                   ELSE BitAt(t, (p + k - 1) - Len(s))
    BY <2>1, BitAtConcat
  <2>3. CASE p + B <= Len(s)
    <3>1. p + k - 1 < Len(s)
      BY <1>3, <2>3
    <3>2. QED
      BY <2>2, <3>1
  <2>4. CASE p >= Len(s) + Len(t)
    <3>1. ~ (p + k - 1 < Len(s)) /\ ~ ((p + k - 1) - Len(s) < Len(t))
      BY <1>3, <2>4
    <3>2. QED
      BY <2>2, <3>1 DEF BitAt
  <2>5. QED
    BY <1>1, <1>2, <2>3, <2>4
<1>5. Piece(s \o t, p, B) = Piece(s, p, B)
  BY <1>4, Zenon DEF Piece
<1>6. QED
  BY <1>1, <1>2, <1>5 DEF ByteOf

\* The bits behind the first r of a byte, as write_bits makes them a number.
Shifted(t, r) == Zeros(r) \o t

LEMMA ShiftedIs ==
  ASSUME NEW t \in BitStrings, NEW r \in Nat
  PROVE  /\ Shifted(t, r) \in BitStrings /\ Len(Shifted(t, r)) = r + Len(t)
         /\ Value(Shifted(t, r)) = (Value(t) % 2 ^ Len(t)) * 2 ^ r
         /\ \A p \in Nat : BitAt(Shifted(t, r), p) = IF p < r THEN 0 ELSE BitAt(t, p - r)
<1>1. Zeros(r) \in BitStrings /\ Len(Zeros(r)) = r /\ Value(Zeros(r)) = 0
  BY ValueZeros
<1>2. Shifted(t, r) \in BitStrings /\ Value(Shifted(t, r)) = 0 + 2 ^ r * Value(t)
  BY <1>1, ValueConcat DEF Shifted
<1>3. Len(Shifted(t, r)) = r + Len(t)
  BY <1>1, ConcatProperties DEF Shifted, BitStrings
<1>4. Len(t) \in Nat
  BY DEF BitStrings
<1>5. Value(t) \in 0 .. 2 ^ Len(t) - 1 /\ 2 ^ Len(t) \in Nat \ {0} /\ 2 ^ r \in Nat
  BY <1>4, ValueBounds, PowersOfTwo
<1>6. Value(t) % 2 ^ Len(t) = Value(t) /\ Value(t) \in Nat
  BY <1>5
<1>7. \A x \in Nat, y \in Nat : 0 + x * y = y * x
  OBVIOUS
<1>8. Value(Shifted(t, r)) = (Value(t) % 2 ^ Len(t)) * 2 ^ r
  BY <1>2, <1>5, <1>6, <1>7
<1>9. ASSUME NEW p \in Nat PROVE BitAt(Shifted(t, r), p) = IF p < r THEN 0 ELSE BitAt(t, p - r)
  <2>1. BitAt(Shifted(t, r), p) = IF p < r THEN BitAt(Zeros(r), p) ELSE BitAt(t, p - r)
    BY <1>1, BitAtConcat DEF Shifted
  <2>2. p < r => BitAt(Zeros(r), p) = 0
    BY <1>1 DEF BitAt, Zeros
  <2>3. QED
    BY <2>1, <2>2
<1>10. QED
  BY <1>2, <1>3, <1>8, <1>9

\* The halves of a number of at most two bytes.
LEMMA Halves ==
  ASSUME NEW z \in BitStrings, Len(z) <= ByteBits + ByteBits
  PROVE  /\ Value(z) % Byte = Value(Piece(z, 0, ByteBits))
         /\ Value(z) \div Byte = Value(Piece(z, ByteBits, ByteBits))
<1>1. PICK B \in Nat : B = ByteBits /\ B + B \in Nat
  BY ByteBitsIs
<1>2. PICK a, b : a = Piece(z, 0, B) /\ b = Piece(z, B, B)
  OBVIOUS
<1>3. a \in BitStrings /\ Len(a) = B /\ b \in BitStrings /\ Len(b) = B
  BY <1>2, PieceIs
<1>4. Value(Piece(z, 0, B + B)) = Value(z)
  BY <1>1, PieceWhole
<1>5. Piece(z, 0, B + B) = a \o b
  <2>1. 0 \in Nat /\ 0 + B = B
    OBVIOUS
  <2>2. Piece(z, 0, B + B) = Piece(z, 0, B) \o Piece(z, 0 + B, B)
    BY <2>1, PieceSplits
  <2>3. QED
    BY <1>2, <2>1, <2>2
<1>6. Value(a \o b) = Value(a) + 2 ^ B * Value(b)
  BY <1>3, ValueConcat
<1>7. PICK p \in Nat \ {0} : p = 2 ^ B /\ p = Byte
  BY <1>1, PowersOfTwo DEF Byte
<1>8. Value(a) \in 0 .. p - 1 /\ Value(b) \in Nat
  <2>1. 0 \in {0, 1}
    OBVIOUS
  <2>2. Value(b) \in Nat
    BY <1>3, <2>1, ValueAppend
  <2>3. QED
    BY <1>3, <1>7, <2>2, ValueBounds
<1>9. Value(z) = Value(a) + p * Value(b)
  BY <1>4, <1>5, <1>6, <1>7
<1>10. \A x \in 0 .. p - 1, y \in Nat : (x + p * y) % p = x /\ (x + p * y) \div p = y
  OBVIOUS
<1>11. (Value(a) + p * Value(b)) % p = Value(a) /\ (Value(a) + p * Value(b)) \div p = Value(b)
  BY <1>8, <1>10
<1>12. QED
  BY <1>1, <1>2, <1>7, <1>9, <1>11

\* The e-th byte from the one on in which the string ends.
LEMMA ByteJoined ==
  ASSUME NEW s \in BitStrings, NEW t \in BitStrings, NEW q \in Nat, NEW r \in Nat,
         Len(s) = q * ByteBits + r, NEW e \in Nat
  PROVE  Or(ByteOf(s, q + e), Value(Piece(Shifted(t, r), e * ByteBits, ByteBits)))
           = ByteOf(s \o t, q + e)
<1>1. PICK B \in Nat : B = ByteBits
  BY ByteBitsIs
<1>2. PICK p \in Nat, f \in Nat : p = q * B /\ f = e * B /\ (q + e) * B = p + f
  <2>1. q * B \in Nat /\ e * B \in Nat /\ (q + e) * B = q * B + e * B
    OBVIOUS
  <2>2. QED
    BY <2>1
<1>3. PICK z \in BitStrings :
        /\ z = Shifted(t, r)
        /\ \A k \in Nat : BitAt(z, k) = IF k < r THEN 0 ELSE BitAt(t, k - r)
  BY ShiftedIs
<1>4. s \o t \in BitStrings /\ Len(s) \in Nat /\ Len(s) = p + r
  BY <1>1, <1>2, ValueConcat DEF BitStrings
<1>5. PICK u \in BitStrings : /\ u = Piece(s, p + f, B) /\ Len(u) = B
                              /\ \A k \in 1 .. B : u[k] = BitAt(s, (p + f) + k - 1)
  <2>1. PICK h \in Nat : h = p + f
    OBVIOUS
  <2>2. /\ Piece(s, h, B) \in BitStrings /\ Len(Piece(s, h, B)) = B
        /\ \A k \in 1 .. B : Piece(s, h, B)[k] = BitAt(s, h + k - 1)
    <3>1. h \in Nat /\ B \in Nat /\ s \in BitStrings
      BY <1>1, <2>1
    <3>2. QED
      BY <3>1, PieceIs, ZenonT(60)
  <2>3. QED
    BY <2>1, <2>2, Zenon
<1>6. PICK v \in BitStrings : /\ v = Piece(z, f, B) /\ Len(v) = B
                              /\ \A k \in 1 .. B : v[k] = BitAt(z, f + k - 1)
  <2>1. /\ Piece(z, f, B) \in BitStrings /\ Len(Piece(z, f, B)) = B
        /\ \A k \in 1 .. B : Piece(z, f, B)[k] = BitAt(z, f + k - 1)
    BY PieceIs
  <2>2. QED
    BY <2>1, Zenon
<1>7. ASSUME NEW k \in 1 .. B
      PROVE  BitAt(s \o t, (p + f) + k - 1) = IF u[k] + v[k] > 0 THEN 1 ELSE 0
  <2>1. PICK g \in Nat : g = f + k - 1 /\ (p + f) + k - 1 = p + g
    <3>1. f + k - 1 \in Nat /\ (p + f) + k - 1 = p + (f + k - 1)
      OBVIOUS
    <3>2. QED
      BY <3>1
  <2>2. u[k] = BitAt(s, p + g) /\ v[k] = IF g < r THEN 0 ELSE BitAt(t, g - r)
    BY <1>3, <1>5, <1>6, <2>1
  <2>3. BitAt(s \o t, p + g) = IF p + g < p + r THEN BitAt(s, p + g) ELSE BitAt(t, (p + g) - (p + r))
    <3>1. PICK h \in Nat : h = p + g
      OBVIOUS
    <3>2. BitAt(s \o t, h) = IF h < Len(s) THEN BitAt(s, h) ELSE BitAt(t, h - Len(s))
      BY BitAtConcat
    <3>3. QED
      BY <1>4, <3>1, <3>2
  <2>4. CASE g < r
    <3>1. p + g < p + r /\ BitAt(s, p + g) \in {0, 1}
      BY <2>4, BitAtType
    <3>2. u[k] \in {0, 1} /\ v[k] = 0 /\ BitAt(s \o t, p + g) = u[k]
      BY <2>2, <2>3, <2>4, <3>1
    <3>3. QED
      BY <2>1, <3>2
  <2>5. CASE ~ (g < r)
    <3>1. ~ (p + g < p + r) /\ (p + g) - (p + r) = g - r /\ g - r \in Nat
      BY <2>5
    <3>2. BitAt(t, g - r) \in {0, 1}
      BY <3>1, BitAtType
    <3>3. BitAt(s, p + g) = 0
      BY <1>4, <3>1 DEF BitAt
    <3>4. u[k] = 0 /\ v[k] \in {0, 1} /\ BitAt(s \o t, p + g) = v[k]
      BY <2>2, <2>3, <2>5, <3>1, <3>2, <3>3
    <3>5. QED
      BY <2>1, <3>4
  <2>6. QED
    BY <2>4, <2>5
<1>8. PICK j \in BitStrings : j = Joined(u, v) /\ Len(j) = B /\ Or(Value(u), Value(v)) = Value(j)
  BY <1>1, <1>5, <1>6, OrOfBits
<1>9. \A k \in 1 .. B : j[k] = IF u[k] + v[k] > 0 THEN 1 ELSE 0
  BY <1>1, <1>8 DEF Joined
<1>10. Piece(s \o t, p + f, B) = j
  <2>1. PICK h \in Nat : h = p + f
    OBVIOUS
  <2>2. \A k \in 1 .. B : j[k] = BitAt(s \o t, h + k - 1)
    BY <1>7, <1>9, <2>1
  <2>3. Piece(s \o t, h, B) = j
    BY <1>4, <1>8, <2>2, PieceOf
  <2>4. QED
    BY <2>1, <2>3
<1>11. QED
  BY <1>1, <1>2, <1>3, <1>5, <1>6, <1>8, <1>10 DEF ByteOf

LEMMA PutType ==
  ASSUME NEW D, NEW d \in [D -> Nat], NEW at, NEW data, NEW bits
  PROVE  Put(d, at, data, bits) \in [D -> Nat] /\ write_bits(d, at, data, bits) \in [D -> Nat]
<1>1. ASSUME NEW f \in [D -> Nat], NEW x, NEW y PROVE [f EXCEPT ![x] = Or(@, y)] \in [D -> Nat]
  <2>1. Or(f[x], y) \in Nat
    BY OrIs
  <2>2. QED
    BY <2>1
<1>2. ASSUME NEW f \in [D -> Nat], NEW a, NEW x, NEW b PROVE Put(f, a, x, b) \in [D -> Nat]
  <2>1. PICK v : v = (x % 2 ^ b) * 2 ^ (a % ByteBits)
    OBVIOUS
  <2>2. PICK g \in [D -> Nat] : g = [f EXCEPT ![a \div ByteBits] = Or(@, v % Byte)]
    BY <1>1, Zenon
  <2>3. [g EXCEPT ![a \div ByteBits + 1] = Or(@, v \div Byte)] \in [D -> Nat]
    BY <1>1, <2>2, Zenon
  <2>4. Put(f, a, x, b) = IF (a % ByteBits) + b > ByteBits
                          THEN [g EXCEPT ![a \div ByteBits + 1] = Or(@, v \div Byte)] ELSE g
    BY <2>1, <2>2, Zenon DEF Put
  <2>5. QED
    BY <2>2, <2>3, <2>4, Zenon
<1>3. QED
  BY <1>2, Zenon DEF write_bits

\* The bytes hold the bits of a string.
Hold(d, s) == \A n \in DOMAIN d : d[n] = ByteOf(s, n)

\* One byte of write_bits.
LEMMA PutHolds ==
  ASSUME NEW D \in SUBSET Nat, NEW d \in [D -> Nat], NEW s \in BitStrings, NEW t \in BitStrings,
         Len(t) <= ByteBits, Hold(d, s)
  PROVE  Hold(Put(d, Len(s), Value(t), Len(t)), s \o t)
<1>1. PICK B \in Nat \ {0} : B = ByteBits
  BY ByteBitsIs
<1>2. PICK a \in Nat, b \in Nat : a = Len(s) /\ b = Len(t) /\ b <= B
  BY <1>1 DEF BitStrings
<1>3. PICK q, r : q = a \div B /\ r = a % B
  OBVIOUS
<1>4. q \in Nat /\ r \in Nat /\ r < B /\ a = q * B + r
  BY <1>3
<1>5. PICK z \in BitStrings : z = Shifted(t, r) /\ Len(z) = r + b /\ Value(z) = (Value(t) % 2 ^ b) * 2 ^ r
  BY <1>2, <1>4, ShiftedIs
<1>6. Len(z) <= B + B
  BY <1>2, <1>4, <1>5
<1>7. /\ Value(z) % Byte = Value(Piece(Shifted(t, r), 0, ByteBits))
      /\ Value(z) \div Byte = Value(Piece(Shifted(t, r), ByteBits, ByteBits))
  BY <1>1, <1>5, <1>6, Halves
<1>17. Len(s) = q * ByteBits + r /\ q \in Nat /\ r \in Nat
  BY <1>1, <1>2, <1>4
<1>8. Or(ByteOf(s, q), Value(z) % Byte) = ByteOf(s \o t, q)
  <2>1. 0 \in Nat /\ q + 0 = q /\ 0 * ByteBits = 0
    BY <1>1, <1>4
  <2>2. Or(ByteOf(s, q + 0), Value(Piece(Shifted(t, r), 0 * ByteBits, ByteBits))) = ByteOf(s \o t, q + 0)
    BY <1>17, <2>1, ByteJoined
  <2>3. QED
    BY <1>7, <2>1, <2>2
<1>9. Or(ByteOf(s, q + 1), Value(z) \div Byte) = ByteOf(s \o t, q + 1)
  <2>1. 1 \in Nat /\ 1 * ByteBits = ByteBits
    BY <1>1
  <2>2. Or(ByteOf(s, q + 1), Value(Piece(Shifted(t, r), 1 * ByteBits, ByteBits))) = ByteOf(s \o t, q + 1)
    BY <1>17, <2>1, ByteJoined
  <2>3. QED
    BY <1>7, <2>1, <2>2
<1>10. ASSUME NEW n \in Nat, n < q \/ n > q + 1 \/ (n = q + 1 /\ r + b <= B)
       PROVE  ByteOf(s \o t, n) = ByteOf(s, n)
  <2>1. (n + 1) * B <= a \/ n * B >= a + b
    <3>1. CASE n < q
      <4>1. n + 1 <= q /\ n + 1 \in Nat
        BY <1>4, <3>1
      <4>2. (n + 1) * B <= q * B
        BY <1>4, <4>1, ProductGrows
      <4>3. QED
        BY <1>4, <4>2
    <3>2. CASE n > q + 1
      <4>1. q + 2 <= n /\ q + 2 \in Nat
        BY <1>4, <3>2
      <4>2. (q + 2) * B <= n * B
        BY <1>4, <4>1, ProductGrows
      <4>3. (q + 2) * B = q * B + B + B
        BY <1>4
      <4>4. QED
        BY <1>2, <1>4, <4>2, <4>3
    <3>3. CASE n = q + 1 /\ r + b <= B
      <4>1. n * B = q * B + B
        BY <1>4, <3>3
      <4>2. QED
        BY <1>2, <1>4, <3>3, <4>1
    <3>4. QED
      BY <1>10, <3>1, <3>2, <3>3
  <2>2. QED
    BY <1>1, <1>2, <2>1, ByteUntouched
<1>11. PICK g \in [D -> Nat] : g = [d EXCEPT ![q] = Or(@, Value(z) % Byte)]
  <2>1. Or(d[q], Value(z) % Byte) \in Nat
    BY OrIs
  <2>2. [d EXCEPT ![q] = Or(@, Value(z) % Byte)] \in [D -> Nat]
    BY <2>1
  <2>3. QED
    BY <2>2, Zenon
<1>12. \A n \in D : g[n] = IF n = q THEN ByteOf(s \o t, q) ELSE ByteOf(s, n)
  BY <1>8, <1>11 DEF Hold
<1>13. PICK p \in [D -> Nat] : p = Put(d, Len(s), Value(t), Len(t))
  BY PutType
<1>14. p = IF r + b > B THEN [g EXCEPT ![q + 1] = Or(@, Value(z) \div Byte)] ELSE g
  BY <1>1, <1>2, <1>3, <1>5, <1>11, <1>13 DEF Put
<1>15. ASSUME NEW n \in D PROVE p[n] = ByteOf(s \o t, n)
  <2>1. n \in Nat
    OBVIOUS
  <2>2. CASE r + b > B
    <3>1. p[n] = IF n = q + 1 THEN Or(g[n], Value(z) \div Byte) ELSE g[n]
      BY <1>14, <2>2
    <3>2. CASE n = q + 1
      <4>1. g[n] = ByteOf(s, q + 1)
        BY <1>4, <1>12, <3>2
      <4>2. QED
        BY <1>9, <3>1, <3>2, <4>1
    <3>3. CASE n = q
      BY <1>4, <1>12, <3>1, <3>3
    <3>4. CASE n # q /\ n # q + 1
      <4>1. n < q \/ n > q + 1
        BY <1>4, <2>1, <3>4
      <4>2. QED
        BY <1>10, <1>12, <2>1, <3>1, <3>4, <4>1
    <3>5. QED
      BY <3>2, <3>3, <3>4
  <2>3. CASE ~ (r + b > B)
    <3>1. p[n] = g[n] /\ r + b <= B
      BY <1>2, <1>4, <1>14, <2>3
    <3>2. CASE n = q
      BY <1>12, <3>1, <3>2
    <3>3. CASE n # q
      <4>1. n < q \/ n > q + 1 \/ (n = q + 1 /\ r + b <= B)
        BY <1>4, <2>1, <3>1, <3>3
      <4>2. QED
        BY <1>10, <1>12, <2>1, <3>1, <3>3, <4>1
    <3>4. QED
      BY <3>2, <3>3
  <2>4. QED
    BY <2>2, <2>3
<1>16. QED
  BY <1>13, <1>15 DEF Hold

LEMMA BitsAssociate ==
  ASSUME NEW a \in BitStrings, NEW b \in BitStrings, NEW c \in BitStrings
  PROVE  (a \o b) \o c = a \o (b \o c)
BY ConcatAssociative DEF BitStrings

\* write_bits: the bytes hold what they held, and the new bits behind it.
LEMMA WriteHolds ==
  ASSUME NEW D \in SUBSET Nat, NEW d \in [D -> Nat], NEW s \in BitStrings, NEW t \in BitStrings,
         Len(t) <= 2 * ByteBits, Hold(d, s)
  PROVE  Hold(write_bits(d, Len(s), Value(t), Len(t)), s \o t)
<1>1. PICK B \in Nat \ {0} : B = ByteBits
  BY ByteBitsIs
<1>2. CASE ~ (Len(t) > ByteBits)
  <2>1. Len(t) <= ByteBits
    BY <1>1, <1>2 DEF BitStrings
  <2>2. QED
    BY <1>2, <2>1, PutHolds DEF write_bits
<1>3. CASE Len(t) > ByteBits
  <2>1. PICK m \in Nat : Len(t) = B + m /\ m <= B /\ Len(t) - ByteBits = m
    <3>1. Len(t) \in Nat
      BY DEF BitStrings
    <3>2. Len(t) - B \in Nat /\ Len(t) = B + (Len(t) - B) /\ Len(t) - B <= B
      BY <1>1, <1>3, <3>1
    <3>3. QED
      BY <1>1, <3>2
  <2>2. PICK u \in BitStrings : u = Piece(t, 0, B) /\ Len(u) = B
    BY PieceIs
  <2>3. PICK v \in BitStrings : v = Piece(t, B, m) /\ Len(v) = m
    BY PieceIs
  <2>4. t = u \o v
    <3>1. Piece(t, 0, B + m) = t
      <4>1. \A k \in 1 .. B + m : t[k] = BitAt(t, 0 + k - 1)
        BY <2>1 DEF BitAt
      <4>2. 0 \in Nat /\ B + m \in Nat
        OBVIOUS
      <4>3. QED
        BY <2>1, <4>1, <4>2, PieceOf
    <3>2. Piece(t, 0, B + m) = Piece(t, 0, B) \o Piece(t, 0 + B, m)
      <4>1. 0 \in Nat
        OBVIOUS
      <4>2. QED
        BY <4>1, PieceSplits, ZenonT(30)
    <3>3. 0 + B = B
      OBVIOUS
    <3>4. QED
      BY <2>2, <2>3, <3>1, <3>2, <3>3
  <2>5. Value(t) % Byte = Value(u) /\ Value(t) \div Byte = Value(v)
    <3>1. Len(t) <= ByteBits + ByteBits
      BY <1>1, <2>1
    <3>2. Value(t) % Byte = Value(u) /\ Value(t) \div Byte = Value(Piece(t, ByteBits, ByteBits))
      BY <1>1, <2>2, <3>1, Halves
    <3>3. Value(t) = Value(u) + 2 ^ B * Value(v)
      BY <2>2, <2>3, <2>4, ValueConcat, ZenonT(30)
    <3>4. PICK p \in Nat \ {0} : p = 2 ^ B /\ p = Byte
      BY <1>1, PowersOfTwo DEF Byte
    <3>5. Value(u) \in 0 .. p - 1 /\ Value(v) \in Nat
      <4>1. 0 \in {0, 1}
        OBVIOUS
      <4>2. QED
        BY <2>2, <3>4, <4>1, ValueBounds, ValueAppend
    <3>6. \A x \in 0 .. p - 1, y \in Nat : (x + p * y) \div p = y
      OBVIOUS
    <3>7. (Value(u) + p * Value(v)) \div p = Value(v)
      BY <3>5, <3>6
    <3>8. QED
      BY <3>2, <3>3, <3>4, <3>7
  <2>6. PICK e \in [D -> Nat] : e = Put(d, Len(s), Value(u), Len(u)) /\ Hold(e, s \o u)
    <3>1. Put(d, Len(s), Value(u), Len(u)) \in [D -> Nat]
      BY PutType
    <3>2. Len(u) <= ByteBits
      BY <1>1, <2>2
    <3>3. QED
      BY <3>1, <3>2, PutHolds
  <2>7. s \o u \in BitStrings /\ Len(s \o u) = Len(s) + B
    <3>1. Len(s \o u) = Len(s) + Len(u)
      BY ConcatProperties DEF BitStrings
    <3>2. QED
      BY <2>2, <3>1, ValueConcat
  <2>8. Hold(Put(e, Len(s \o u), Value(v), Len(v)), (s \o u) \o v)
    <3>1. Len(v) <= ByteBits
      BY <1>1, <2>1, <2>3
    <3>2. QED
      BY <2>6, <2>7, <3>1, PutHolds
  <2>9. write_bits(d, Len(s), Value(t), Len(t)) = Put(e, Len(s \o u), Value(v), Len(v))
    BY <1>1, <1>3, <2>1, <2>2, <2>3, <2>5, <2>6, <2>7 DEF write_bits
  <2>10. (s \o u) \o v = s \o t
    BY <2>4, BitsAssociate
  <2>11. QED
    BY <2>8, <2>9, <2>10
<1>4. QED
  BY <1>2, <1>3

Strings == {t \in BitStrings : Len(t) <= 2 * ByteBits}

Files(D) == [d : [D -> Nat], at : Nat]

Writes(D) == [p \in Files(D) \X Strings |-> WriteString(p[1], p[2])]

LEMMA WritesKeeps ==
  ASSUME NEW D, NEW f \in Files(D)
  PROVE  Keeps(Writes(D), f, Files(D), Strings)
<1>1. ASSUME NEW g \in Files(D), NEW t \in Strings PROVE WriteString(g, t) \in Files(D)
  <2>1. g.d \in [D -> Nat] /\ g.at \in Nat /\ Len(t) \in Nat
    BY DEF Files, Strings, BitStrings
  <2>2. write_bits(g.d, g.at, Value(t), Len(t)) \in [D -> Nat]
    BY <2>1, PutType
  <2>3. QED
    BY <2>1, <2>2 DEF Files, WriteString
<1>2. Writes(D) \in [Files(D) \X Strings -> Files(D)]
  BY <1>1 DEF Writes
<1>3. QED
  BY <1>2 DEF Keeps

Wrote(base, strings) == FoldLeft(WriteString, base, strings)

Running(F, base, s) ==
  F = [S \in SUBSET (1 .. Len(s)) |-> IF S = {} THEN base ELSE WriteString(F[S \ {Max(S)}], s[Max(S)])]

\* The calls of write_bits one after the other are a fold.
LEMMA WritingFolds ==
  ASSUME NEW D, NEW f \in Files(D), NEW strings \in Seq(Strings)
  PROVE  Wrote(f, strings) = Fold(Writes(D), f, strings)
<1> DEFINE G == CHOOSE F : Running(F, f, strings)
<1>1. PICK n \in Nat : n = Len(strings) /\ DOMAIN strings = 1 .. n /\ \A k \in 1 .. n : strings[k] \in Strings
  OBVIOUS
<1>2. Wrote(f, strings) = G[1 .. n]
  BY <1>1 DEF Wrote, FoldLeft, MapThenFoldSet, Running
<1>3. ASSUME NEW F, NEW S \in SUBSET (1 .. n), S # {}, F[S \ {Max(S)}] \in Files(D)
      PROVE  Writes(D)[<<F[S \ {Max(S)}], strings[Max(S)]>>] = WriteString(F[S \ {Max(S)}], strings[Max(S)])
  <2>1. strings[Max(S)] \in Strings
    BY <1>1, <1>3, GreatestIndex
  <2>2. PICK a, b : a = F[S \ {Max(S)}] /\ b = strings[Max(S)]
    OBVIOUS
  <2>3. <<a, b>> \in Files(D) \X Strings
    BY <1>3, <2>1, <2>2
  <2>4. Writes(D)[<<a, b>>] = WriteString(<<a, b>>[1], <<a, b>>[2])
    BY <2>3, Zenon DEF Writes
  <2>5. QED
    BY <2>2, <2>4
<1>4. Running(G, f, strings)
  <2>1. PICK H \in [SUBSET (1 .. n) -> Files(D)] : Run(H, Writes(D), f, strings)
    BY <1>1, WritesKeeps, RunExists
  <2>2. \A S \in SUBSET (1 .. n) : H[S \ {Max(S)}] \in Files(D)
    OBVIOUS
  <2>3. Running(H, f, strings)
    BY <1>1, <1>3, <2>1, <2>2 DEF Run, RunTo, Running
  <2>4. QED
    BY <2>3
<1> HIDE DEF G
<1>5. Unrolls(G, Writes(D), f, Files(D), strings)
  <2>1. G[{}] = f
    BY <1>1, <1>4 DEF Running
  <2>2. \A S \in SUBSET (1 .. n) : S # {} => G[S] = WriteString(G[S \ {Max(S)}], strings[Max(S)])
    BY <1>1, <1>4 DEF Running
  <2>3. QED
    BY <1>1, <1>3, <2>1, <2>2 DEF Unrolls
<1>6. QED
  BY <1>1, <1>2, <1>5, WritesKeeps, UnrollsIs

\* What is in a file: the bits of s, in bytes at the places D.
FileHolds(f, s, D) ==
  /\ f \in Files(D) /\ s \in BitStrings
  /\ f.at = Len(s) /\ Hold(f.d, s)

\* One call of it.
LEMMA WriteOneHolds ==
  ASSUME NEW D \in SUBSET Nat, NEW f, NEW s, FileHolds(f, s, D), NEW x \in Strings
  PROVE  FileHolds(Writes(D)[<<f, x>>], s \o x, D)
<1>1. f \in Files(D) /\ s \in BitStrings /\ f.at = Len(s) /\ Hold(f.d, s)
  BY DEF FileHolds
<1>2. x \in BitStrings /\ Len(x) <= 2 * ByteBits /\ f.d \in [D -> Nat]
  BY <1>1 DEF Strings, Files
<1>3. PICK g : g = WriteString(f, x)
  OBVIOUS
<1>4. <<f, x>> \in Files(D) \X Strings
  BY <1>1
<1>5. Writes(D)[<<f, x>>] = g
  <2>1. Writes(D)[<<f, x>>] = WriteString(<<f, x>>[1], <<f, x>>[2])
    BY <1>4, Zenon DEF Writes
  <2>2. QED
    BY <1>3, <2>1
<1>6. g \in Files(D)
  <2>1. Keeps(Writes(D), f, Files(D), Strings)
    BY <1>1, WritesKeeps
  <2>2. QED
    BY <1>4, <1>5, <2>1 DEF Keeps
<1>7. g.d = write_bits(f.d, Len(s), Value(x), Len(x)) /\ g.at = Len(s) + Len(x)
  BY <1>1, <1>3 DEF WriteString
<1>8. Hold(g.d, s \o x)
  BY <1>1, <1>2, <1>7, WriteHolds
<1>9. s \o x \in BitStrings /\ Len(s \o x) = Len(s) + Len(x)
  BY <1>1, <1>2, ConcatProperties DEF BitStrings
<1>10. QED
  BY <1>5, <1>6, <1>7, <1>8, <1>9 DEF FileHolds

\* Writing strings of bits, one after the other, writes the bits of them all.
LEMMA WritingHolds ==
  ASSUME NEW D \in SUBSET Nat, NEW f, NEW s, FileHolds(f, s, D), NEW strings \in Seq(Strings)
  PROVE  FileHolds(Wrote(f, strings), s \o FlattenSeq(strings), D)
<1> DEFINE P == {q \in Seq(Strings) : FileHolds(Fold(Writes(D), f, q), s \o FlattenSeq(q), D)}
<1> HIDE DEF P
<1>1. f \in Files(D) /\ s \in BitStrings
  BY DEF FileHolds
<1>2. Keeps(Writes(D), f, Files(D), Strings)
  BY <1>1, WritesKeeps
<1>3. \A q \in Seq(Strings) : q \in Seq(BitStrings)
  BY DEF Strings
<1>4. <<>> \in P
  <2>1. Fold(Writes(D), f, <<>>) = f
    BY <1>2, FoldEmpty
  <2>2. s \o FlattenSeq(<<>>) = s
    BY <1>1, FlattenEmpty DEF BitStrings
  <2>3. <<>> \in Seq(Strings)
    OBVIOUS
  <2>4. QED
    BY <2>1, <2>2, <2>3 DEF P
<1>5. ASSUME NEW q \in P, NEW x \in Strings PROVE Append(q, x) \in P
  <2>1. PICK g, t : g = Fold(Writes(D), f, q) /\ t = s \o FlattenSeq(q)
    OBVIOUS
  <2>2. q \in Seq(Strings) /\ Append(q, x) \in Seq(Strings) /\ FileHolds(g, t, D)
    BY <2>1 DEF P
  <2>3. Fold(Writes(D), f, Append(q, x)) = Writes(D)[<<g, x>>]
    BY <1>2, <2>1, <2>2, FoldAppend
  <2>4. FileHolds(Writes(D)[<<g, x>>], t \o x, D)
    BY <2>2, WriteOneHolds
  <2>5. s \o FlattenSeq(Append(q, x)) = t \o x
    <3>1. q \in Seq(BitStrings) /\ x \in BitStrings
      BY <1>3, <2>2 DEF Strings
    <3>2. FlattenSeq(Append(q, x)) = FlattenSeq(q) \o x /\ FlattenSeq(q) \in BitStrings
      BY <3>1, FlattenAppend, FlattenType DEF BitStrings
    <3>3. (s \o FlattenSeq(q)) \o x = s \o (FlattenSeq(q) \o x)
      BY <1>1, <3>1, <3>2, BitsAssociate
    <3>4. QED
      BY <2>1, <3>2, <3>3
  <2>6. QED
    BY <2>2, <2>3, <2>4, <2>5 DEF P
<1>6. P \in SUBSET Seq(Strings)
  BY DEF P
<1>7. P = Seq(Strings)
  BY <1>4, <1>5, <1>6, SequenceInduction
<1>8. Wrote(f, strings) = Fold(Writes(D), f, strings)
  BY <1>1, WritingFolds
<1>9. QED
  BY <1>7, <1>8 DEF P

-----------------------------------------------------------------------------
(* Strings that are sent.                                                  *)

LEMMA OneString == \A x \in BitStrings : FlattenSeq(<<x>>) = x
<1> SUFFICES ASSUME NEW x \in BitStrings PROVE FlattenSeq(<<x>>) = x
  OBVIOUS
<1>1. <<>> \in Seq(Seq({0, 1})) /\ Append(<<>>, x) = <<x>>
  BY DEF BitStrings
<1>2. FlattenSeq(Append(<<>>, x)) = FlattenSeq(<<>>) \o x
  BY <1>1, FlattenAppend DEF BitStrings
<1>3. <<>> \o x = x
  BY DEF BitStrings
<1>4. QED
  BY <1>1, <1>2, <1>3, FlattenEmpty

\* How long the whole is, and that it is made of strings.
Makes(strings, n) ==
  strings \in Seq(Strings) /\ FlattenSeq(strings) \in BitStrings /\ Len(FlattenSeq(strings)) = n

LEMMA MakesConcat ==
  ASSUME NEW s, NEW t, NEW m, NEW n, Makes(s, m), Makes(t, n)
  PROVE  Makes(s \o t, m + n)
<1>1. s \in Seq(Seq({0, 1})) /\ t \in Seq(Seq({0, 1}))
  BY DEF Makes, Strings, BitStrings
<1>2. FlattenSeq(s \o t) = FlattenSeq(s) \o FlattenSeq(t)
  BY <1>1, FlattenConcat
<1>3. PICK a \in BitStrings, b \in BitStrings : a = FlattenSeq(s) /\ b = FlattenSeq(t) /\ Len(a) = m /\ Len(b) = n
  BY DEF Makes
<1>4. a \o b \in BitStrings /\ Len(a \o b) = m + n
  BY <1>3, ConcatProperties DEF BitStrings
<1>5. s \o t \in Seq(Strings)
  BY ConcatProperties DEF Makes
<1>6. QED
  BY <1>2, <1>3, <1>4, <1>5 DEF Makes

LEMMA MakesNone == Makes(<<>>, 0)
<1>1. <<>> \in Seq(Strings) /\ <<>> \in BitStrings /\ Len(<<>>) = 0
  BY DEF BitStrings
<1>2. QED
  BY <1>1, FlattenEmpty DEF Makes

LEMMA MakesOne ==
  ASSUME NEW x \in BitStrings, Len(x) <= 2 * ByteBits
  PROVE  Makes(<<x>>, Len(x))
<1>1. <<x>> \in Seq(Strings)
  BY DEF Strings
<1>2. QED
  BY <1>1, OneString DEF Makes

LEMMA MakesTwo ==
  ASSUME NEW x \in BitStrings, Len(x) <= 2 * ByteBits, NEW y \in BitStrings, Len(y) <= 2 * ByteBits
  PROVE  Makes(<<x, y>>, Len(x) + Len(y))
<1>1. Makes(<<x>>, Len(x)) /\ Makes(<<y>>, Len(y))
  BY MakesOne
<1>2. <<x, y>> = <<x>> \o <<y>>
  OBVIOUS
<1>3. Makes(<<x>> \o <<y>>, Len(x) + Len(y))
  BY <1>1, MakesConcat
<1>4. QED
  BY <1>2, <1>3

LEMMA OnesAre ==
  ASSUME NEW n \in Nat
  PROVE  Ones(n) \in BitStrings /\ Len(Ones(n)) = n
BY DEF Ones, BitStrings

LEMMA LowBitsAre ==
  ASSUME NEW n \in Nat, NEW bits \in Nat
  PROVE  LowBits(n, bits) \in BitStrings /\ Len(LowBits(n, bits)) = bits
<1>1. \A k \in 1 .. bits : (n \div 2 ^ (k - 1)) % 2 \in {0, 1}
  <2> SUFFICES ASSUME NEW k \in 1 .. bits PROVE (n \div 2 ^ (k - 1)) % 2 \in {0, 1}
    OBVIOUS
  <2>1. k - 1 \in Nat
    OBVIOUS
  <2>2. 2 ^ (k - 1) \in Nat \ {0}
    BY <2>1, PowersOfTwo
  <2>3. \A p \in Nat \ {0} : (n \div p) % 2 \in {0, 1}
    OBVIOUS
  <2>4. QED
    BY <2>2, <2>3
<1>2. LowBits(n, bits) \in [1 .. bits -> {0, 1}]
  BY <1>1 DEF LowBits
<1>3. QED
  BY <1>2 DEF BitStrings

Copies(n, x) == [k \in 1 .. n |-> x]

LEMMA MakesCopies ==
  ASSUME NEW x \in BitStrings, Len(x) <= 2 * ByteBits, NEW n \in Nat
  PROVE  Makes(Copies(n, x), n * Len(x))
<1>1. PICK l \in Nat : l = Len(x)
  BY DEF BitStrings
<1> DEFINE N == {m \in Nat : Makes(Copies(m, x), m * l)}
<1>2. 0 \in N
  <2>1. Copies(0, x) = <<>> /\ 0 * l = 0
    BY DEF Copies
  <2>2. QED
    BY <2>1, MakesNone
<1>3. ASSUME NEW m \in N PROVE m + 1 \in N
  <2>1. m \in Nat /\ Makes(Copies(m, x), m * l) /\ m + 1 \in Nat
    OBVIOUS
  <2>2. Copies(m + 1, x) = Copies(m, x) \o <<x>>
    <3>1. /\ Copies(m, x) \in Seq(BitStrings) /\ Len(Copies(m, x)) = m
          /\ \A k \in 1 .. m : Copies(m, x)[k] = x
      BY <2>1 DEF Copies
    <3>2. Copies(m + 1, x) \in Seq(BitStrings) /\ Copies(m + 1, x) = [k \in 1 .. m + 1 |-> x]
      BY <2>1 DEF Copies
    <3>3. PICK t \in Seq(BitStrings) : t = <<x>> /\ Len(t) = 1 /\ t[1] = x
      <4>1. <<x>> \in Seq(BitStrings) /\ Len(<<x>>) = 1 /\ <<x>>[1] = x
        OBVIOUS
      <4>2. QED
        BY <4>1, Zenon
    <3>4. Copies(m, x) \o t \in Seq(BitStrings) /\ Len(Copies(m, x) \o t) = m + 1
      BY <3>1, <3>3, ConcatProperties
    <3>5. \A k \in 1 .. m + 1 : (Copies(m, x) \o t)[k] = x
      BY <2>1, <3>1, <3>3
    <3>6. QED
      BY <2>1, <3>2, <3>3, <3>4, <3>5
  <2>3. Makes(Copies(m, x) \o <<x>>, m * l + l)
    BY <1>1, <2>1, MakesOne, MakesConcat
  <2>4. m * l + l = (m + 1) * l
    BY <2>1
  <2>5. QED
    BY <2>1, <2>2, <2>3, <2>4
<1> HIDE DEF N
<1>4. N = Nat
  <2>1. N \in SUBSET Nat
    BY DEF N
  <2>2. QED
    BY <1>2, <1>3, <2>1, SetInduction
<1>5. QED
  BY <1>1, <1>4 DEF N

\* The bits of the tables, two bytes at a time.
LEMMA MakesTables ==
  ASSUME NEW tables \in Nat
  PROVE  Makes([k \in 1 .. tables \div (2 * ByteBits) |-> Ones(2 * ByteBits)]
                 \o <<Ones(tables % (2 * ByteBits))>>, tables)
<1>1. PICK b \in Nat \ {0} : b = 2 * ByteBits
  BY ByteBitsIs
<1>2. PICK q, r : q = tables \div b /\ r = tables % b
  OBVIOUS
<1>3. q \in Nat /\ r \in Nat /\ r <= b /\ tables = q * b + r
  <2>1. \A x \in Nat : /\ x \div b \in Nat /\ x % b \in Nat /\ x % b <= b
                       /\ x = (x \div b) * b + (x % b)
    OBVIOUS
  <2>2. QED
    BY <1>2, <2>1
<1>4. Makes(Copies(q, Ones(b)), q * b)
  <2>1. Ones(b) \in BitStrings /\ Len(Ones(b)) = b /\ b <= 2 * ByteBits
    BY <1>1, OnesAre
  <2>2. Makes(Copies(q, Ones(b)), q * Len(Ones(b)))
    BY <1>3, <2>1, MakesCopies
  <2>3. QED
    BY <2>1, <2>2
<1>5. Makes(<<Ones(r)>>, r)
  BY <1>1, <1>3, OnesAre, MakesOne
<1>6. Makes(Copies(q, Ones(b)) \o <<Ones(r)>>, q * b + r)
  BY <1>4, <1>5, MakesConcat
<1>7. QED
  BY <1>1, <1>2, <1>3, <1>6 DEF Copies

LEMMA MakesPadding ==
  ASSUME NEW at \in Nat
  PROVE  \E n \in 0 .. ByteBits - 1 : Makes(Padding(at), n)
<1>1. PICK b \in Nat \ {0} : b = ByteBits
  BY ByteBitsIs
<1>2. CASE at % b = 0
  BY <1>1, <1>2, MakesNone DEF Padding
<1>3. CASE at % b # 0
  <2>1. PICK n \in 1 .. b - 1 : n = b - (at % b)
    BY <1>1, <1>3
  <2>2. Makes(<<Zeros(n)>>, n)
    BY <1>1, <2>1, ValueZeros, MakesOne
  <2>3. QED
    BY <1>1, <1>3, <2>1, <2>2 DEF Padding
<1>4. QED
  BY <1>2, <1>3

LEMMA FinalIs == \A final : Final(final) \in BitStrings /\ Len(Final(final)) = 1
BY DEF Final, BitStrings

-----------------------------------------------------------------------------
(* The stream.                                                             *)

InOrder(d, p, s) ==
  /\ DOMAIN d \in SUBSET Nat /\ d \in [DOMAIN d -> Nat]
  /\ s \in BitStrings /\ p = Len(s) /\ Hold(d, s)

\* Whatever strings are written, the bytes stay in order.
LEMMA WritingKeeps ==
  ASSUME InOrder(dest, pos, sent), NEW strings, NEW n \in Nat, Makes(strings, n), Writing(strings)
  PROVE  InOrder(dest, pos, sent)' /\ pos' = pos + n
<1>1. PICK D, f : D = DOMAIN dest /\ f = [d |-> dest, at |-> pos]
  OBVIOUS
<1>2. D \in SUBSET Nat /\ FileHolds(f, sent, D) /\ sent \in BitStrings /\ pos = Len(sent)
  <2>1. pos \in Nat
    BY DEF InOrder, BitStrings
  <2>2. QED
    BY <1>1, <2>1 DEF InOrder, FileHolds, Files
<1>3. strings \in Seq(Strings) /\ FlattenSeq(strings) \in BitStrings /\ Len(FlattenSeq(strings)) = n
  BY DEF Makes
<1>4. PICK g, t : g = Wrote(f, strings) /\ t = sent \o FlattenSeq(strings)
  OBVIOUS
<1>5. FileHolds(g, t, D)
  BY <1>2, <1>3, <1>4, WritingHolds
<1>6. dest' = g.d /\ pos' = g.at /\ sent' = t
  BY <1>1, <1>4 DEF Writing, Wrote
<1>7. Len(t) = Len(sent) + n
  BY <1>2, <1>3, <1>4, ConcatProperties DEF BitStrings
<1>8. InOrder(dest', pos', sent')
  <2>1. g.d \in [D -> Nat] /\ DOMAIN g.d = D
    BY <1>5 DEF FileHolds, Files
  <2>2. QED
    BY <1>2, <1>5, <1>6, <2>1 DEF InOrder, FileHolds
<1>9. pos' = pos + n
  BY <1>2, <1>5, <1>6, <1>7 DEF FileHolds
<1>10. QED
  BY <1>8, <1>9

CodeOk(code) == \A s \in DOMAIN code : code[s] \in BitStrings /\ Len(code[s]) \in 1 .. 2 * ByteBits

\* A block, or none.
BlockOk(b) ==
  \/ b = NoBlock
  \/ /\ b = [type |-> b.type, is_final |-> b.is_final, code |-> b.code, tables |-> b.tables,
             words |-> b.words, next |-> b.next]
     /\ b.next \in Nat \ {0} /\ Len(b.words) \in Nat /\ DOMAIN b.words = 1 .. Len(b.words)
     /\ b.next <= Len(b.words) + 1
     /\ CodeOk(b.code.items) /\ CodeOk(b.code.distances)
     /\ \A k \in DOMAIN b.words : Sendable(b.words[k], b.code)

\* The bits of the words that are not written yet.
Lengths(words, code) == [k \in DOMAIN words |-> WordLength(words[k], code)]
RestFrom(words, code, next) == Total(SubSeq(Lengths(words, code), next, Len(words)))
Rest(b) == IF b = NoBlock THEN 0 ELSE RestFrom(b.words, b.code, b.next)

\* A word is between one bit and two bytes, without its extra bits.
LEMMA WordIs ==
  ASSUME NEW word, NEW code, CodeOk(code.items), CodeOk(code.distances), Sendable(word, code)
  PROVE  /\ BitsOfWord(word, code) \in BitStrings
         /\ Len(BitsOfWord(word, code)) \in 1 .. 2 * ByteBits
         /\ encode_codeword(word).num_extra_bits \in 0 .. 2 * ByteBits
         /\ encode_codeword(word).extra_bits \in Nat
         /\ WordLength(word, code) \in Nat
<1>1. PICK symbol : symbol = encode_codeword(word)
  OBVIOUS
<1>2. /\ symbol.code \in DOMAIN (IF word.type = "CW_DISTANCE" THEN code.distances ELSE code.items)
      /\ symbol.num_extra_bits \in 0 .. 2 * ByteBits /\ symbol.extra_bits \in Nat
  BY <1>1, Zenon DEF Sendable
<1>3. PICK f : f = IF word.type = "CW_DISTANCE" THEN code.distances ELSE code.items
  OBVIOUS
<1>4. CodeOk(f) /\ symbol.code \in DOMAIN f /\ BitsOfWord(word, code) = f[symbol.code]
  BY <1>1, <1>2, <1>3 DEF BitsOfWord
<1>5. f[symbol.code] \in BitStrings /\ Len(f[symbol.code]) \in 1 .. 2 * ByteBits
  BY <1>4 DEF CodeOk
<1>6. WordLength(word, code) = Len(f[symbol.code]) + symbol.num_extra_bits
  BY <1>1, <1>4 DEF WordLength
<1>7. WordLength(word, code) \in Nat
  BY <1>2, <1>5, <1>6, ByteBitsIs
<1>8. QED
  BY <1>1, <1>2, <1>4, <1>5, <1>7

LEMMA SameSequence ==
  ASSUME NEW T, NEW s \in Seq(T), NEW t \in Seq(T), NEW n \in Nat, Len(s) = n, Len(t) = n,
         \A k \in 1 .. n : s[k] = t[k]
  PROVE  s = t
OBVIOUS

LEMMA TotalOfRest ==
  ASSUME NEW s \in Seq(Nat), NEW k \in 1 .. Len(s)
  PROVE  Total(SubSeq(s, k, Len(s))) = s[k] + Total(SubSeq(s, k + 1, Len(s)))
<1>1. PICK n \in Nat : n = Len(s) /\ DOMAIN s = 1 .. n /\ k \in 1 .. n
  OBVIOUS
<1>2. PICK x, b : x = s[k] /\ b = SubSeq(s, k + 1, n)
  OBVIOUS
<1>9. x \in Nat
  BY <1>1, <1>2
<1>3. b \in Seq(Nat) /\ b \in Seq(Int) /\ <<x>> \in Seq(Int) /\ Len(b) = n - k
      /\ \A j \in 1 .. n - k : b[j] = s[k + j]
  <2>1. Len(b) = n - k /\ b \in Seq(Nat)
    BY <1>1, <1>2
  <2>2. \A j \in 1 .. n - k : b[j] = s[(k + 1) + j - 1]
    BY <1>1, <1>2
  <2>3. \A j \in 1 .. n - k : (k + 1) + j - 1 = k + j
    BY <1>1
  <2>4. QED
    BY <1>9, <2>1, <2>2, <2>3
<1>4. SubSeq(s, k, n) = <<x>> \o b
  <2>1. PICK c \in Seq(Nat) : c = SubSeq(s, k, n) /\ Len(c) = n - k + 1
                              /\ \A j \in 1 .. n - k + 1 : c[j] = s[k + j - 1]
    <3>1. SubSeq(s, k, n) \in Seq(Nat) /\ Len(SubSeq(s, k, n)) = n - k + 1
      BY <1>1
    <3>2. \A j \in 1 .. n - k + 1 : SubSeq(s, k, n)[j] = s[k + j - 1]
      BY <1>1
    <3>3. QED
      BY <3>1, <3>2, Zenon
  <2>2. b \in Seq(Nat) /\ Len(b) = n - k /\ \A j \in 1 .. n - k : b[j] = s[k + j]
    BY <1>3
  <2>3. PICK a \in Seq(Nat) : a = <<x>> /\ Len(a) = 1 /\ a[1] = x
    <3>1. <<x>> \in Seq(Nat) /\ Len(<<x>>) = 1 /\ <<x>>[1] = x
      BY <1>9
    <3>2. QED
      BY <3>1, Zenon
  <2>4. a \o b \in Seq(Nat) /\ Len(a \o b) = n - k + 1
    <3>1. a \o b \in Seq(Nat) /\ Len(a \o b) = Len(a) + Len(b)
      BY <2>2, <2>3, ConcatProperties
    <3>2. 1 + (n - k) = n - k + 1
      BY <1>1
    <3>3. QED
      BY <2>2, <2>3, <3>1, <3>2
  <2>5. \A j \in 1 .. n - k + 1 : (a \o b)[j] = c[j]
    <3>1. \A j \in 1 .. Len(a) + Len(b) : (a \o b)[j] = IF j <= Len(a) THEN a[j] ELSE b[j - Len(a)]
      BY <2>2, <2>3, ConcatProperties
    <3> SUFFICES ASSUME NEW j \in 1 .. n - k + 1 PROVE (a \o b)[j] = c[j]
      OBVIOUS
    <3>2. (a \o b)[j] = IF j <= 1 THEN a[j] ELSE b[j - 1]
      <4>1. Len(a) = 1 /\ Len(b) = n - k /\ 1 + (n - k) = n - k + 1
        BY <1>1, <2>2, <2>3
      <4>2. j \in 1 .. Len(a) + Len(b)
        BY <1>1, <4>1
      <4>3. QED
        BY <3>1, <4>1, <4>2
    <3>3. CASE j = 1
      <4>1. c[1] = s[k]
        BY <1>1, <2>1, <3>3
      <4>2. QED
        BY <1>2, <2>3, <3>2, <3>3, <4>1
    <3>4. CASE j > 1
      <4>1. j - 1 \in 1 .. n - k /\ k + (j - 1) = k + j - 1 /\ ~ (j <= 1)
        BY <1>1, <3>4
      <4>2. c[j] = s[k + j - 1] /\ b[j - 1] = s[k + (j - 1)]
        BY <2>1, <2>2, <4>1
      <4>3. (a \o b)[j] = b[j - 1]
        BY <3>2, <4>1, Zenon
      <4>4. b[j - 1] = c[j]
        BY <4>1, <4>2
      <4>5. QED
        BY <4>3, <4>4, Zenon
    <3>5. j = 1 \/ j > 1
      BY <1>1
    <3>6. QED
      BY <3>3, <3>4, <3>5, Zenon
  <2>6. a \o b = c
    <3>1. n - k + 1 \in Nat
      BY <1>1
    <3>2. QED
      BY <2>1, <2>4, <2>5, <3>1, SameSequence
  <2>7. QED
    BY <2>1, <2>3, <2>6
<1>5. Total(<<x>> \o b) = Total(<<x>>) + Total(b)
  BY <1>3, TotalConcat
<1>6. Total(<<x>>) = x
  BY <1>9, TotalOne
<1>7. QED
  BY <1>1, <1>2, <1>4, <1>5, <1>6

LEMMA LengthsAre ==
  ASSUME NEW words, Len(words) \in Nat, DOMAIN words = 1 .. Len(words),
         NEW code, CodeOk(code.items), CodeOk(code.distances),
         \A k \in DOMAIN words : Sendable(words[k], code)
  PROVE  Lengths(words, code) \in Seq(Nat) /\ Len(Lengths(words, code)) = Len(words)
<1>1. \A k \in DOMAIN words : WordLength(words[k], code) \in Nat
  BY WordIs
<1>2. Lengths(words, code) \in [1 .. Len(words) -> Nat]
  BY <1>1 DEF Lengths
<1>3. QED
  BY <1>2

\* What is left of a block can be counted.
LEMMA RestIs ==
  ASSUME NEW b, BlockOk(b)
  PROVE  Rest(b) \in Nat
<1>1. CASE b = NoBlock
  BY <1>1 DEF Rest
<1>2. CASE b # NoBlock
  <2>1. Lengths(b.words, b.code) \in Seq(Nat) /\ b.next \in Nat \ {0} /\ Len(b.words) \in Nat
        /\ Len(Lengths(b.words, b.code)) = Len(b.words)
    BY <1>2, LengthsAre DEF BlockOk
  <2>2. SubSeq(Lengths(b.words, b.code), b.next, Len(b.words)) \in Seq(Nat)
    BY <2>1
  <2>3. QED
    BY <1>2, <2>2, TotalNatural DEF Rest, RestFrom
<1>3. QED
  BY <1>1, <1>2

-----------------------------------------------------------------------------
(* The actions of the stream.                                              *)

\* The header of a block, and its tables.
LEMMA StartsCoded ==
  ASSUME InOrder(dest, pos, sent), NEW final, NEW code, NEW tables \in Nat, NEW words,
         StartCoded(final, code, tables, words)
  PROVE  InOrder(dest, pos, sent)' /\ pos' = pos + 3 + tables
<1>1. Makes(<<Final(final), LowBits(IF tables = 0 THEN 1 ELSE 2, 2)>>, 3)
  <2>1. PICK x, y : x = Final(final) /\ y = LowBits(IF tables = 0 THEN 1 ELSE 2, 2)
    OBVIOUS
  <2>2. x \in BitStrings /\ Len(x) = 1
    BY <2>1, FinalIs
  <2>3. y \in BitStrings /\ Len(y) = 2
    BY <2>1, LowBitsAre
  <2>4. 1 <= 2 * ByteBits /\ 2 <= 2 * ByteBits
    BY ByteBitsIs
  <2>5. Makes(<<x, y>>, 1 + 2)
    BY <2>2, <2>3, <2>4, MakesTwo
  <2>6. QED
    BY <2>1, <2>5
<1>2. PICK a, b : /\ a = <<Final(final), LowBits(IF tables = 0 THEN 1 ELSE 2, 2)>>
                  /\ b = [k \in 1 .. tables \div (2 * ByteBits) |-> Ones(2 * ByteBits)]
                           \o <<Ones(tables % (2 * ByteBits))>>
  OBVIOUS
<1>3. Makes(b, tables) /\ Makes(a, 3)
  BY <1>1, <1>2, MakesTables
<1>4. PICK c : c = a \o b /\ Makes(c, 3 + tables)
  BY <1>3, MakesConcat
<1>5. Writing(c)
  <2>1. a \o b = (a \o [k \in 1 .. tables \div (2 * ByteBits) |-> Ones(2 * ByteBits)])
                   \o <<Ones(tables % (2 * ByteBits))>>
    <3>1. PICK d, e : /\ d = [k \in 1 .. tables \div (2 * ByteBits) |-> Ones(2 * ByteBits)]
                      /\ e = <<Ones(tables % (2 * ByteBits))>> /\ b = d \o e
      BY <1>2
    <3>2. a \in Seq(Strings) /\ e \in Seq(BitStrings) /\ d \in Seq(BitStrings)
      <4>1. 2 * ByteBits \in Nat \ {0}
        BY ByteBitsIs
      <4>2. tables \div (2 * ByteBits) \in Nat /\ tables % (2 * ByteBits) \in Nat
        <5>1. \A y \in Nat \ {0} : tables \div y \in Nat /\ tables % y \in Nat
          OBVIOUS
        <5>2. QED
          BY <4>1, <5>1
      <4>3. Ones(2 * ByteBits) \in BitStrings /\ Ones(tables % (2 * ByteBits)) \in BitStrings
        BY <4>1, <4>2, OnesAre
      <4>4. d \in Seq(BitStrings)
        BY <3>1, <4>2, <4>3
      <4>5. e \in Seq(BitStrings)
        BY <3>1, <4>3
      <4>6. QED
        BY <1>3, <4>4, <4>5 DEF Makes
    <3>3. a \in Seq(BitStrings)
      BY <3>2 DEF Strings
    <3>4. (a \o d) \o e = a \o (d \o e)
      BY <3>2, <3>3, ConcatAssociative
    <3>5. QED
      BY <3>1, <3>4
  <2>2. QED
    BY <1>2, <1>4, <2>1 DEF StartCoded
<1>6. 3 + tables \in Nat
  OBVIOUS
<1>7. InOrder(dest, pos, sent)' /\ pos' = pos + (3 + tables)
  BY <1>4, <1>5, <1>6, WritingKeeps
<1>8. pos \in Nat
  BY DEF InOrder, BitStrings
<1>9. QED
  BY <1>7, <1>8

\* The header of a stored block, up to the next byte.
LEMMA StartsRaw ==
  ASSUME InOrder(dest, pos, sent), NEW final, NEW words, StartRaw(final, words)
  PROVE  InOrder(dest, pos, sent)' /\ pos' \in pos + 3 .. pos + 3 + (ByteBits - 1)
<1>1. PICK x, y : x = Final(final) /\ y = LowBits(0, 2)
  OBVIOUS
<1>2. x \in BitStrings /\ Len(x) = 1 /\ y \in BitStrings /\ Len(y) = 2
  BY <1>1, FinalIs, LowBitsAre
<1>3. Makes(<<x, y>>, 3)
  <2>1. 1 <= 2 * ByteBits /\ 2 <= 2 * ByteBits /\ 1 + 2 = 3
    BY ByteBitsIs
  <2>2. Makes(<<x, y>>, Len(x) + Len(y))
    BY <1>2, <2>1, MakesTwo
  <2>3. QED
    BY <1>2, <2>1, <2>2
<1>4. pos \in Nat
  BY DEF InOrder, BitStrings
<1>5. PICK n \in 0 .. ByteBits - 1 : Makes(Padding(pos + 3), n)
  <2>1. PICK at \in Nat : at = pos + 3
    BY <1>4
  <2>2. \E n \in 0 .. ByteBits - 1 : Makes(Padding(at), n)
    BY MakesPadding
  <2>3. QED
    BY <2>1, <2>2
<1>6. PICK c : c = <<x, y>> \o Padding(pos + 3) /\ Makes(c, 3 + n)
  BY <1>3, <1>5, MakesConcat
<1>7. Writing(c)
  BY <1>1, <1>6 DEF StartRaw
<1>8. 3 + n \in Nat /\ n <= ByteBits - 1 /\ n \in Nat
  BY <1>5, ByteBitsIs
<1>9. InOrder(dest, pos, sent)' /\ pos' = pos + (3 + n)
  BY <1>6, <1>7, <1>8, WritingKeeps
<1>10. QED
  BY <1>4, <1>8, <1>9, ByteBitsIs


\* There is a word only in a block.
LEMMA BlockWord ==
  ASSUME BlockOk(block), HasWord
  PROVE  /\ block # NoBlock /\ block.next \in 1 .. Len(block.words)
         /\ CodeOk(block.code.items) /\ CodeOk(block.code.distances) /\ Sendable(Word, block.code)
<1>1. block # NoBlock
  <2>1. NoBlock.next = 1 /\ NoBlock.words = <<>> /\ Len(<<>>) = 0
    BY DEF NoBlock
  <2>2. QED
    BY <2>1 DEF HasWord
<1>2. QED
  BY <1>1 DEF BlockOk, HasWord, Word

\* A word is written and what is left gets less by as much.
LEMMA WritesWord ==
  ASSUME InOrder(dest, pos, sent), BlockOk(block), WriteWord
  PROVE  /\ InOrder(dest, pos, sent)' /\ BlockOk(block)'
         /\ pos' + Rest(block)' = pos + Rest(block)
<1>1. /\ block # NoBlock /\ block.next \in 1 .. Len(block.words)
      /\ CodeOk(block.code.items) /\ CodeOk(block.code.distances) /\ Sendable(Word, block.code)
  BY BlockWord DEF WriteWord
<1>2. PICK symbol, x, n : symbol = encode_codeword(Word) /\ x = Bits /\ n = symbol.num_extra_bits
  OBVIOUS
<1>3. /\ x \in BitStrings /\ Len(x) \in 1 .. 2 * ByteBits /\ n \in 0 .. 2 * ByteBits
      /\ symbol.extra_bits \in Nat
  BY <1>1, <1>2, WordIs DEF Bits
<1>4. WordLength(Word, block.code) = Len(x) + n
  BY <1>2 DEF WordLength, Bits
<1>5. PICK extra : extra = IF n = 0 THEN <<>> ELSE <<LowBits(symbol.extra_bits, n)>>
  OBVIOUS
<1>6. 2 * ByteBits \in Nat /\ n \in Nat /\ Len(x) \in Nat /\ Len(x) <= 2 * ByteBits /\ n <= 2 * ByteBits
  BY <1>3, ByteBitsIs
<1>7. Makes(extra, n)
  <2>1. CASE n = 0
    BY <1>5, <2>1, MakesNone
  <2>2. CASE n # 0
    <3>1. LowBits(symbol.extra_bits, n) \in BitStrings /\ Len(LowBits(symbol.extra_bits, n)) = n
      BY <1>3, <1>6, LowBitsAre
    <3>2. QED
      BY <1>5, <1>6, <2>2, <3>1, MakesOne
  <2>3. QED
    BY <2>1, <2>2
<1>8. PICK c : c = <<x>> \o extra /\ Makes(c, Len(x) + n)
  <2>1. Makes(<<x>>, Len(x))
    BY <1>3, <1>6, MakesOne
  <2>2. QED
    BY <1>7, <2>1, MakesConcat
<1>9. Writing(c) /\ block' = [block EXCEPT !.next = @ + 1]
  <2>1. Encoded = symbol
    BY <1>2 DEF Encoded
  <2>2. QED
    BY <1>2, <1>5, <1>8, <2>1 DEF WriteWord
<1>10. Len(x) + n \in Nat
  BY <1>6
<1>11. InOrder(dest, pos, sent)' /\ pos' = pos + (Len(x) + n)
  BY <1>8, <1>9, <1>10, WritingKeeps
<1>12. /\ block' # NoBlock /\ block'.words = block.words /\ block'.code = block.code
       /\ block'.next = block.next + 1 /\ BlockOk(block)'
  <2>1. /\ block = [type |-> block.type, is_final |-> block.is_final, code |-> block.code,
                    tables |-> block.tables, words |-> block.words, next |-> block.next]
        /\ block.next \in Nat \ {0} /\ Len(block.words) \in Nat
        /\ DOMAIN block.words = 1 .. Len(block.words)
        /\ \A k \in DOMAIN block.words : Sendable(block.words[k], block.code)
    BY <1>1 DEF BlockOk
  <2>2. block' = [type |-> block.type, is_final |-> block.is_final, code |-> block.code,
                  tables |-> block.tables, words |-> block.words, next |-> block.next + 1]
    BY <1>9, <2>1
  <2>3. /\ block'.words = block.words /\ block'.code = block.code /\ block'.next = block.next + 1
        /\ block'.type = block.type /\ block'.is_final = block.is_final /\ block'.tables = block.tables
    BY <2>2
  <2>4. block' # NoBlock
    <3>1. NoBlock.next = 1 /\ block'.next # 1
      BY <2>1, <2>3 DEF NoBlock
    <3>2. QED
      BY <3>1
  <2>5. block.next + 1 \in Nat \ {0} /\ block.next + 1 <= Len(block.words) + 1
    BY <1>1, <2>1
  <2>6. BlockOk(block')
    BY <1>1, <2>1, <2>2, <2>3, <2>5 DEF BlockOk
  <2>7. QED
    BY <2>3, <2>4, <2>6
<1>13. Rest(block) = WordLength(Word, block.code) + RestFrom(block.words, block.code, block.next + 1)
  <2>1. PICK l \in Seq(Nat) : l = Lengths(block.words, block.code) /\ Len(l) = Len(block.words)
    BY <1>1, LengthsAre DEF BlockOk
  <2>2. block.next \in 1 .. Len(l) /\ l[block.next] = WordLength(Word, block.code)
    <3>1. DOMAIN block.words = 1 .. Len(block.words)
      BY <1>1 DEF BlockOk
    <3>2. QED
      BY <1>1, <2>1, <3>1 DEF Lengths, Word
  <2>3. Total(SubSeq(l, block.next, Len(l))) = l[block.next] + Total(SubSeq(l, block.next + 1, Len(l)))
    BY <2>2, TotalOfRest
  <2>4. QED
    BY <1>1, <2>1, <2>2, <2>3 DEF Rest, RestFrom
<1>14. Rest(block') = RestFrom(block.words, block.code, block.next + 1)
  BY <1>12 DEF Rest
<1>15. Rest(block') \in Nat /\ pos \in Nat
  <2>1. Rest(block') \in Nat
    BY <1>12, RestIs
  <2>2. QED
    BY <2>1 DEF InOrder, BitStrings
<1>16. pos' + Rest(block') = pos + Rest(block)
  <2>1. PICK r \in Nat, m \in Nat : r = Rest(block') /\ m = Len(x) + n
    BY <1>10, <1>15
  <2>2. Rest(block) = m + r /\ pos' = pos + m
    BY <1>4, <1>11, <1>13, <1>14, <2>1
  <2>3. QED
    BY <1>15, <2>1, <2>2
<1>17. QED
  BY <1>11, <1>12, <1>16

-----------------------------------------------------------------------------
(* The blocks that are started.                                            *)

LEMMA SumIsTotal == \A s : Sum(s) = Total(s)
BY DEF Sum, Total

LEMMA TotalOfCopies ==
  ASSUME NEW x \in Nat, NEW n \in Nat
  PROVE  Total(Copies(n, x)) = n * x
<1> DEFINE N == {m \in Nat : Total(Copies(m, x)) = m * x}
<1>1. 0 \in N
  <2>1. Copies(0, x) = <<>> /\ 0 * x = 0
    BY DEF Copies
  <2>2. QED
    BY <2>1, TotalEmpty
<1>2. ASSUME NEW m \in N PROVE m + 1 \in N
  <2>1. m \in Nat /\ Total(Copies(m, x)) = m * x /\ m + 1 \in Nat
    OBVIOUS
  <2>2. Copies(m + 1, x) = Append(Copies(m, x), x)
    BY <2>1 DEF Copies
  <2>3. Copies(m, x) \in Seq(Int)
    BY <2>1 DEF Copies
  <2>4. Total(Append(Copies(m, x), x)) = Total(Copies(m, x)) + x
    BY <2>3, TotalAppend
  <2>5. m * x + x = (m + 1) * x
    BY <2>1
  <2>6. QED
    BY <2>1, <2>2, <2>4, <2>5
<1> HIDE DEF N
<1>3. N = Nat
  <2>1. N \in SUBSET Nat
    BY DEF N
  <2>2. QED
    BY <1>1, <1>2, <2>1, SetInduction
<1>4. QED
  BY <1>3 DEF N

\* Where every word may be sent there is a block to start.
LEMMA NewBlock ==
  ASSUME NEW type, NEW final, NEW code, NEW tables, NEW words, NEW b,
         b = Block(type, final, code, tables, words),
         Len(words) \in Nat, DOMAIN words = 1 .. Len(words),
         CodeOk(code.items), CodeOk(code.distances),
         \A k \in DOMAIN words : Sendable(words[k], code)
  PROVE  BlockOk(b) /\ Rest(b) <= Total(Lengths(words, code)) /\ Rest(b) \in Nat
<1>1. /\ b = [type |-> type, is_final |-> final, code |-> code, tables |-> tables,
              words |-> words, next |-> 1]
  BY DEF Block
<1>2. /\ b.type = type /\ b.is_final = final /\ b.code = code /\ b.tables = tables
      /\ b.words = words /\ b.next = 1
  BY <1>1
<1>3. BlockOk(b)
  BY <1>1, <1>2 DEF BlockOk
<1>4. PICK l \in Seq(Nat) : l = Lengths(words, code) /\ Len(l) = Len(words)
  BY LengthsAre
<1>5. SubSeq(l, 1, Len(l)) = l
  OBVIOUS
<1>6. Total(l) \in Nat
  BY TotalNatural
<1>7. Rest(b) = 0 \/ Rest(b) = Total(l)
  BY <1>2, <1>4, <1>5 DEF Rest, RestFrom
<1>8. QED
  BY <1>3, <1>4, <1>6, <1>7

LEMMA EndSendable ==
  ASSUME NEW code, 256 \in DOMAIN code.items
  PROVE  Sendable(EndWord, code)
<1>1. EndWord.type = "CW_END"
  BY DEF EndWord
<1>2. encode_codeword(EndWord) = Plain(256)
  BY <1>1 DEF encode_codeword
<1>3. Plain(256).code = 256 /\ Plain(256).num_extra_bits = 0 /\ Plain(256).extra_bits = 0
  BY DEF Plain, Symbol
<1>4. 0 \in 0 .. 2 * ByteBits
  BY ByteBitsIs
<1>5. QED
  BY <1>1, <1>2, <1>3, <1>4 DEF Sendable

CodedBlock(final, c) ==
  Block("coded", final, Codings[c].code, Codings[c].tables, Append(Codings[c].words, EndWord))

\* A coded block is no longer than LengthOf.
LEMMA CodingIs ==
  ASSUME NEW c \in DOMAIN Codings, NEW final
  PROVE  /\ Codings[c].tables \in Nat /\ LengthOf[c] \in Nat
         /\ BlockOk(CodedBlock(final, c)) /\ Rest(CodedBlock(final, c)) \in Nat
         /\ 3 + Codings[c].tables + Rest(CodedBlock(final, c)) <= LengthOf[c]
<1>1. PICK code, words, tables : code = Codings[c].code /\ words = Codings[c].words /\ tables = Codings[c].tables
  OBVIOUS
<1>2. /\ IsCode(code.items) /\ IsCode(code.distances) /\ 256 \in DOMAIN code.items
      /\ tables \in Nat /\ words \in Seq(Range(words)) /\ \A word \in Range(words) : Sendable(word, code)
  BY <1>1, BlockAssumption, Zenon
<1>3. CodeOk(code.items) /\ CodeOk(code.distances)
  BY <1>2 DEF IsCode, CodeOk, BitStrings
<1>4. PICK all : all = Append(words, EndWord)
  OBVIOUS
<1>5. PICK n \in Nat : /\ n = Len(words) /\ Len(all) = n + 1 /\ DOMAIN all = 1 .. n + 1
                       /\ all[n + 1] = EndWord /\ \A k \in 1 .. n : all[k] = words[k] /\ words[k] \in Range(words)
  <2>1. PICK T : T = Range(words) \cup {EndWord}
    OBVIOUS
  <2>2. words \in Seq(T) /\ EndWord \in T
    BY <1>2, <2>1
  <2>3. all \in Seq(T) /\ Len(all) = Len(words) + 1 /\ Len(words) \in Nat /\ all[Len(words) + 1] = EndWord
        /\ \A k \in 1 .. Len(words) : all[k] = words[k]
    BY <1>4, <2>2, AppendProperties
  <2>4. DOMAIN all = 1 .. Len(words) + 1
    BY <2>3
  <2>5. \A k \in 1 .. Len(words) : words[k] \in Range(words)
    BY <1>2
  <2>6. QED
    BY <2>3, <2>4, <2>5
<1>6. ASSUME NEW k \in DOMAIN all PROVE Sendable(all[k], code)
  <2>1. k \in 1 .. n \/ k = n + 1
    BY <1>5
  <2>2. CASE k \in 1 .. n
    BY <1>2, <1>5, <2>2
  <2>3. CASE k = n + 1
    BY <1>2, <1>5, <2>3, EndSendable
  <2>4. QED
    BY <2>1, <2>2, <2>3
<1>7. PICK b : b = CodedBlock(final, c)
  OBVIOUS
<1>8. b = Block("coded", final, code, tables, all)
  BY <1>1, <1>4, <1>7 DEF CodedBlock
<1>9. BlockOk(b) /\ Rest(b) <= Total(Lengths(all, code)) /\ Rest(b) \in Nat
  BY <1>3, <1>5, <1>6, <1>8, NewBlock
<1>10. Total(Lengths(all, code)) \in Nat
  <2>1. Lengths(all, code) \in Seq(Nat)
    BY <1>3, <1>5, <1>6, LengthsAre
  <2>2. QED
    BY <2>1, TotalNatural
<1>11. LengthOf[c] = 1 + 2 + tables + Total(Lengths(all, code))
  <2>1. LengthOf[c] = CodedLength(Codings[c])
    BY DEF LengthOf
  <2>2. CodedLength(Codings[c]) = 1 + 2 + tables + Sum(Lengths(all, code))
    BY <1>1, <1>4 DEF CodedLength, Lengths
  <2>3. QED
    BY <2>1, <2>2, SumIsTotal
<1>12. QED
  BY <1>1, <1>2, <1>7, <1>9, <1>10, <1>11

-----------------------------------------------------------------------------
(* Stored blocks.                                                          *)

Raws == {RawWord(b) : b \in 0 .. Byte - 1}

LEMMA RawCode ==
  /\ CodeOk(Raw.items) /\ CodeOk(Raw.distances)
  /\ \A word \in Raws : Sendable(word, Raw) /\ WordLength(word, Raw) = ByteBits
<1>1. PICK B \in Nat : B = ByteBits /\ B >= 3
  BY ByteBitsIs
<1>2. PICK top \in Nat : top = Byte - 1
  BY ByteBitsIs
<1>3. Raw.items = [symbol \in 0 .. top |-> LowBits(symbol, B)] /\ Raw.distances = <<>>
  BY <1>1, <1>2 DEF Raw
<1>4. ASSUME NEW symbol \in 0 .. top PROVE LowBits(symbol, B) \in BitStrings /\ Len(LowBits(symbol, B)) = B
  BY LowBitsAre
<1>5. B \in 1 .. 2 * ByteBits
  BY <1>1
<1>6. CodeOk(Raw.items)
  BY <1>3, <1>4, <1>5 DEF CodeOk
<1>7. CodeOk(Raw.distances)
  BY <1>3 DEF CodeOk
<1>8. ASSUME NEW word \in Raws PROVE Sendable(word, Raw) /\ WordLength(word, Raw) = ByteBits
  <2>1. PICK b \in 0 .. top : word = RawWord(b)
    BY <1>2 DEF Raws
  <2>2. word.type = "CW_RAW" /\ word.lit = b
    BY <2>1 DEF RawWord
  <2>3. encode_codeword(word) = Plain(b)
    BY <2>2 DEF encode_codeword
  <2>4. Plain(b).code = b /\ Plain(b).num_extra_bits = 0 /\ Plain(b).extra_bits = 0
    BY DEF Plain, Symbol
  <2>5. b \in DOMAIN Raw.items /\ Raw.items[b] = LowBits(b, B)
    BY <1>3
  <2>6. 0 \in 0 .. 2 * ByteBits
    BY <1>1
  <2>7. Sendable(word, Raw)
    BY <2>2, <2>3, <2>4, <2>5, <2>6 DEF Sendable
  <2>8. BitsOfWord(word, Raw) = LowBits(b, B)
    BY <2>2, <2>3, <2>4, <2>5 DEF BitsOfWord
  <2>9. WordLength(word, Raw) = B + 0
    BY <1>4, <2>3, <2>4, <2>8 DEF WordLength
  <2>10. QED
    BY <1>1, <2>7, <2>9
<1>9. QED
  BY <1>6, <1>7, <1>8

LEMMA RawLengthWordsAre ==
  ASSUME NEW n \in Nat
  PROVE  RawLengthWords(n) \in Seq(Raws) /\ Len(RawLengthWords(n)) = 2 * LenBytes
<1> DEFINE of(v) == [k \in 1 .. LenBytes |-> RawWord((v \div 2 ^ (ByteBits * (k - 1))) % Byte)]
<1>1. LenBytes \in Nat
  BY StreamAssumption
<1>2. ASSUME NEW v \in Int PROVE of(v) \in Seq(Raws) /\ Len(of(v)) = LenBytes
  <2>1. ASSUME NEW k \in 1 .. LenBytes PROVE RawWord((v \div 2 ^ (ByteBits * (k - 1))) % Byte) \in Raws
    <3>1. ByteBits * (k - 1) \in Nat
      <4>1. k - 1 \in Nat
        BY <1>1
      <4>2. \A x \in Nat, y \in Nat : x * y \in Nat
        OBVIOUS
      <4>3. QED
        BY <4>1, <4>2, ByteBitsIs
    <3>2. PICK p \in Nat \ {0} : p = 2 ^ (ByteBits * (k - 1))
      BY <3>1, PowersOfTwo
    <3>3. PICK c \in Nat \ {0} : c = Byte
      BY ByteBitsIs
    <3>4. v \div p \in Int
      OBVIOUS
    <3>5. \A y \in Int : y % c \in 0 .. c - 1
      OBVIOUS
    <3>6. QED
      BY <3>2, <3>3, <3>4, <3>5 DEF Raws
  <2>2. of(v) \in [1 .. LenBytes -> Raws]
    BY <2>1
  <2>3. QED
    BY <1>1, <2>2
<1>3. PICK m \in Int : m = 2 ^ (ByteBits * LenBytes) - 1 - n
  <2>1. ByteBits * LenBytes \in Nat
    BY <1>1, ByteBitsIs
  <2>2. 2 ^ (ByteBits * LenBytes) \in Nat
    BY <2>1, PowersOfTwo
  <2>3. QED
    BY <2>2
<1>4. RawLengthWords(n) = of(n) \o of(m)
  BY <1>3 DEF RawLengthWords
<1> HIDE DEF of
<1>8. n \in Int /\ m \in Int
  OBVIOUS
<1>5. of(n) \in Seq(Raws) /\ Len(of(n)) = LenBytes /\ of(m) \in Seq(Raws) /\ Len(of(m)) = LenBytes
  BY <1>2, <1>8
<1>6. of(n) \o of(m) \in Seq(Raws) /\ Len(of(n) \o of(m)) = Len(of(n)) + Len(of(m))
  BY <1>5, ConcatProperties
<1>7. QED
  BY <1>1, <1>4, <1>5, <1>6

RawBlock(final, words) == Block("raw", final, Raw, 0, words)

\* A stored block is no longer than RawLength, which nobody chooses if it cannot be stored.
LEMMA StoredIs ==
  ASSUME NEW x, NEW start \in Nat, NEW n \in Nat \ {0}, x.start_offset = start, x.end_offset = start + n,
         \A k \in start + 1 .. start + n : Image(k) \in 0 .. Byte - 1, NEW final
  PROVE  /\ BlockOk(RawBlock(final, RawWords(x))) /\ Rest(RawBlock(final, RawWords(x))) \in Nat
         /\ RawLength(n) \in Nat
         /\ 3 + (ByteBits - 1) + Rest(RawBlock(final, RawWords(x))) <= RawLength(n)
<1>1. PICK B \in Nat, M \in Nat, L \in Nat : B = ByteBits /\ B >= 3 /\ M = MaxRaw /\ L = LenBytes
  BY ByteBitsIs, StreamAssumption, BlockAssumption
<1>2. Bytes(x) \in Seq(Raws) /\ Len(Bytes(x)) = n
  <2>1. x.end_offset - x.start_offset = n
    OBVIOUS
  <2>2. \A k \in 1 .. n : x.start_offset + k \in start + 1 .. start + n
    OBVIOUS
  <2>3. \A k \in 1 .. n : RawWord(Image(x.start_offset + k)) \in Raws
    BY <2>2 DEF Raws
  <2>4. Bytes(x) \in [1 .. n -> Raws]
    BY <2>1, <2>3 DEF Bytes
  <2>5. QED
    BY <2>4
<1>3. PICK words : words = RawWords(x)
  OBVIOUS
<1>4. PICK m \in Nat : /\ words \in Seq(Raws) /\ Len(words) = m
                       /\ m = IF n > M THEN 0 ELSE 2 * L + n
  <2>1. CASE n > M
    <3>1. words = <<>>
      BY <1>1, <1>2, <1>3, <2>1 DEF RawWords
    <3>2. <<>> \in Seq(Raws) /\ Len(<<>>) = 0
      OBVIOUS
    <3>3. QED
      BY <2>1, <3>1, <3>2
  <2>2. CASE ~ (n > M)
    <3>1. words = RawLengthWords(n) \o Bytes(x)
      BY <1>1, <1>2, <1>3, <2>2 DEF RawWords
    <3>2. RawLengthWords(n) \in Seq(Raws) /\ Len(RawLengthWords(n)) = 2 * L
      BY <1>1, RawLengthWordsAre
    <3>3. words \in Seq(Raws) /\ Len(words) = 2 * L + n
      <4>1. PICK a \in Seq(Raws), c \in Seq(Raws) :
              a = RawLengthWords(n) /\ c = Bytes(x) /\ Len(a) = 2 * L /\ Len(c) = n
        BY <1>2, <3>2
      <4>2. a \o c \in Seq(Raws) /\ Len(a \o c) = Len(a) + Len(c)
        BY ConcatProperties
      <4>3. QED
        BY <3>1, <4>1, <4>2
    <3>4. 2 * L + n \in Nat
      OBVIOUS
    <3>5. QED
      BY <2>2, <3>3, <3>4
  <2>3. QED
    BY <2>1, <2>2
<1>5. DOMAIN words = 1 .. m /\ \A k \in 1 .. m : words[k] \in Raws
  BY <1>4
<1>6. PICK b : b = RawBlock(final, words)
  OBVIOUS
<1>7. BlockOk(b) /\ Rest(b) <= Total(Lengths(words, Raw)) /\ Rest(b) \in Nat
  <2>1. \A k \in DOMAIN words : Sendable(words[k], Raw)
    BY <1>5, RawCode
  <2>2. b = Block("raw", final, Raw, 0, words) /\ Len(words) \in Nat /\ DOMAIN words = 1 .. Len(words)
    BY <1>4, <1>5, <1>6 DEF RawBlock
  <2>3. QED
    BY <2>1, <2>2, RawCode, NewBlock
<1>8. Total(Lengths(words, Raw)) = m * B
  <2>1. Lengths(words, Raw) = Copies(m, B)
    BY <1>1, <1>5, RawCode DEF Lengths, Copies
  <2>2. QED
    BY <2>1, TotalOfCopies
<1>9. RawHeader = 2 * L
  BY <1>1 DEF RawHeader
<1>10. CASE n > M
  <2>1. RawLength(n) = 2 * B * n
    BY <1>1, <1>10 DEF RawLength
  <2>2. 2 * B * n \in Nat /\ 2 * B * 1 <= 2 * B * n
    <3>1. 2 * B \in Nat /\ 1 \in Nat /\ 1 <= n
      OBVIOUS
    <3>2. (2 * B) * 1 <= (2 * B) * n
      BY <3>1, ProductGrows
    <3>3. QED
      BY <3>2
  <2>3. m * B = 0
    BY <1>4, <1>10
  <2>4. 3 + (B - 1) + Rest(b) <= 2 * B
    BY <1>1, <1>7, <1>8, <2>3
  <2>5. QED
    BY <1>1, <1>3, <1>6, <1>7, <2>1, <2>2, <2>4
<1>11. CASE ~ (n > M)
  <2>1. RawLength(n) = 1 + 2 + (B - 1) + (n + 2 * L) * B
    BY <1>1, <1>9, <1>11 DEF RawLength
  <2>2. m * B = (n + 2 * L) * B /\ m * B \in Nat
    BY <1>4, <1>11
  <2>3. QED
    BY <1>1, <1>3, <1>6, <1>7, <1>8, <2>1, <2>2
<1>12. QED
  BY <1>10, <1>11

-----------------------------------------------------------------------------
(* Slots, groups and offsets.                                              *)

LEMMA QuotientIs ==
  ASSUME NEW q \in Nat, NEW m \in Nat, NEW r \in Nat, r < m, NEW x, x = q * m + r
  PROVE  x \in Nat /\ x \div m = q /\ x % m = r
OBVIOUS

LEMMA Quotients ==
  \A q, m, r \in Nat : r < m => /\ q * m + r \in Nat /\ (q * m + r) \div m = q
                                /\ (q * m + r) % m = r
BY QuotientIs

LEMMA Partition ==
  ASSUME NEW x \in Nat, NEW m \in Nat \ {0}
  PROVE  /\ x \div m \in Nat /\ x % m \in Nat /\ x % m < m
         /\ x = (x \div m) * m + (x % m)
OBVIOUS

LEMMA ItemsIs == Items \in Nat /\ Items >= 2
BY BlockAssumption

\* The linker blocks that group g packs.
Starts(b, g) == g % Len(b)
Stops(b, g) == (g % Len(b)) + g \div Len(b) + 1

FirstOf(b, x) == (x % (Len(b) * Items)) \div Items
BehindOf(b, x) == FirstOf(b, x) + x \div (Len(b) * Items) + 1

\* Slot g * Items + k packs in way k the run of group g.
LEMMA SlotIs ==
  ASSUME NEW b, Len(b) \in Nat \ {0}, NEW g \in Nat, NEW k \in Nat, k < Items, NEW x, x = g * Items + k
  PROVE  /\ x \in Nat /\ x \div Items = g /\ Way(x) = k
         /\ FirstOf(b, x) = Starts(b, g) /\ BehindOf(b, x) = Stops(b, g)
<1>1. PICK L \in Nat \ {0}, I \in Nat \ {0} : L = Len(b) /\ I = Items
  BY ItemsIs
<1>2. x \in Nat /\ x \div I = g /\ x % I = k
  <2>1. k < I /\ x = g * I + k
    BY <1>1
  <2>2. QED
    BY <1>1, <2>1, Quotients
<1>3. PICK l, j : l = g \div L /\ j = g % L
  OBVIOUS
<1>4. l \in Nat /\ j \in Nat /\ j < L /\ g = l * L + j
  BY <1>3, Partition
<1>5. PICK y \in Nat : y = j * I + k /\ y < L * I
  <2>1. j + 1 \in Nat /\ j + 1 <= L
    BY <1>4
  <2>2. (j + 1) * I <= L * I
    BY <2>1, ProductGrows
  <2>3. (j + 1) * I = j * I + I /\ j * I \in Nat /\ L * I \in Nat
    BY <1>4
  <2>4. j * I + k \in Nat /\ j * I + k < L * I
    BY <1>1, <2>2, <2>3
  <2>5. QED
    BY <2>4
<1>6. L * I \in Nat /\ x = l * (L * I) + y
  <2>1. (l * L + j) * I = l * (L * I) + j * I
    BY <1>4
  <2>2. l * (L * I) \in Nat /\ j * I \in Nat
    BY <1>4
  <2>3. QED
    BY <1>1, <1>4, <1>5, <2>1, <2>2
<1>7. x \div (L * I) = l /\ x % (L * I) = y
  <2>1. PICK h \in Nat, e \in Nat, f \in Nat : h = L * I /\ e = l /\ f = y
    BY <1>4, <1>5, <1>6
  <2>2. f < h /\ x = e * h + f
    BY <1>5, <1>6, <2>1
  <2>3. (e * h + f) \div h = e /\ (e * h + f) % h = f
    BY <2>1, <2>2, Quotients, ZenonT(30)
  <2>4. QED
    BY <2>1, <2>2, <2>3
<1>8. y \div I = j
  <2>1. k < I
    BY <1>1
  <2>2. QED
    BY <1>4, <1>5, <2>1, Quotients
<1>9. QED
  BY <1>1, <1>2, <1>3, <1>7, <1>8 DEF FirstOf, BehindOf, Starts, Stops, Way

LEMMA GroupIs ==
  ASSUME NEW g \in Nat, NEW x
  PROVE  x \in Group(g) <=> \E k \in Nat : k < Items /\ x = g * Items + k
<1>1. PICK I \in Nat \ {0}, n \in Nat : I = Items /\ n = g * I
  <2>1. Items \in Nat \ {0} /\ g * Items \in Nat
    BY ItemsIs
  <2>2. QED
    BY <2>1
<1>2. Group(g) = n .. n + I - 1
  BY <1>1 DEF Group
<1>3. ASSUME x \in Group(g) PROVE \E k \in Nat : k < Items /\ x = g * Items + k
  <2>1. x \in Int /\ n <= x /\ x <= n + I - 1
    BY <1>2, <1>3
  <2>2. x - n \in Nat /\ x - n < I /\ x = n + (x - n)
    BY <2>1
  <2>3. QED
    BY <1>1, <2>2
<1>4. ASSUME NEW k \in Nat, k < Items, x = g * Items + k PROVE x \in Group(g)
  BY <1>1, <1>2, <1>4
<1>5. QED
  BY <1>3, <1>4

LEMMA InGroup ==
  ASSUME NEW b, Len(b) \in Nat \ {0}, NEW g \in Nat, NEW x \in Group(g)
  PROVE  /\ x \in Nat /\ x \div Items = g /\ Way(x) \in 0 .. Items - 1 /\ x = g * Items + Way(x)
         /\ FirstOf(b, x) = Starts(b, g) /\ BehindOf(b, x) = Stops(b, g)
<1>1. PICK k \in Nat : k < Items /\ x = g * Items + k
  BY GroupIs
<1>2. /\ x \in Nat /\ x \div Items = g /\ Way(x) = k
      /\ FirstOf(b, x) = Starts(b, g) /\ BehindOf(b, x) = Stops(b, g)
  BY <1>1, SlotIs
<1>3. QED
  BY <1>1, <1>2, ItemsIs

LEMMA HeadOfGroup ==
  ASSUME NEW g \in Nat
  PROVE  g * Items \in Group(g)
<1>1. g * Items \in Nat
  BY ItemsIs
<1>2. 0 < Items /\ g * Items = g * Items + 0
  BY <1>1, ItemsIs
<1>3. QED
  BY <1>2, GroupIs

Positive(b) == \A j \in 1 .. Len(b) : b[j] \in Nat \ {0}

LEMMA BlocksAre ==
  ASSUME NEW b \in LinkerBlocks
  PROVE  b \in Seq(Nat) /\ b \in Seq(Int) /\ Len(b) \in Nat \ {0} /\ Positive(b)
<1>1. b \in Seq(Nat \ {0}) /\ b # <<>>
  BY BlockAssumption
<1>2. QED
  BY <1>1 DEF Positive

OffsetIn(b, j) == Sum(SubSeq(b, 1, j))

LEMMA OffsetNext ==
  ASSUME NEW b \in Seq(Nat), NEW j \in Nat, j + 1 <= Len(b)
  PROVE  /\ OffsetIn(b, 0) = 0 /\ OffsetIn(b, j) \in Nat
         /\ OffsetIn(b, j + 1) = OffsetIn(b, j) + b[j + 1]
<1>1. SubSeq(b, 1, j + 1) = Append(SubSeq(b, 1, j), b[j + 1]) /\ SubSeq(b, 1, j) \in Seq(Nat)
      /\ b[j + 1] \in Nat
  BY Grow
<1>2. SubSeq(b, 1, j) \in Seq(Int) /\ b[j + 1] \in Int
  BY <1>1
<1>3. Total(Append(SubSeq(b, 1, j), b[j + 1])) = Total(SubSeq(b, 1, j)) + b[j + 1]
  BY <1>2, TotalAppend
<1>4. Total(SubSeq(b, 1, j)) \in Nat
  BY <1>1, TotalNatural
<1>5. SubSeq(b, 1, 0) = <<>>
  OBVIOUS
<1>6. OffsetIn(b, 0) = 0
  BY <1>5, SumIsTotal, TotalEmpty DEF OffsetIn
<1>7. QED
  BY <1>1, <1>3, <1>4, <1>6, SumIsTotal DEF OffsetIn

\* Offsets rise.
LEMMA OffsetsRise ==
  ASSUME NEW b \in Seq(Nat), Positive(b), NEW j \in Nat, NEW k \in Nat, j < k, k <= Len(b)
  PROVE  /\ OffsetIn(b, j) \in Nat /\ OffsetIn(b, k) \in Nat /\ OffsetIn(b, j) < OffsetIn(b, k)
<1>1. Len(b) \in Nat
  OBVIOUS
<1> DEFINE N == {n \in Nat : j + n + 1 <= Len(b) =>
                   OffsetIn(b, j + n + 1) \in Nat /\ OffsetIn(b, j) < OffsetIn(b, j + n + 1)}
<1>2. \A m \in Nat : m + 1 <= Len(b) =>
        OffsetIn(b, m) \in Nat /\ OffsetIn(b, m + 1) = OffsetIn(b, m) + b[m + 1] /\ b[m + 1] \in Nat \ {0}
  BY <1>1, OffsetNext DEF Positive
<1>3. 0 \in N
  <2>1. j + 0 + 1 = j + 1 /\ j + 1 <= Len(b)
    BY <1>1
  <2>2. OffsetIn(b, j) \in Nat /\ OffsetIn(b, j + 1) = OffsetIn(b, j) + b[j + 1] /\ b[j + 1] \in Nat \ {0}
    BY <1>2, <2>1
  <2>3. OffsetIn(b, j + 1) \in Nat /\ OffsetIn(b, j) < OffsetIn(b, j + 1)
    BY <2>2
  <2>4. QED
    BY <2>1, <2>3
<1>4. ASSUME NEW n \in N PROVE n + 1 \in N
  <2>1. PICK m \in Nat : m = j + n + 1 /\ j + (n + 1) + 1 = m + 1
    OBVIOUS
  <2>2. ASSUME m + 1 <= Len(b) PROVE OffsetIn(b, m + 1) \in Nat /\ OffsetIn(b, j) < OffsetIn(b, m + 1)
    <3>1. m <= Len(b)
      BY <1>1, <2>2
    <3>2. OffsetIn(b, m) \in Nat /\ OffsetIn(b, j) < OffsetIn(b, m)
      BY <2>1, <3>1
    <3>3. OffsetIn(b, m + 1) = OffsetIn(b, m) + b[m + 1] /\ b[m + 1] \in Nat \ {0}
      BY <1>2, <2>2
    <3>4. OffsetIn(b, j) \in Nat
      <4>1. j + 1 <= Len(b)
        BY <1>1
      <4>2. QED
        BY <1>2, <4>1
    <3>5. QED
      BY <3>2, <3>3, <3>4
  <2>3. QED
    BY <2>1, <2>2
<1> HIDE DEF N
<1>5. N = Nat
  <2>1. N \in SUBSET Nat
    BY DEF N
  <2>2. QED
    BY <1>3, <1>4, <2>1, SetInduction
<1>6. PICK n \in Nat : k = j + n + 1
  <2>1. k - j - 1 \in Nat /\ k = j + (k - j - 1) + 1
    OBVIOUS
  <2>2. QED
    BY <2>1
<1>7. j + 1 <= Len(b)
  BY <1>1
<1>8. OffsetIn(b, j) \in Nat
  BY <1>2, <1>7
<1>9. n \in N
  BY <1>5, <1>6
<1>10. OffsetIn(b, k) \in Nat /\ OffsetIn(b, j) < OffsetIn(b, k)
  <2>1. j + n + 1 <= Len(b)
    BY <1>6
  <2>2. QED
    BY <1>6, <1>9, <2>1 DEF N
<1>11. QED
  BY <1>8, <1>10

-----------------------------------------------------------------------------
(* What the bytes are.                                                     *)

LEMMA BehindTheEnd ==
  ASSUME NEW s \in BitStrings, NEW p \in Nat, NEW n \in Nat, n = 0 \/ p >= Len(s)
  PROVE  Piece(s, p, n) = Zeros(n)
<1>1. Zeros(n) \in BitStrings /\ Len(Zeros(n)) = n
  BY ValueZeros
<1>2. PICK l \in Nat : l = Len(s)
  BY DEF BitStrings
<1>3. \A k \in 1 .. n : Zeros(n)[k] = 0 /\ BitAt(s, p + k - 1) = 0
  <2> SUFFICES ASSUME NEW k \in 1 .. n PROVE Zeros(n)[k] = 0 /\ BitAt(s, p + k - 1) = 0
    OBVIOUS
  <2>1. ~ (p + k - 1 < l)
    BY <1>2
  <2>2. QED
    BY <1>2, <2>1 DEF Zeros, BitAt
<1>4. QED
  BY <1>1, <1>3, PieceOf

LEMMA PieceInside ==
  ASSUME NEW s \in BitStrings, NEW p \in Nat, NEW m \in Nat, p + m <= Len(s)
  PROVE  /\ Piece(s, p, m) = SubSeq(s, p + 1, p + m)
         /\ SubSeq(s, p + 1, p + m) \in BitStrings
<1>1. PICK l \in Nat : l = Len(s) /\ DOMAIN s = 1 .. l /\ \A k \in 1 .. l : s[k] \in {0, 1}
  BY DEF BitStrings
<1>2. PICK t : t = SubSeq(s, p + 1, p + m)
  OBVIOUS
<1>3. t \in BitStrings /\ Len(t) = m
  BY <1>1, <1>2 DEF BitStrings
<1>4. \A k \in 1 .. m : t[k] = BitAt(s, p + k - 1)
  <2> SUFFICES ASSUME NEW k \in 1 .. m PROVE t[k] = BitAt(s, p + k - 1)
    OBVIOUS
  <2>1. t[k] = s[p + k]
    BY <1>1, <1>2 DEF BitStrings
  <2>2. p + k - 1 < Len(s) /\ (p + k - 1) + 1 = p + k
    BY <1>1
  <2>3. QED
    BY <2>1, <2>2 DEF BitAt
<1>5. Piece(s, p, m) = t
  BY <1>3, <1>4, PieceOf
<1>6. QED
  BY <1>2, <1>3, <1>5

LEMMA PieceCut ==
  ASSUME NEW s \in BitStrings, NEW p \in Nat, NEW m \in Nat, NEW r \in Nat,
         p + m <= Len(s), r = 0 \/ p + m >= Len(s)
  PROVE  Value(Piece(s, p, m + r)) = Value(SubSeq(s, p + 1, p + m))
<1>1. Piece(s, p, m + r) = Piece(s, p, m) \o Piece(s, p + m, r)
  BY PieceSplits
<1>2. PICK f \in Nat : f = p + m
  OBVIOUS
<1>3. Piece(s, f, r) = Zeros(r)
  BY <1>2, BehindTheEnd
<1>4. PICK a \in BitStrings : a = SubSeq(s, p + 1, p + m) /\ Piece(s, p, m) = a
  BY PieceInside
<1>5. Value(a \o Zeros(r)) = Value(a) + 2 ^ Len(a) * Value(Zeros(r))
  BY ValueZeros, ValueConcat
<1>6. Value(Zeros(r)) = 0 /\ Value(a) \in Nat /\ 2 ^ Len(a) \in Nat
  <2>1. Len(a) \in Nat /\ 0 \in {0, 1}
    BY DEF BitStrings
  <2>2. QED
    BY <2>1, ValueZeros, ValueAppend, PowersOfTwo
<1>7. Value(a \o Zeros(r)) = Value(a)
  BY <1>5, <1>6
<1>8. QED
  BY <1>1, <1>2, <1>3, <1>4, <1>7

LEMMA PieceUpTo ==
  ASSUME NEW s \in BitStrings, NEW p \in Nat, NEW whole \in Nat, NEW middle \in Nat,
         p <= middle, middle <= p + whole, middle <= Len(s), middle = p + whole \/ middle >= Len(s)
  PROVE  Value(Piece(s, p, whole)) = Value(SubSeq(s, p + 1, middle))
<1>1. PICK m \in Nat, r \in Nat : middle = p + m /\ whole = m + r
  <2>1. middle - p \in Nat /\ middle = p + (middle - p)
    OBVIOUS
  <2>2. whole - (middle - p) \in Nat /\ whole = (middle - p) + (whole - (middle - p))
    OBVIOUS
  <2>3. QED
    BY <2>1, <2>2
<1>2. m \in Nat /\ r \in Nat /\ p + m <= Len(s) /\ (r = 0 \/ p + m >= Len(s))
  BY <1>1
<1>3. Value(Piece(s, p, m + r)) = Value(SubSeq(s, p + 1, p + m))
  BY <1>2, PieceCut
<1>4. QED
  BY <1>1, <1>3

ByteSays(d, p, s, n) ==
  LET end  == (n + 1) * ByteBits
      here == SubSeq(s, n * ByteBits + 1, IF end > p THEN p ELSE end)
  IN  d[n] = IF n * ByteBits >= p THEN 0 ELSE Value(here)

LEMMA BytesSay ==
  ASSUME NEW d, NEW top, NEW bits, InOrder(d, top, bits), NEW n \in DOMAIN d
  PROVE  ByteSays(d, top, bits, n)
<1>1. PICK B \in Nat, l \in Nat : B = ByteBits /\ l = top
  BY ByteBitsIs DEF InOrder, BitStrings
<1>2. bits \in BitStrings /\ l = Len(bits) /\ n \in Nat /\ d[n] = ByteOf(bits, n)
  BY <1>1 DEF InOrder, Hold
<1>3. PICK q \in Nat, e \in Nat : q = n * B /\ e = (n + 1) * B /\ e = q + B
  <2>1. n * B \in Nat /\ (n + 1) * B = n * B + B
    BY <1>2
  <2>2. QED
    BY <2>1
<1>4. d[n] = Value(Piece(bits, q, B))
  BY <1>1, <1>2, <1>3 DEF ByteOf
<1>5. CASE q >= l
  <2>1. Piece(bits, q, B) = Zeros(B)
    BY <1>2, <1>5, BehindTheEnd
  <2>2. d[n] = 0
    BY <1>4, <2>1, ValueZeros
  <2>3. QED
    BY <1>1, <1>3, <1>5, <2>2 DEF ByteSays
<1>6. CASE ~ (q >= l)
  <2>1. PICK f \in Nat : f = (IF e > l THEN l ELSE e)
    OBVIOUS
  <2>2. bits \in BitStrings /\ q <= f /\ f <= q + B /\ f <= Len(bits) /\ (f = q + B \/ f >= Len(bits))
    BY <1>2, <1>3, <1>6, <2>1
  <2>3. Value(Piece(bits, q, B)) = Value(SubSeq(bits, q + 1, f))
    BY <1>1, <1>3, <2>1, <2>2, PieceUpTo
  <2>5. d[n] = Value(SubSeq(bits, q + 1, f))
    BY <1>4, <2>3
  <2>6. QED
    BY <1>1, <1>3, <1>6, <2>1, <2>5 DEF ByteSays
<1>7. QED
  BY <1>5, <1>6

\* What has been kept is BitsInOrder.
LEMMA OrderSays ==
  ASSUME InOrder(dest, pos, sent)
  PROVE  BitsInOrder
<1>1. pos = Len(sent)
  BY DEF InOrder
<1>2. \A n \in DOMAIN dest : ByteSays(dest, pos, sent, n)
  BY BytesSay
<1>3. QED
  BY <1>1, <1>2 DEF BitsInOrder, ByteSays

\* An empty stream.
LEMMA NothingSent ==
  ASSUME NEW bytes \in Nat
  PROVE  InOrder([n \in 0 .. bytes |-> 0], 0, <<>>)
<1>1. PICK d : d = [n \in 0 .. bytes |-> 0]
  OBVIOUS
<1>2. DOMAIN d = 0 .. bytes /\ DOMAIN d \in SUBSET Nat /\ d \in [DOMAIN d -> Nat]
  BY <1>1
<1>3. <<>> \in BitStrings /\ 0 = Len(<<>>)
  BY DEF BitStrings
<1>4. Hold(d, <<>>)
  <2> SUFFICES ASSUME NEW n \in 0 .. bytes PROVE d[n] = ByteOf(<<>>, n)
    BY <1>2 DEF Hold
  <2>1. PICK q \in Nat : q = n * ByteBits
    BY ByteBitsIs
  <2>2. Piece(<<>>, q, ByteBits) = Zeros(ByteBits)
    BY <1>3, ByteBitsIs, BehindTheEnd
  <2>3. QED
    BY <1>1, <2>1, <2>2, ByteBitsIs, ValueZeros DEF ByteOf
<1>5. QED
  BY <1>1, <1>2, <1>3, <1>4 DEF InOrder

-----------------------------------------------------------------------------
(* The slots of w.                                                         *)

Filled(b, g) == Stops(b, g) <= Len(b)

WorkSize(b, g) == OffsetIn(b, Stops(b, g)) - OffsetIn(b, Starts(b, g))

\* The run of a group that has slots.
LEMMA FilledRun ==
  ASSUME NEW b \in LinkerBlocks, NEW g \in Nat, Filled(b, g)
  PROVE  /\ Starts(b, g) \in Nat /\ Stops(b, g) \in Nat
         /\ Starts(b, g) < Stops(b, g) /\ Stops(b, g) <= Len(b)
         /\ OffsetIn(b, Starts(b, g)) \in Nat /\ OffsetIn(b, Stops(b, g)) \in Nat
         /\ WorkSize(b, g) \in Nat \ {0} /\ WorkSize(b, g) \in DOMAIN Ways
         /\ OffsetIn(b, Stops(b, g)) = OffsetIn(b, Starts(b, g)) + WorkSize(b, g)
<1>1. PICK L \in Nat \ {0} : L = Len(b) /\ b \in Seq(Nat) /\ Positive(b)
  BY BlocksAre
<1>2. PICK j \in Nat, k \in Nat : j = Starts(b, g) /\ k = Stops(b, g) /\ j < k /\ k <= L
  <2>1. g \div L \in Nat /\ g % L \in Nat
    BY Partition
  <2>2. Starts(b, g) = g % L /\ Stops(b, g) = (g % L) + g \div L + 1
    BY <1>1 DEF Starts, Stops
  <2>3. QED
    BY <1>1, <2>1, <2>2 DEF Filled
<1>3. OffsetIn(b, j) \in Nat /\ OffsetIn(b, k) \in Nat /\ OffsetIn(b, j) < OffsetIn(b, k)
  BY <1>1, <1>2, OffsetsRise
<1>4. OffsetIn(b, k) - OffsetIn(b, j) \in DOMAIN Ways
  <2>1. j \in 0 .. Len(b) /\ k \in 0 .. Len(b)
    BY <1>1, <1>2
  <2>2. \A m \in 0 .. Len(b), n \in 0 .. Len(b) :
          m < n => Sum(SubSeq(b, 1, n)) - Sum(SubSeq(b, 1, m)) \in DOMAIN Ways
    BY BlockAssumption
  <2>3. QED
    BY <1>2, <2>1, <2>2 DEF OffsetIn
<1>5. \A m \in Nat, n \in Nat : m < n => n - m \in Nat \ {0} /\ n = m + (n - m)
  OBVIOUS
<1>6. WorkSize(b, g) = OffsetIn(b, k) - OffsetIn(b, j)
  BY <1>2 DEF WorkSize
<1>7. WorkSize(b, g) \in Nat \ {0} /\ OffsetIn(b, k) = OffsetIn(b, j) + WorkSize(b, g)
  BY <1>3, <1>5, <1>6
<1>8. QED
  BY <1>1, <1>2, <1>3, <1>4, <1>6, <1>7

LEMMA RawLengthIs ==
  ASSUME NEW n \in Nat
  PROVE  RawLength(n) \in Nat
<1>1. PICK B \in Nat, h \in Nat : B = ByteBits /\ B >= 3 /\ h = RawHeader
  BY ByteBitsIs, StreamAssumption DEF RawHeader
<1>2. 2 * B * n \in Nat /\ (n + h) * B \in Nat
  OBVIOUS
<1>3. 1 + 2 + (B - 1) + (n + h) * B \in Nat
  BY <1>1, <1>2
<1>4. QED
  BY <1>1, <1>2, <1>3 DEF RawLength

Names == {Storing} \cup DOMAIN Codings
Works == [start_offset : Nat, end_offset : Nat, coding : Names, length : Nat]

CodedAs(b, g, coding) == IF coding = Storing THEN RawLength(WorkSize(b, g)) ELSE LengthOf[coding]

\* The workload of group g, packed as the coding says.
Work(b, g, coding) ==
  [start_offset |-> OffsetIn(b, Starts(b, g)), end_offset |-> OffsetIn(b, Stops(b, g)),
   coding |-> coding, length |-> CodedAs(b, g, coding)]

WorksOf(b, g) == {Work(b, g, coding) : coding \in Names}

LEMMA WorkIs ==
  ASSUME NEW b \in LinkerBlocks, NEW g \in Nat, Filled(b, g), NEW coding \in Names
  PROVE  Work(b, g, coding) \in Works
<1>1. CodedAs(b, g, coding) \in Nat
  <2>1. CASE coding = Storing
    BY <2>1, FilledRun, RawLengthIs DEF CodedAs
  <2>2. CASE coding # Storing
    BY <2>2, CodingIs DEF CodedAs, Names
  <2>3. QED
    BY <2>1, <2>2
<1>2. OffsetIn(b, Starts(b, g)) \in Nat /\ OffsetIn(b, Stops(b, g)) \in Nat
  BY FilledRun
<1>3. QED
  BY <1>1, <1>2 DEF Work, Works

\* The workloads of group g are in its slots, and one of them is no longer than
\* the static code makes it.
Packs(v, b, g) ==
  /\ \A x \in Group(g) : v[x] \in WorksOf(b, g)
  /\ \E x \in Group(g) : v[x].length <= StaticLength(WorkSize(b, g))

Slots(b, top) == {x \in Nat : x \div Items < top /\ BehindOf(b, x) <= Len(b)}

SlotsOk(v, b, top) ==
  /\ v \in [Slots(b, top) -> Works]
  /\ \A g \in Nat : g < top /\ Filled(b, g) => Packs(v, b, g)

LEMMA SlotsOfGroup ==
  ASSUME NEW b \in LinkerBlocks, NEW g \in Nat, NEW top \in Nat, g < top, Filled(b, g)
  PROVE  Group(g) \subseteq Slots(b, top)
<1> SUFFICES ASSUME NEW x \in Group(g) PROVE x \in Slots(b, top)
  OBVIOUS
<1>1. Len(b) \in Nat \ {0}
  BY BlocksAre
<1>2. x \in Nat /\ x \div Items = g /\ BehindOf(b, x) = Stops(b, g)
  BY <1>1, InGroup
<1>3. QED
  BY <1>2 DEF Slots, Filled

LEMMA GroupsApart ==
  ASSUME NEW b \in LinkerBlocks, NEW g \in Nat, NEW h \in Nat, NEW x, x \in Group(g), x \in Group(h)
  PROVE  g = h
<1>1. Len(b) \in Nat \ {0}
  BY BlocksAre
<1>2. x \div Items = g /\ x \div Items = h
  BY <1>1, InGroup
<1>3. QED
  BY <1>2

\* Every slot is in a group.
LEMMA GroupOfSlot ==
  ASSUME NEW b \in LinkerBlocks, NEW top \in Nat, NEW x \in Slots(b, top)
  PROVE  \E g \in Nat : g < top /\ x \in Group(g) /\ Filled(b, g)
<1>1. PICK g : g = x \div Items
  OBVIOUS
<1>2. x \in Nat /\ g < top /\ BehindOf(b, x) <= Len(b) /\ Items \in Nat \ {0}
  BY <1>1, ItemsIs DEF Slots
<1>3. g \in Nat /\ x % Items \in Nat /\ x % Items < Items /\ x = g * Items + (x % Items)
  BY <1>1, <1>2, Partition
<1>4. x \in Group(g)
  BY <1>3, GroupIs
<1>5. BehindOf(b, x) = Stops(b, g)
  BY <1>3, <1>4, BlocksAre, InGroup
<1>6. QED
  BY <1>2, <1>3, <1>4, <1>5 DEF Filled

LEMMA SlotsNext ==
  ASSUME NEW b \in LinkerBlocks, NEW g \in Nat
  PROVE  Slots(b, g + 1) = IF Filled(b, g) THEN Slots(b, g) \cup Group(g) ELSE Slots(b, g)
<1>1. \A x \in Slots(b, g) : x \in Slots(b, g + 1)
  <2>1. \A x \in Nat : x \div Items \in Nat
    <3>1. Items \in Nat \ {0}
      BY ItemsIs
    <3>2. QED
      BY <3>1, Partition
  <2>2. QED
    BY <2>1 DEF Slots
<1>2. ASSUME NEW x \in Slots(b, g + 1), x \notin Slots(b, g) PROVE x \in Group(g) /\ Filled(b, g)
  <2>1. PICK h \in Nat : h < g + 1 /\ x \in Group(h) /\ Filled(b, h)
    <3>1. PICK top \in Nat : top = g + 1
      OBVIOUS
    <3>2. \E h \in Nat : h < top /\ x \in Group(h) /\ Filled(b, h)
      BY <1>2, <3>1, GroupOfSlot
    <3>3. QED
      BY <3>1, <3>2
  <2>2. ~ (h < g)
    BY <1>2, <2>1, SlotsOfGroup
  <2>3. h = g
    BY <2>1, <2>2
  <2>4. QED
    BY <2>1, <2>3
<1>3. Filled(b, g) => Group(g) \subseteq Slots(b, g + 1)
  <2>1. g + 1 \in Nat /\ g < g + 1
    OBVIOUS
  <2>2. QED
    BY <2>1, SlotsOfGroup
<1>4. CASE Filled(b, g)
  <2>1. \A x : x \in Slots(b, g + 1) <=> x \in Slots(b, g) \cup Group(g)
    BY <1>1, <1>2, <1>3, <1>4
  <2>2. Slots(b, g + 1) = Slots(b, g) \cup Group(g)
    BY <2>1
  <2>3. QED
    BY <1>4, <2>2
<1>5. CASE ~ Filled(b, g)
  <2>1. \A x : x \in Slots(b, g + 1) <=> x \in Slots(b, g)
    BY <1>1, <1>2, <1>5
  <2>2. Slots(b, g + 1) = Slots(b, g)
    BY <2>1
  <2>3. QED
    BY <1>5, <2>2
<1>6. QED
  BY <1>4, <1>5

-----------------------------------------------------------------------------
(* Packing.                                                                *)

CodingOf(names, x) == IF Way(x) = 0 THEN Storing ELSE names[Way(x)]

PackedGroup(v, b, g, names) ==
  [x \in DOMAIN v \cup Group(g) |-> IF x \notin Group(g) THEN v[x] ELSE Work(b, g, CodingOf(names, x))]

LEMMA WayIs ==
  ASSUME NEW b \in LinkerBlocks, NEW g \in Nat, NEW x \in Group(g)
  PROVE  Way(x) \in 0 .. Items - 1
<1>1. Len(b) \in Nat \ {0}
  BY BlocksAre
<1>2. QED
  BY <1>1, InGroup

LEMMA NamesAre ==
  ASSUME NEW b \in LinkerBlocks, NEW g \in Nat, Filled(b, g), NEW names \in Ways[WorkSize(b, g)]
  PROVE  /\ names \in [1 .. Items - 1 -> DOMAIN Codings]
         /\ \E way \in 1 .. Items - 1 : LengthOf[names[way]] <= StaticLength(WorkSize(b, g))
         /\ \A x \in Group(g) : CodingOf(names, x) \in Names
<1>1. PICK n \in DOMAIN Ways : n = WorkSize(b, g)
  BY FilledRun
<1>2. /\ Ways[n] \subseteq [1 .. Items - 1 -> DOMAIN Codings]
      /\ \A q \in Ways[n] : \E way \in 1 .. Items - 1 : LengthOf[q[way]] <= StaticLength(n)
  BY BlockAssumption
<1>3. names \in [1 .. Items - 1 -> DOMAIN Codings]
  BY <1>1, <1>2
<1>4. ASSUME NEW x \in Group(g) PROVE CodingOf(names, x) \in Names
  <2>1. Way(x) \in 0 .. Items - 1
    BY WayIs
  <2>2. CASE Way(x) = 0
    BY <2>2 DEF CodingOf, Names
  <2>3. CASE Way(x) # 0
    <3>1. Way(x) \in 1 .. Items - 1
      BY <2>1, <2>3, ItemsIs
    <3>2. QED
      BY <1>3, <2>3, <3>1 DEF CodingOf, Names
  <2>4. QED
    BY <2>2, <2>3
<1>5. QED
  BY <1>1, <1>2, <1>3, <1>4

\* The slots of one more group.
LEMMA PacksGroup ==
  ASSUME NEW b \in LinkerBlocks, NEW g \in Nat, NEW v, SlotsOk(v, b, g), Filled(b, g),
         NEW names \in Ways[WorkSize(b, g)]
  PROVE  SlotsOk(PackedGroup(v, b, g, names), b, g + 1)
<1>1. PICK u : u = PackedGroup(v, b, g, names)
  OBVIOUS
<1>2. v \in [Slots(b, g) -> Works] /\ DOMAIN v = Slots(b, g)
  BY DEF SlotsOk
<1>3. Slots(b, g + 1) = Slots(b, g) \cup Group(g)
  BY SlotsNext
<1>4. \A x \in Slots(b, g + 1) :
        u[x] = IF x \notin Group(g) THEN v[x] ELSE Work(b, g, CodingOf(names, x))
  BY <1>1, <1>2, <1>3 DEF PackedGroup
<1>5. \A x \in Group(g) : /\ u[x] = Work(b, g, CodingOf(names, x)) /\ CodingOf(names, x) \in Names
                          /\ u[x] \in Works /\ u[x] \in WorksOf(b, g)
  <2> SUFFICES ASSUME NEW x \in Group(g)
               PROVE  /\ u[x] = Work(b, g, CodingOf(names, x)) /\ CodingOf(names, x) \in Names
                      /\ u[x] \in Works /\ u[x] \in WorksOf(b, g)
    OBVIOUS
  <2>1. x \in Slots(b, g + 1)
    BY <1>3
  <2>2. PICK coding \in Names : coding = CodingOf(names, x)
    BY NamesAre
  <2>3. u[x] = Work(b, g, coding)
    BY <1>4, <2>1, <2>2
  <2>4. QED
    BY <2>2, <2>3, WorkIs DEF WorksOf
<1>6. u \in [Slots(b, g + 1) -> Works]
  <2>1. \A x \in Slots(b, g + 1) : u[x] \in Works
    <3> SUFFICES ASSUME NEW x \in Slots(b, g + 1) PROVE u[x] \in Works
      OBVIOUS
    <3>1. CASE x \in Group(g)
      BY <1>5, <3>1
    <3>2. CASE x \notin Group(g)
      BY <1>2, <1>3, <1>4, <3>2
    <3>3. QED
      BY <3>1, <3>2
  <2>2. u = [x \in Slots(b, g + 1) |-> u[x]]
    BY <1>1, <1>2, <1>3 DEF PackedGroup
  <2>3. QED
    BY <2>1, <2>2
<1>7. Packs(u, b, g)
  <2>1. PICK way \in 1 .. Items - 1 : LengthOf[names[way]] <= StaticLength(WorkSize(b, g))
    BY NamesAre
  <2>2. PICK x : x = g * Items + way
    OBVIOUS
  <2>3. way \in Nat /\ way < Items /\ way # 0
    BY <2>1, ItemsIs
  <2>4. x \in Group(g)
    BY <2>2, <2>3, GroupIs
  <2>5. Way(x) = way
    BY <2>2, <2>3, BlocksAre, SlotIs
  <2>6. CodingOf(names, x) = names[way] /\ names[way] \in DOMAIN Codings
    BY <2>1, <2>3, <2>5, NamesAre DEF CodingOf
  <2>7. names[way] # Storing
    BY <2>6, BlockAssumption
  <2>8. u[x].length = LengthOf[names[way]]
    <3>1. PICK c : c = names[way] /\ c # Storing /\ u[x] = Work(b, g, c)
      BY <1>5, <2>4, <2>6, <2>7
    <3>2. Work(b, g, c).length = LengthOf[c]
      BY <3>1 DEF Work, CodedAs
    <3>3. QED
      BY <3>1, <3>2
  <2>9. QED
    BY <1>5, <2>1, <2>4, <2>8 DEF Packs
<1>8. ASSUME NEW h \in Nat, h < g, Filled(b, h) PROVE Packs(u, b, h)
  <2>1. \A x \in Group(h) : u[x] = v[x]
    <3> SUFFICES ASSUME NEW x \in Group(h) PROVE u[x] = v[x]
      OBVIOUS
    <3>1. x \in Slots(b, g)
      BY <1>8, SlotsOfGroup
    <3>2. x \notin Group(g)
      BY <1>8, GroupsApart
    <3>3. QED
      BY <1>3, <1>4, <3>1, <3>2
  <2>2. Packs(v, b, h)
    BY <1>8 DEF SlotsOk
  <2>3. QED
    BY <2>1, <2>2 DEF Packs
<1>9. \A h \in Nat : h < g + 1 => h < g \/ h = g
  OBVIOUS
<1>10. QED
  BY <1>1, <1>6, <1>7, <1>8, <1>9 DEF SlotsOk

LEMMA PacksNone ==
  ASSUME NEW b \in LinkerBlocks, NEW g \in Nat, NEW v, SlotsOk(v, b, g), ~ Filled(b, g)
  PROVE  SlotsOk(v, b, g + 1)
<1>1. Slots(b, g + 1) = Slots(b, g)
  BY SlotsNext
<1>2. \A h \in Nat : h < g + 1 => h < g \/ h = g
  OBVIOUS
<1>3. QED
  BY <1>1, <1>2 DEF SlotsOk

LEMMA NoSlots ==
  ASSUME NEW b \in LinkerBlocks
  PROVE  SlotsOk(<<>>, b, 0)
<1>1. Slots(b, 0) = {}
  <2> SUFFICES ASSUME NEW x \in Slots(b, 0) PROVE FALSE
    OBVIOUS
  <2>1. PICK g \in Nat : g < 0
    BY GroupOfSlot
  <2>2. QED
    BY <2>1
<1>2. <<>> \in [{} -> Works]
  OBVIOUS
<1>3. \A g \in Nat : ~ (g < 0)
  OBVIOUS
<1>4. QED
  BY <1>1, <1>2, <1>3 DEF SlotsOk

\* The operators of the model, for the slots of a group.
LEMMA ModelSlot ==
  ASSUME blocks \in LinkerBlocks, NEW g \in Nat, NEW x \in Group(g)
  PROVE  /\ First(x) = Starts(blocks, g) /\ Behind(x) = Stops(blocks, g)
         /\ Offset(First(x)) = OffsetIn(blocks, Starts(blocks, g))
         /\ Offset(Behind(x)) = OffsetIn(blocks, Stops(blocks, g))
         /\ Size(x) = WorkSize(blocks, g)
         /\ \A coding : Workload(x, coding) = Work(blocks, g, coding)
<1>1. Len(blocks) \in Nat \ {0}
  BY BlocksAre
<1>2. FirstOf(blocks, x) = Starts(blocks, g) /\ BehindOf(blocks, x) = Stops(blocks, g)
  BY <1>1, InGroup
<1>3. First(x) = FirstOf(blocks, x) /\ Behind(x) = BehindOf(blocks, x)
  BY DEF First, Behind, FirstOf, BehindOf, lb_count
<1>4. \A j : Offset(j) = OffsetIn(blocks, j)
  BY DEF Offset, OffsetIn
<1>5. Size(x) = WorkSize(blocks, g)
  BY <1>2, <1>3, <1>4 DEF Size, WorkSize
<1>6. ASSUME NEW coding PROVE Workload(x, coding) = Work(blocks, g, coding)
  BY <1>2, <1>3, <1>4, <1>5 DEF Workload, Work, CodedAs
<1>7. QED
  BY <1>2, <1>3, <1>4, <1>5, <1>6

\* dispatch_apply fills the slots of group i, whatever the order it calls in.
LEMMA PackKeeps ==
  ASSUME blocks \in LinkerBlocks, i \in Nat, SlotsOk(w, blocks, i), Pack
  PROVE  SlotsOk(w', blocks, i + 1)
<1>0. PICK g \in Nat : g = i
  OBVIOUS
<1>1. PICK x : g = i /\ x = i * Items /\ x \in Group(g)
  BY <1>0, HeadOfGroup
<1>2. Behind(x) = Stops(blocks, g) /\ Size(x) = WorkSize(blocks, g)
  BY <1>1, ModelSlot
<1>3. CASE Filled(blocks, g)
  <2>1. ~ (Behind(i * Items) > lb_count)
    <3>1. Stops(blocks, g) \in Nat /\ Stops(blocks, g) <= Len(blocks) /\ Len(blocks) \in Nat
      BY <1>3, FilledRun, BlocksAre
    <3>2. QED
      BY <1>1, <1>2, <3>1 DEF lb_count
  <2>2. PICK names \in Ways[WorkSize(blocks, g)] :
          w' = [y \in DOMAIN w \cup Group(i) |->
                  IF y \notin Group(i) THEN w[y]
                  ELSE Workload(y, IF Way(y) = 0 THEN Storing ELSE names[Way(y)])]
    BY <1>1, <1>2, <2>1, Zenon DEF Pack
  <2>3. w' = PackedGroup(w, blocks, g, names)
    <3>1. \A y \in Group(g) : \A coding : Workload(y, coding) = Work(blocks, g, coding)
      BY ModelSlot
    <3>2. QED
      BY <1>1, <2>2, <3>1 DEF PackedGroup, CodingOf
  <2>4. QED
    BY <1>1, <1>3, <2>2, <2>3, PacksGroup
<1>4. CASE ~ Filled(blocks, g)
  <2>1. Behind(i * Items) > lb_count
    <3>1. Stops(blocks, g) \in Nat /\ Len(blocks) \in Nat
      <4>1. Len(blocks) \in Nat \ {0}
        BY BlocksAre
      <4>2. g \div Len(blocks) \in Nat /\ g % Len(blocks) \in Nat
        BY <4>1, Partition
      <4>3. QED
        BY <4>1, <4>2 DEF Stops
    <3>2. QED
      BY <1>1, <1>2, <1>4, <3>1 DEF lb_count, Filled
  <2>2. w' = w
    BY <2>1, Zenon DEF Pack
  <2>3. QED
    BY <1>1, <1>4, <2>2, PacksNone
<1>5. QED
  BY <1>3, <1>4

-----------------------------------------------------------------------------
(* Ordering.                                                               *)

Ordering(v, g, j) ==
  IF v[g * Items].length > v[g * Items + j].length THEN Exchange(v, g * Items, g * Items + j) ELSE v

UpTo(n) == [j \in 1 .. n |-> j]

OrderedGroup(v0, g) ==
  FoldLeft(LAMBDA v, j : IF v[g * Items].length > v[g * Items + j].length
                         THEN Exchange(v, g * Items, g * Items + j) ELSE v,
           v0, UpTo(Items - 1))

OrderSteps(D, g) == [p \in [D -> Works] \X (1 .. Items - 1) |-> Ordering(p[1], g, p[2])]

LEMMA OrderStep ==
  ASSUME NEW D, NEW g, NEW v \in [D -> Works], NEW j \in 1 .. Items - 1
  PROVE  OrderSteps(D, g)[<<v, j>>] = Ordering(v, g, j)
<1>1. <<v, j>> \in [D -> Works] \X (1 .. Items - 1)
  OBVIOUS
<1>2. OrderSteps(D, g)[<<v, j>>] = Ordering(<<v, j>>[1], g, <<v, j>>[2])
  BY <1>1, Zenon DEF OrderSteps
<1>3. QED
  BY <1>2

LEMMA OrderKeeps ==
  ASSUME NEW D, NEW g \in Nat, Group(g) \subseteq D, NEW v \in [D -> Works]
  PROVE  Keeps(OrderSteps(D, g), v, [D -> Works], 1 .. Items - 1)
<1>1. ASSUME NEW u \in [D -> Works], NEW j \in 1 .. Items - 1 PROVE Ordering(u, g, j) \in [D -> Works]
  <2>1. PICK x, y : x = g * Items /\ y = g * Items + j
    OBVIOUS
  <2>2. x \in D /\ y \in D
    <3>1. j \in Nat /\ j < Items
      BY ItemsIs
    <3>2. QED
      BY <2>1, <3>1, HeadOfGroup, GroupIs
  <2>3. Exchange(u, x, y) \in [D -> Works]
    BY <2>2 DEF Exchange
  <2>4. QED
    BY <2>1, <2>3 DEF Ordering
<1>2. OrderSteps(D, g) \in [[D -> Works] \X (1 .. Items - 1) -> [D -> Works]]
  BY <1>1 DEF OrderSteps
<1>3. QED
  BY <1>2 DEF Keeps

LEMMA UpToIs ==
  ASSUME NEW n \in Nat, n <= Items - 1
  PROVE  /\ UpTo(n) \in Seq(1 .. Items - 1) /\ Len(UpTo(n)) = n /\ \A j \in 1 .. n : UpTo(n)[j] = j
<1>1. UpTo(n) \in [1 .. n -> 1 .. Items - 1]
  BY ItemsIs DEF UpTo
<1>2. QED
  BY <1>1 DEF UpTo

OrderRun(F, v, g, n) ==
  F = [S \in SUBSET (1 .. n) |-> IF S = {} THEN v ELSE Ordering(F[S \ {Max(S)}], g, UpTo(n)[Max(S)])]

\* The loop that orders a group is a fold.
LEMMA OrderFolds ==
  ASSUME NEW D, NEW g \in Nat, Group(g) \subseteq D, NEW v \in [D -> Works]
  PROVE  OrderedGroup(v, g) = Fold(OrderSteps(D, g), v, UpTo(Items - 1))
<1> DEFINE n == Items - 1
           s == UpTo(n)
           G == CHOOSE F : OrderRun(F, v, g, n)
<1>0. PICK A : A = [D -> Works]
  OBVIOUS
<1>1. /\ n \in Nat /\ s \in Seq(1 .. n) /\ Len(s) = n /\ DOMAIN s = 1 .. n
      /\ \A k \in 1 .. n : s[k] = k
  <2>1. n \in Nat /\ n <= Items - 1
    BY <1>0, ItemsIs
  <2>2. QED
    BY <1>0, <2>1, UpToIs
<1>2. OrderedGroup(v, g) = G[1 .. n]
  BY <1>0, <1>1 DEF OrderedGroup, FoldLeft, MapThenFoldSet, OrderRun, Ordering
<1>9. \A F : OrderRun(F, v, g, n)
               <=> F = [S \in SUBSET (1 .. n) |-> IF S = {} THEN v ELSE Ordering(F[S \ {Max(S)}], g, s[Max(S)])]
  BY DEF OrderRun
<1>10. \A a \in A, b \in 1 .. n : OrderSteps(D, g)[<<a, b>>] = Ordering(a, g, b)
  BY <1>0, OrderStep
<1>6. Keeps(OrderSteps(D, g), v, A, 1 .. n)
  BY <1>0, OrderKeeps
<1> HIDE DEF n, s
<1>3. ASSUME NEW F, NEW S \in SUBSET (1 .. n), S # {}, F[S \ {Max(S)}] \in A
      PROVE  OrderSteps(D, g)[<<F[S \ {Max(S)}], s[Max(S)]>>] = Ordering(F[S \ {Max(S)}], g, s[Max(S)])
  <2>1. s[Max(S)] \in 1 .. n
    BY <1>1, <1>3, GreatestIndex
  <2>2. QED
    BY <1>3, <1>10, <2>1
<1>4. OrderRun(G, v, g, n)
  <2>1. PICK H \in [SUBSET (1 .. n) -> A] : Run(H, OrderSteps(D, g), v, s)
    BY <1>1, <1>6, RunExists
  <2>2. \A S \in SUBSET (1 .. n) : H[S \ {Max(S)}] \in A
    OBVIOUS
  <2>3. OrderRun(H, v, g, n)
    <3>1. H = [S \in SUBSET (1 .. n) |-> IF S = {} THEN v ELSE Ordering(H[S \ {Max(S)}], g, s[Max(S)])]
      BY <1>1, <1>3, <2>1, <2>2 DEF Run, RunTo
    <3>2. QED
      BY <1>9, <3>1, Zenon
  <2>4. QED
    BY <2>3
<1> HIDE DEF G
<1>11. G = [S \in SUBSET (1 .. n) |-> IF S = {} THEN v ELSE Ordering(G[S \ {Max(S)}], g, s[Max(S)])]
  BY <1>4, <1>9, Zenon
<1>5. Unrolls(G, OrderSteps(D, g), v, A, s)
  <2>1. G[{}] = v
    BY <1>1, <1>11
  <2>2. \A S \in SUBSET (1 .. n) : S # {} => G[S] = Ordering(G[S \ {Max(S)}], g, s[Max(S)])
    BY <1>1, <1>11
  <2>3. QED
    BY <1>1, <1>3, <2>1, <2>2 DEF Unrolls
<1>7. G[1 .. n] = Fold(OrderSteps(D, g), v, s)
  BY <1>1, <1>5, <1>6, UnrollsIs
<1>8. QED
  BY <1>2, <1>7 DEF n, s

\* u has in group g what v has there, and the same elsewhere.
Rearranged(u, v, g) ==
  /\ \A x \in DOMAIN v : x \notin Group(g) => u[x] = v[x]
  /\ \A x \in Group(g) : \E y \in Group(g) : u[x] = v[y]
  /\ \A x \in Group(g) : \E y \in Group(g) : v[x] = u[y]

LeastUpTo(u, g, n) == \A k \in Nat : k <= n => u[g * Items].length <= u[g * Items + k].length

\* One exchange: the first slot is least so far.
LEMMA OneOrdered ==
  ASSUME NEW D, NEW g \in Nat, Group(g) \subseteq D, NEW v \in [D -> Works], NEW u \in [D -> Works],
         NEW n \in Nat, n + 1 <= Items - 1, Rearranged(u, v, g), LeastUpTo(u, g, n),
         NEW t, t = Ordering(u, g, n + 1)
  PROVE  Rearranged(t, v, g) /\ LeastUpTo(t, g, n + 1)
<1>1. PICK I \in Nat, x \in Nat, y \in Nat : I = Items /\ x = g * I /\ y = x + (n + 1)
  <2>1. Items \in Nat /\ g * Items \in Nat
    BY ItemsIs
  <2>2. QED
    BY <2>1
<1>2. x \in Group(g) /\ y \in Group(g) /\ x \in D /\ y \in D /\ x # y
  <2>1. n + 1 \in Nat /\ n + 1 < Items
    BY ItemsIs
  <2>2. QED
    <3>1. PICK m \in Nat : m = n + 1 /\ m < I /\ y = x + m /\ m # 0
      BY <1>1, <2>1
    <3>2. x \in Group(g) /\ y \in Group(g)
      BY <1>1, <3>1, HeadOfGroup, GroupIs
    <3>3. x # y
      BY <1>1, <3>1
    <3>4. QED
      BY <3>2, <3>3
<1>3. \A k \in Nat : k <= n => x + k \in D /\ x + k # y
  <2> SUFFICES ASSUME NEW k \in Nat, k <= n PROVE x + k \in D /\ x + k # y
    OBVIOUS
  <2>1. k < Items
    BY ItemsIs
  <2>2. QED
    BY <1>1, <2>1, GroupIs
<1>4. \A z \in D : u[z].length \in Nat
  BY DEF Works
<1>5. \A k \in Nat : k <= n => u[x].length <= u[x + k].length
  BY <1>1 DEF LeastUpTo
<1>6. \A k \in Nat : k <= n + 1 => k <= n \/ k = n + 1
  OBVIOUS
<1>7. CASE u[x].length > u[y].length
  <2>1. t = [u EXCEPT ![x] = u[y], ![y] = u[x]]
    BY <1>1, <1>7 DEF Ordering, Exchange
  <2>2. t[x] = u[y] /\ t[y] = u[x] /\ \A z \in D : z # x /\ z # y => t[z] = u[z]
    BY <1>2, <2>1
  <2>3. Rearranged(t, v, g)
    <3>1. DOMAIN v = D
      OBVIOUS
    <3>2. ASSUME NEW z \in D, z \notin Group(g) PROVE t[z] = v[z]
      BY <1>2, <2>2, <3>1, <3>2 DEF Rearranged
    <3>3. ASSUME NEW z \in Group(g) PROVE \E q \in Group(g) : t[z] = u[q]
      <4>1. CASE z = x
        BY <1>2, <2>2, <4>1
      <4>2. CASE z = y
        BY <1>2, <2>2, <4>2
      <4>3. CASE z # x /\ z # y
        BY <2>2, <4>3
      <4>4. QED
        BY <4>1, <4>2, <4>3
    <3>4. ASSUME NEW z \in Group(g) PROVE \E q \in Group(g) : u[z] = t[q]
      <4>1. CASE z = x
        BY <1>2, <2>2, <4>1
      <4>2. CASE z = y
        BY <1>2, <2>2, <4>2
      <4>3. CASE z # x /\ z # y
        BY <2>2, <4>3
      <4>4. QED
        BY <4>1, <4>2, <4>3
    <3>5. /\ \A z \in Group(g) : \E q \in Group(g) : u[z] = v[q]
          /\ \A z \in Group(g) : \E q \in Group(g) : v[z] = u[q]
      BY DEF Rearranged
    <3>6. \A z \in Group(g) : \E q \in Group(g) : t[z] = v[q]
      BY <3>3, <3>5
    <3>7. \A z \in Group(g) : \E q \in Group(g) : v[z] = t[q]
      BY <3>4, <3>5
    <3>8. QED
      BY <3>1, <3>2, <3>6, <3>7 DEF Rearranged
  <2>4. ASSUME NEW k \in Nat, k <= n + 1 PROVE t[x].length <= t[x + k].length
    <3>1. CASE k = n + 1
      BY <1>1, <1>2, <1>4, <1>7, <2>2, <3>1
    <3>2. CASE k = 0
      <4>1. x + k = x
        BY <3>2
      <4>2. QED
        BY <1>2, <1>4, <2>2, <4>1
    <3>3. CASE k <= n /\ k # 0
      <4>1. x + k \in D /\ x + k # y /\ x + k # x
        BY <1>3, <3>3
      <4>2. t[x + k] = u[x + k] /\ u[x].length <= u[x + k].length
        BY <1>5, <2>2, <3>3, <4>1
      <4>3. PICK a \in Nat, c \in Nat, e \in Nat : a = u[x].length /\ c = u[y].length /\ e = u[x + k].length
        BY <1>2, <1>4, <4>1
      <4>4. c <= e
        BY <1>7, <4>2, <4>3
      <4>5. QED
        BY <2>2, <4>2, <4>3, <4>4
    <3>4. QED
      BY <1>6, <2>4, <3>1, <3>2, <3>3
  <2>5. LeastUpTo(t, g, n + 1)
    BY <1>1, <2>4 DEF LeastUpTo
  <2>6. QED
    BY <2>3, <2>5
<1>8. CASE ~ (u[x].length > u[y].length)
  <2>1. t = u
    BY <1>1, <1>8 DEF Ordering
  <2>2. u[x].length <= u[y].length
    BY <1>2, <1>4, <1>8
  <2>3. LeastUpTo(t, g, n + 1)
    BY <1>1, <1>5, <1>6, <2>1, <2>2 DEF LeastUpTo
  <2>4. QED
    BY <2>1, <2>3
<1>9. QED
  BY <1>7, <1>8

\* A group keeps its workloads, and its first slot becomes the least.
LEMMA GroupOrdered ==
  ASSUME NEW D, NEW g \in Nat, Group(g) \subseteq D, NEW v \in [D -> Works]
  PROVE  /\ OrderedGroup(v, g) \in [D -> Works] /\ Rearranged(OrderedGroup(v, g), v, g)
         /\ \A x \in Group(g) : OrderedGroup(v, g)[g * Items].length <= OrderedGroup(v, g)[x].length
<1> DEFINE U(n) == Fold(OrderSteps(D, g), v, UpTo(n))
           N == {n \in Nat : n <= Items - 1 =>
                   U(n) \in [D -> Works] /\ Rearranged(U(n), v, g) /\ LeastUpTo(U(n), g, n)}
<1>1. Keeps(OrderSteps(D, g), v, [D -> Works], 1 .. Items - 1)
  BY OrderKeeps
<1>2. 0 \in N
  <2>1. UpTo(0) = <<>>
    BY DEF UpTo
  <2>2. U(0) = v
    BY <1>1, <2>1, FoldEmpty
  <2>3. Rearranged(v, v, g)
    BY DEF Rearranged
  <2>4. LeastUpTo(v, g, 0)
    <3>1. PICK x \in Nat : x = g * Items
      BY ItemsIs
    <3>2. x \in D /\ v[x].length \in Nat
      BY <3>1, HeadOfGroup DEF Works
    <3>3. \A k \in Nat : k <= 0 => x + k = x
      OBVIOUS
    <3>4. QED
      BY <3>1, <3>2, <3>3 DEF LeastUpTo
  <2>5. QED
    BY <2>2, <2>3, <2>4
<1>3. ASSUME NEW n \in N PROVE n + 1 \in N
  <2> SUFFICES ASSUME n + 1 <= Items - 1
               PROVE  U(n + 1) \in [D -> Works] /\ Rearranged(U(n + 1), v, g) /\ LeastUpTo(U(n + 1), g, n + 1)
    OBVIOUS
  <2>1. n \in Nat /\ n <= Items - 1 /\ n + 1 \in 1 .. Items - 1
    BY ItemsIs
  <2>2. U(n) \in [D -> Works] /\ Rearranged(U(n), v, g) /\ LeastUpTo(U(n), g, n)
    BY <2>1
  <2>3. UpTo(n) \in Seq(1 .. Items - 1) /\ UpTo(n + 1) = Append(UpTo(n), n + 1)
    <3>1. UpTo(n) \in Seq(1 .. Items - 1) /\ Len(UpTo(n)) = n /\ \A j \in 1 .. n : UpTo(n)[j] = j
      BY <2>1, UpToIs
    <3>2. PICK m \in Nat : m = n + 1 /\ m <= Items - 1
      BY <2>1
    <3>3. UpTo(m) \in Seq(1 .. Items - 1) /\ Len(UpTo(m)) = m /\ \A j \in 1 .. m : UpTo(m)[j] = j
      BY <3>2, UpToIs
    <3>4. PICK a \in Seq(1 .. Items - 1) : a = Append(UpTo(n), m) /\ Len(a) = m
                                           /\ \A j \in 1 .. m : a[j] = j
      <4>1. /\ Append(UpTo(n), m) \in Seq(1 .. Items - 1) /\ Len(Append(UpTo(n), m)) = m
            /\ \A j \in 1 .. m : Append(UpTo(n), m)[j] = j
        BY <2>1, <3>1, <3>2
      <4>2. QED
        BY <4>1, Zenon
    <3>5. UpTo(m) = a
      BY <3>2, <3>3, <3>4, SameSequence
    <3>6. QED
      BY <3>1, <3>2, <3>4, <3>5
  <2>4. U(n + 1) = OrderSteps(D, g)[<<U(n), n + 1>>]
    <3>1. PICK A, T, st, s, m : /\ A = [D -> Works] /\ T = 1 .. Items - 1 /\ st = OrderSteps(D, g)
                               /\ s = UpTo(n) /\ m = n + 1
      OBVIOUS
    <3>2. Keeps(st, v, A, T) /\ s \in Seq(T) /\ m \in T
      BY <1>1, <2>1, <2>3, <3>1
    <3>3. Fold(st, v, Append(s, m)) = st[<<Fold(st, v, s), m>>]
      BY <3>2, FoldAppend
    <3>4. QED
      BY <2>3, <3>1, <3>3
  <2>5. U(n + 1) = Ordering(U(n), g, n + 1)
    BY <2>1, <2>2, <2>4, OrderStep
  <2>6. U(n + 1) \in [D -> Works]
    BY <1>1, <2>1, <2>2, <2>4 DEF Keeps
  <2>7. QED
    BY <2>1, <2>2, <2>5, <2>6, OneOrdered
<1> HIDE DEF N
<1>4. N = Nat
  <2>1. N \in SUBSET Nat
    BY DEF N
  <2>2. QED
    BY <1>2, <1>3, <2>1, SetInduction
<1>5. OrderedGroup(v, g) = U(Items - 1)
  BY OrderFolds
<1>6. Items - 1 \in N /\ Items - 1 <= Items - 1
  BY <1>4, ItemsIs
<1>7. U(Items - 1) \in [D -> Works] /\ Rearranged(U(Items - 1), v, g) /\ LeastUpTo(U(Items - 1), g, Items - 1)
  BY <1>6 DEF N
<1>8. ASSUME NEW x \in Group(g) PROVE OrderedGroup(v, g)[g * Items].length <= OrderedGroup(v, g)[x].length
  <2>1. PICK k \in Nat : k < Items /\ x = g * Items + k
    BY GroupIs
  <2>2. k <= Items - 1
    BY <2>1, ItemsIs
  <2>3. QED
    BY <1>5, <1>7, <2>1, <2>2 DEF LeastUpTo
<1>9. QED
  BY <1>5, <1>7, <1>8

HeadLeast(v, g) == \A x \in Group(g) : v[g * Items].length <= v[x].length

\* The groups before n have been ordered.
OrderedBefore(v, b, n) == \A g \in Nat : g < n /\ Filled(b, g) => HeadLeast(v, g)

Groups(b) == Len(b) * Len(b)

LEMMA GroupsAre == ASSUME NEW b \in LinkerBlocks PROVE Groups(b) \in Nat
<1>1. Len(b) \in Nat
  BY BlocksAre
<1>2. \A n \in Nat : n * n \in Nat
  OBVIOUS
<1>3. QED
  BY <1>1, <1>2 DEF Groups

\* The groups before stay ordered, the slots what they are.
LEMMA OrderingKeeps ==
  ASSUME NEW b \in LinkerBlocks, NEW top \in Nat, NEW g \in Nat, g < top, NEW v, SlotsOk(v, b, top),
         OrderedBefore(v, b, g), Filled(b, g)
  PROVE  SlotsOk(OrderedGroup(v, g), b, top) /\ OrderedBefore(OrderedGroup(v, g), b, g + 1)
<1>1. PICK u, D : u = OrderedGroup(v, g) /\ D = Slots(b, top)
  OBVIOUS
<1>2. v \in [D -> Works] /\ Group(g) \subseteq D /\ DOMAIN v = D
  BY <1>1, SlotsOfGroup DEF SlotsOk
<1>3. u \in [D -> Works] /\ Rearranged(u, v, g) /\ \A x \in Group(g) : u[g * Items].length <= u[x].length
  BY <1>1, <1>2, GroupOrdered
<1>4. ASSUME NEW h \in Nat, h < top, h # g, Filled(b, h), NEW x \in Group(h) PROVE u[x] = v[x]
  <2>1. x \in D
    BY <1>1, <1>4, SlotsOfGroup
  <2>2. x \notin Group(g)
    BY <1>4, GroupsApart
  <2>3. QED
    BY <1>2, <1>3, <2>1, <2>2 DEF Rearranged
<1>5. ASSUME NEW h \in Nat, h < top, Filled(b, h) PROVE Packs(u, b, h)
  <2>1. Packs(v, b, h)
    BY <1>5 DEF SlotsOk
  <2>2. CASE h = g
    <3>1. ASSUME NEW x \in Group(h) PROVE u[x] \in WorksOf(b, h)
      <4>1. PICK y \in Group(h) : u[x] = v[y]
        BY <1>3, <2>2 DEF Rearranged
      <4>2. QED
        BY <2>1, <4>1 DEF Packs
    <3>2. PICK x \in Group(h) : v[x].length <= StaticLength(WorkSize(b, h))
      BY <2>1 DEF Packs
    <3>3. PICK y \in Group(h) : v[x] = u[y]
      BY <1>3, <2>2 DEF Rearranged
    <3>4. QED
      BY <3>1, <3>2, <3>3 DEF Packs
  <2>3. CASE h # g
    <3>1. \A x \in Group(h) : u[x] = v[x]
      BY <1>4, <1>5, <2>3
    <3>2. QED
      BY <2>1, <3>1 DEF Packs
  <2>4. QED
    BY <2>2, <2>3
<1>6. SlotsOk(u, b, top)
  BY <1>1, <1>3, <1>5 DEF SlotsOk
<1>7. ASSUME NEW h \in Nat, h < g + 1, Filled(b, h) PROVE HeadLeast(u, h)
  <2>1. CASE h = g
    BY <1>3, <2>1 DEF HeadLeast
  <2>2. CASE h # g
    <3>1. h < g /\ h < top
      BY <1>7, <2>2
    <3>2. HeadLeast(v, h)
      BY <1>7, <3>1 DEF OrderedBefore
    <3>3. \A x \in Group(h) : u[x] = v[x]
      BY <1>4, <1>7, <2>2, <3>1
    <3>4. h * Items \in Group(h)
      BY HeadOfGroup
    <3>5. QED
      BY <3>2, <3>3, <3>4 DEF HeadLeast
  <2>3. QED
    BY <2>1, <2>2
<1>8. QED
  BY <1>1, <1>6, <1>7 DEF OrderedBefore

\* The action, for the invariant.
LEMMA OrderKeepsSlots ==
  ASSUME blocks \in LinkerBlocks, i \in Nat, SlotsOk(w, blocks, Groups(blocks)),
         OrderedBefore(w, blocks, i), Order
  PROVE  SlotsOk(w', blocks, Groups(blocks)) /\ OrderedBefore(w', blocks, i + 1)
<1>1. PICK g \in Nat, top \in Nat : g = i /\ top = Groups(blocks) /\ g < top
  <2>1. Groups(blocks) \in Nat /\ i < Groups(blocks)
    BY GroupsAre DEF Order, Groups, lb_count
  <2>2. QED
    BY <2>1
<1>2. PICK x \in Group(g) : x = i * Items
  BY <1>1, HeadOfGroup
<1>3. x \in DOMAIN w <=> Filled(blocks, g)
  <2>1. DOMAIN w = Slots(blocks, top)
    BY <1>1 DEF SlotsOk
  <2>2. Filled(blocks, g) => x \in DOMAIN w
    BY <1>1, <2>1, SlotsOfGroup
  <2>3. ASSUME x \in DOMAIN w PROVE Filled(blocks, g)
    <3>1. PICK h \in Nat : x \in Group(h) /\ Filled(blocks, h)
      BY <2>1, <2>3, GroupOfSlot
    <3>2. h = g
      BY <3>1, GroupsApart
    <3>3. QED
      BY <3>1, <3>2
  <2>4. QED
    BY <2>2, <2>3
<1>4. CASE Filled(blocks, g)
  <2>1. w' = ShortestFirst(i)
    BY <1>2, <1>3, <1>4 DEF Order
  <2>2. ShortestFirst(i) = OrderedGroup(w, i)
    BY DEF ShortestFirst, OrderedGroup, UpTo
  <2>3. SlotsOk(OrderedGroup(w, g), blocks, top) /\ OrderedBefore(OrderedGroup(w, g), blocks, g + 1)
    BY <1>1, <1>4, OrderingKeeps
  <2>4. QED
    BY <1>1, <2>1, <2>2, <2>3
<1>5. CASE ~ Filled(blocks, g)
  <2>1. w' = w
    BY <1>2, <1>3, <1>5 DEF Order
  <2>2. OrderedBefore(w, blocks, g + 1)
    <3>1. \A h \in Nat : h < g + 1 => h < g \/ h = g
      OBVIOUS
    <3>2. QED
      BY <1>1, <1>5, <3>1 DEF OrderedBefore
  <2>3. QED
    BY <1>1, <2>1, <2>2
<1>6. QED
  BY <1>4, <1>5

-----------------------------------------------------------------------------
(* Functions that are defined from the end.                                *)

\* Induction from the end.
LEMMA DownInduction ==
  ASSUME NEW top \in Nat, NEW S,
         \A j \in 0 .. top : (\A k \in 0 .. top : k > j => k \in S) => j \in S
  PROVE  \A j \in 0 .. top : j \in S
<1> DEFINE N == {m \in Nat : \A j \in 0 .. top : j + m > top => j \in S}
<1>1. 0 \in N
  OBVIOUS
<1>2. ASSUME NEW m \in N PROVE m + 1 \in N
  <2> SUFFICES ASSUME NEW j \in 0 .. top, j + (m + 1) > top PROVE j \in S
    OBVIOUS
  <2>1. m \in Nat /\ \A k \in 0 .. top : k + m > top => k \in S
    OBVIOUS
  <2>2. \A k \in 0 .. top : k > j => k + m > top
    BY <2>1
  <2>3. QED
    BY <2>1, <2>2
<1> HIDE DEF N
<1>3. N = Nat
  <2>1. N \in SUBSET Nat
    BY DEF N
  <2>2. QED
    BY <1>1, <1>2, <2>1, SetInduction
<1>4. top + 1 \in N /\ \A j \in 0 .. top : j + (top + 1) > top
  BY <1>3
<1>5. QED
  BY <1>4 DEF N

\* The value at j depends on the values behind j.
Backward(step, top, T) ==
  /\ step \in [(0 .. top) \X [0 .. top -> T] -> T]
  /\ \A j \in 0 .. top : \A F \in [0 .. top -> T] : \A G \in [0 .. top -> T] :
       (\A k \in 0 .. top : k > j => F[k] = G[k]) => step[<<j, F>>] = step[<<j, G>>]

\* Such a function exists.
LEMMA DownExists ==
  ASSUME NEW top \in Nat, NEW T, NEW t \in T, NEW step, Backward(step, top, T)
  PROVE  \E F \in [0 .. top -> T] : \A j \in 0 .. top : F[j] = step[<<j, F>>]
<1> DEFINE N == {m \in Nat : \E F \in [0 .. top -> T] :
                   \A j \in 0 .. top : j + m > top => F[j] = step[<<j, F>>]}
<1>1. 0 \in N
  <2>1. [j \in 0 .. top |-> t] \in [0 .. top -> T]
    OBVIOUS
  <2>2. \A j \in 0 .. top : ~ (j + 0 > top)
    OBVIOUS
  <2>3. QED
    BY <2>1, <2>2
<1>2. ASSUME NEW m \in N PROVE m + 1 \in N
  <2>1. PICK F \in [0 .. top -> T] : m \in Nat /\ \A j \in 0 .. top : j + m > top => F[j] = step[<<j, F>>]
    OBVIOUS
  <2>2. CASE m > top
    <3>1. \A j \in 0 .. top : F[j] = step[<<j, F>>]
      BY <2>1, <2>2
    <3>2. QED
      BY <2>1, <3>1
  <2>3. CASE ~ (m > top)
    <3>1. PICK q \in 0 .. top : q = top - m
      BY <2>1, <2>3
    <3>2. PICK G : G = [F EXCEPT ![q] = step[<<q, F>>]]
      OBVIOUS
    <3>3. step[<<q, F>>] \in T
      BY <2>1, <3>1 DEF Backward
    <3>4. G \in [0 .. top -> T] /\ G[q] = step[<<q, F>>] /\ \A j \in 0 .. top : j # q => G[j] = F[j]
      BY <2>1, <3>1, <3>2, <3>3
    <3>5. ASSUME NEW j \in 0 .. top, j >= q PROVE step[<<j, F>>] = step[<<j, G>>]
      <4>1. \A k \in 0 .. top : k > j => F[k] = G[k]
        BY <3>1, <3>4, <3>5
      <4>2. QED
        BY <2>1, <3>4, <4>1 DEF Backward
    <3>6. ASSUME NEW j \in 0 .. top, j + (m + 1) > top PROVE G[j] = step[<<j, G>>]
      <4>1. j = q \/ (j > q /\ j + m > top)
        BY <2>1, <3>1, <3>6
      <4>2. CASE j = q
        BY <3>1, <3>4, <3>5, <4>2
      <4>3. CASE j > q /\ j + m > top
        <5>1. F[j] = step[<<j, F>>]
          BY <2>1, <4>3
        <5>2. j # q /\ j >= q
          BY <3>1, <4>3
        <5>3. G[j] = F[j]
          BY <3>4, <5>2
        <5>4. step[<<j, F>>] = step[<<j, G>>]
          BY <3>5, <5>2
        <5>5. QED
          BY <5>1, <5>3, <5>4
      <4>4. QED
        BY <4>1, <4>2, <4>3
    <3>7. m + 1 \in Nat
      BY <2>1
    <3>8. QED
      BY <3>4, <3>6, <3>7
  <2>4. QED
    BY <2>2, <2>3
<1> HIDE DEF N
<1>3. N = Nat
  <2>1. N \in SUBSET Nat
    BY DEF N
  <2>2. QED
    BY <1>1, <1>2, <2>1, SetInduction
<1>4. top + 1 \in N /\ \A j \in 0 .. top : j + (top + 1) > top
  BY <1>3
<1>5. PICK F \in [0 .. top -> T] : \A j \in 0 .. top : j + (top + 1) > top => F[j] = step[<<j, F>>]
  BY <1>4 DEF N
<1>6. QED
  BY <1>4, <1>5

-----------------------------------------------------------------------------
(* Ways to cut.                                                            *)

Combs(b) == {c \in [0 .. Len(b) - 1 -> Nat] : \A j \in 0 .. Len(b) - 1 : j + c[j] + 1 <= Len(b)}

CombGroup(b, c, j) == c[j] * Len(b) + j
CombSlot(b, c, j) == CombGroup(b, c, j) * Items

\* Digit j of a comb names a group with slots: the run that starts with j.
LEMMA CombIs ==
  ASSUME NEW b \in LinkerBlocks, NEW c \in Combs(b), NEW j \in 0 .. Len(b) - 1
  PROVE  /\ CombGroup(b, c, j) \in Nat /\ CombGroup(b, c, j) < Groups(b)
         /\ Starts(b, CombGroup(b, c, j)) = j /\ Stops(b, CombGroup(b, c, j)) = j + c[j] + 1
         /\ Filled(b, CombGroup(b, c, j)) /\ CombSlot(b, c, j) \in Group(CombGroup(b, c, j))
         /\ c[j] \in Nat /\ j \in Nat /\ j + c[j] + 1 \in 1 .. Len(b) /\ j < j + c[j] + 1
<1>1. PICK L \in Nat \ {0} : L = Len(b)
  BY BlocksAre
<1>2. PICK x \in Nat, k \in Nat : x = c[j] /\ k = j /\ k + x + 1 <= L
  BY <1>1 DEF Combs
<1>3. PICK g : g = CombGroup(b, c, j) /\ g = x * L + k
  BY <1>1, <1>2 DEF CombGroup
<1>4. k < L
  BY <1>1, <1>2
<1>5. g \in Nat /\ g \div L = x /\ g % L = k
  <2>1. x * L + k \in Nat /\ (x * L + k) \div L = x /\ (x * L + k) % L = k
    BY <1>1, <1>2, <1>4, Quotients
  <2>2. QED
    BY <1>3, <2>1
<1>6. g < L * L
  <2>1. x + 1 \in Nat /\ x + 1 <= L
    BY <1>1, <1>2
  <2>2. (x + 1) * L <= L * L
    BY <1>1, <2>1, ProductGrows
  <2>3. (x + 1) * L = x * L + L /\ x * L \in Nat /\ L * L \in Nat
    BY <1>1, <1>2
  <2>4. QED
    BY <1>3, <1>4, <2>2, <2>3
<1>7. Starts(b, g) = k /\ Stops(b, g) = k + x + 1
  BY <1>1, <1>5 DEF Starts, Stops
<1>8. CombSlot(b, c, j) \in Group(g)
  BY <1>3, <1>5, HeadOfGroup DEF CombSlot
<1>9. k + x + 1 \in 1 .. L /\ k < k + x + 1
  BY <1>1, <1>2
<1>10. QED
  BY <1>1, <1>2, <1>3, <1>5, <1>6, <1>7, <1>8, <1>9 DEF Filled, Groups

\* And a slot of w.
LEMMA CombSlotIs ==
  ASSUME NEW b \in LinkerBlocks, NEW v, SlotsOk(v, b, Groups(b)), NEW c \in Combs(b), NEW j \in 0 .. Len(b) - 1
  PROVE  /\ CombSlot(b, c, j) \in DOMAIN v
         /\ v[CombSlot(b, c, j)] \in WorksOf(b, CombGroup(b, c, j))
         /\ v[CombSlot(b, c, j)] \in Works /\ v[CombSlot(b, c, j)].length \in Nat
<1>0. PICK g \in Nat : g = CombGroup(b, c, j) /\ g < Groups(b) /\ Filled(b, g) /\ CombSlot(b, c, j) \in Group(g)
  BY CombIs
<1>1. PICK x \in Group(g) : g = CombGroup(b, c, j) /\ g < Groups(b) /\ Filled(b, g) /\ x = CombSlot(b, c, j)
  BY <1>0
<1>2. x \in Slots(b, Groups(b))
  BY <1>1, GroupsAre, SlotsOfGroup
<1>3. v \in [Slots(b, Groups(b)) -> Works] /\ Packs(v, b, g)
  BY <1>1 DEF SlotsOk
<1>4. v[x] \in Works /\ x \in DOMAIN v /\ v[x] \in WorksOf(b, g)
  BY <1>2, <1>3 DEF Packs
<1>5. QED
  BY <1>1, <1>4 DEF Works

\* The lengths from linker block j on, the way c cuts.
AheadIs(F, v, b, c) ==
  /\ F \in [0 .. Len(b) -> Nat] /\ F[Len(b)] = 0
  /\ \A j \in 0 .. Len(b) - 1 : F[j] = v[CombSlot(b, c, j)].length + F[j + c[j] + 1]

Ahead(v, b, c) == CHOOSE F : AheadIs(F, v, b, c)

\* The lengths of all blocks from j on are defined.
LEMMA AheadExists ==
  ASSUME NEW b \in LinkerBlocks, NEW v, SlotsOk(v, b, Groups(b)), NEW c \in Combs(b)
  PROVE  AheadIs(Ahead(v, b, c), v, b, c)
<1>1. PICK L \in Nat \ {0} : L = Len(b)
  BY BlocksAre
<1>2. PICK step : step = [p \in (0 .. L) \X [0 .. L -> Nat] |->
                            IF p[1] = L THEN 0
                            ELSE v[CombSlot(b, c, p[1])].length + p[2][p[1] + c[p[1]] + 1]]
  OBVIOUS
<1>3. ASSUME NEW j \in 0 .. L, NEW F \in [0 .. L -> Nat]
      PROVE  /\ step[<<j, F>>] = IF j = L THEN 0 ELSE v[CombSlot(b, c, j)].length + F[j + c[j] + 1]
             /\ step[<<j, F>>] \in Nat
  <2>1. <<j, F>> \in (0 .. L) \X [0 .. L -> Nat] /\ <<j, F>>[1] = j /\ <<j, F>>[2] = F
    OBVIOUS
  <2>2. step[<<j, F>>] = IF <<j, F>>[1] = L THEN 0
                         ELSE v[CombSlot(b, c, <<j, F>>[1])].length + <<j, F>>[2][<<j, F>>[1] + c[<<j, F>>[1]] + 1]
    BY <1>2, <2>1, Zenon
  <2>3. step[<<j, F>>] = IF j = L THEN 0 ELSE v[CombSlot(b, c, j)].length + F[j + c[j] + 1]
    BY <2>1, <2>2
  <2>4. CASE j = L
    BY <2>3, <2>4
  <2>5. CASE j # L
    <3>1. j \in 0 .. Len(b) - 1
      BY <1>1, <2>5
    <3>2. v[CombSlot(b, c, j)].length \in Nat /\ j + c[j] + 1 \in 0 .. L
      BY <1>1, <3>1, CombIs, CombSlotIs
    <3>3. PICK m \in Nat, n \in Nat : m = v[CombSlot(b, c, j)].length /\ n = F[j + c[j] + 1]
      BY <3>2
    <3>4. m + n \in Nat
      BY <3>3
    <3>5. QED
      BY <2>3, <2>5, <3>3, <3>4
  <2>6. QED
    BY <2>3, <2>4, <2>5
<1>4. Backward(step, L, Nat)
  <2>1. step \in [(0 .. L) \X [0 .. L -> Nat] -> Nat]
    <3>1. \A p \in (0 .. L) \X [0 .. L -> Nat] : p = <<p[1], p[2]>> /\ p[1] \in 0 .. L /\ p[2] \in [0 .. L -> Nat]
      OBVIOUS
    <3>2. \A p \in (0 .. L) \X [0 .. L -> Nat] : step[p] \in Nat
      BY <1>3, <3>1
    <3>3. QED
      BY <1>2, <3>2
  <2>2. ASSUME NEW j \in 0 .. L, NEW F \in [0 .. L -> Nat], NEW G \in [0 .. L -> Nat],
               \A k \in 0 .. L : k > j => F[k] = G[k]
        PROVE  step[<<j, F>>] = step[<<j, G>>]
    <3>1. CASE j = L
      BY <1>3, <3>1
    <3>2. CASE j # L
      <4>1. j \in 0 .. Len(b) - 1
        BY <1>1, <3>2
      <4>2. PICK n \in 0 .. L : n = j + c[j] + 1 /\ n > j
        BY <1>1, <4>1, CombIs
      <4>3. F[n] = G[n]
        BY <2>2, <4>2
      <4>4. /\ step[<<j, F>>] = v[CombSlot(b, c, j)].length + F[j + c[j] + 1]
            /\ step[<<j, G>>] = v[CombSlot(b, c, j)].length + G[j + c[j] + 1]
        BY <1>3, <3>2
      <4>5. QED
        BY <4>2, <4>3, <4>4
    <3>3. QED
      BY <3>1, <3>2
  <2>3. QED
    BY <2>1, <2>2 DEF Backward
<1>5. PICK F \in [0 .. L -> Nat] : \A j \in 0 .. L : F[j] = step[<<j, F>>]
  <2>1. PICK N : N = Nat
    OBVIOUS
  <2>2. L \in Nat /\ 0 \in N /\ Backward(step, L, N)
    BY <1>1, <1>4, <2>1
  <2>3. \E F \in [0 .. L -> N] : \A j \in 0 .. L : F[j] = step[<<j, F>>]
    BY <2>2, DownExists
  <2>4. QED
    BY <2>1, <2>3
<1>6. F[L] = 0
  <2>1. L \in 0 .. L
    OBVIOUS
  <2>2. QED
    BY <1>3, <1>5, <2>1
<1>7. ASSUME NEW j \in 0 .. L - 1 PROVE F[j] = v[CombSlot(b, c, j)].length + F[j + c[j] + 1]
  <2>1. j \in 0 .. L /\ j # L
    OBVIOUS
  <2>2. QED
    BY <1>3, <1>5, <2>1
<1>8. AheadIs(F, v, b, c)
  BY <1>1, <1>5, <1>6, <1>7 DEF AheadIs
<1>9. QED
  BY <1>8 DEF Ahead

-----------------------------------------------------------------------------
(* The blocks that a comb stands for.                                      *)

CutIs(f, b, c) ==
  f = [j \in 0 .. 2 * Len(b) |-> IF j >= Len(b) THEN <<>> ELSE <<j>> \o f[j + c[j] + 1]]

CutFrom(b, c) == CHOOSE f : CutIs(f, b, c)

\* The walk over a comb ends.
LEMMA CutExists ==
  ASSUME NEW b \in LinkerBlocks, NEW c \in Combs(b)
  PROVE  /\ CutIs(CutFrom(b, c), b, c)
         /\ \A j \in 0 .. 2 * Len(b) : CutFrom(b, c)[j] \in Seq(0 .. Len(b) - 1)
<1>1. PICK L \in Nat \ {0}, top \in Nat : L = Len(b) /\ top = 2 * L
  <2>1. Len(b) \in Nat \ {0} /\ 2 * Len(b) \in Nat
    BY BlocksAre
  <2>2. QED
    BY <2>1
<1>2. PICK T : T = Seq(0 .. L - 1)
  OBVIOUS
<1>3. PICK step : step = [p \in (0 .. top) \X [0 .. top -> T] |->
                            IF p[1] >= L THEN <<>> ELSE <<p[1]>> \o p[2][p[1] + c[p[1]] + 1]]
  OBVIOUS
<1>4. ASSUME NEW j \in 0 .. top, NEW F \in [0 .. top -> T]
      PROVE  /\ step[<<j, F>>] = IF j >= L THEN <<>> ELSE <<j>> \o F[j + c[j] + 1]
             /\ step[<<j, F>>] \in T
  <2>1. <<j, F>> \in (0 .. top) \X [0 .. top -> T] /\ <<j, F>>[1] = j /\ <<j, F>>[2] = F
    OBVIOUS
  <2>2. step[<<j, F>>] = IF <<j, F>>[1] >= L THEN <<>>
                         ELSE <<<<j, F>>[1]>> \o <<j, F>>[2][<<j, F>>[1] + c[<<j, F>>[1]] + 1]
    BY <1>3, <2>1, Zenon
  <2>3. step[<<j, F>>] = IF j >= L THEN <<>> ELSE <<j>> \o F[j + c[j] + 1]
    BY <2>1, <2>2
  <2>4. CASE j >= L
    BY <1>2, <2>3, <2>4
  <2>5. CASE ~ (j >= L)
    <3>1. j \in 0 .. Len(b) - 1 /\ j \in 0 .. L - 1
      BY <1>1, <2>5
    <3>2. j + c[j] + 1 \in 0 .. top
      <4>1. j + c[j] + 1 \in 1 .. L
        BY <1>1, <3>1, CombIs
      <4>2. QED
        BY <1>1, <4>1
    <3>3. PICK q \in T : q = F[j + c[j] + 1]
      BY <3>2
    <3>4. <<j>> \o q \in T
      <4>1. <<j>> \in Seq(0 .. L - 1) /\ q \in Seq(0 .. L - 1)
        BY <1>2, <3>1, <3>3
      <4>2. QED
        BY <1>2, <4>1, ConcatProperties
    <3>5. QED
      BY <2>3, <2>5, <3>3, <3>4
  <2>6. QED
    BY <2>3, <2>4, <2>5
<1>5. Backward(step, top, T)
  <2>1. step \in [(0 .. top) \X [0 .. top -> T] -> T]
    <3>1. \A p \in (0 .. top) \X [0 .. top -> T] : p = <<p[1], p[2]>> /\ p[1] \in 0 .. top /\ p[2] \in [0 .. top -> T]
      OBVIOUS
    <3>2. \A p \in (0 .. top) \X [0 .. top -> T] : step[p] \in T
      BY <1>4, <3>1
    <3>3. QED
      BY <1>3, <3>2
  <2>2. ASSUME NEW j \in 0 .. top, NEW F \in [0 .. top -> T], NEW G \in [0 .. top -> T],
               \A k \in 0 .. top : k > j => F[k] = G[k]
        PROVE  step[<<j, F>>] = step[<<j, G>>]
    <3>1. CASE j >= L
      BY <1>4, <3>1
    <3>2. CASE ~ (j >= L)
      <4>1. j \in 0 .. Len(b) - 1
        BY <1>1, <3>2
      <4>2. PICK n \in 0 .. top : n = j + c[j] + 1 /\ n > j
        <5>1. j + c[j] + 1 \in 1 .. L /\ j + c[j] + 1 > j
          BY <1>1, <4>1, CombIs
        <5>2. j + c[j] + 1 \in 0 .. top
          BY <1>1, <5>1
        <5>3. QED
          BY <5>1, <5>2
      <4>3. F[n] = G[n]
        BY <2>2, <4>2
      <4>4. step[<<j, F>>] = <<j>> \o F[j + c[j] + 1] /\ step[<<j, G>>] = <<j>> \o G[j + c[j] + 1]
        BY <1>4, <3>2
      <4>5. QED
        BY <4>2, <4>3, <4>4
    <3>3. QED
      BY <3>1, <3>2
  <2>3. QED
    BY <2>1, <2>2 DEF Backward
<1>6. PICK F \in [0 .. top -> T] : \A j \in 0 .. top : F[j] = step[<<j, F>>]
  <2>1. top \in Nat /\ <<>> \in T /\ Backward(step, top, T)
    BY <1>1, <1>2, <1>5
  <2>2. QED
    BY <2>1, DownExists
<1>7. F = [j \in 0 .. top |-> IF j >= L THEN <<>> ELSE <<j>> \o F[j + c[j] + 1]]
  <2>1. F = [j \in 0 .. top |-> F[j]]
    OBVIOUS
  <2>2. \A j \in 0 .. top : F[j] = IF j >= L THEN <<>> ELSE <<j>> \o F[j + c[j] + 1]
    BY <1>4, <1>6
  <2>3. QED
    BY <2>1, <2>2
<1>8. CutIs(F, b, c)
  BY <1>1, <1>7 DEF CutIs
<1>9. CutIs(CutFrom(b, c), b, c)
  BY <1>8, Zenon DEF CutFrom
<1>10. PICK f : f = CutFrom(b, c)
  OBVIOUS
<1>11. \A j \in 0 .. top : f[j] = IF j >= L THEN <<>> ELSE <<j>> \o f[j + c[j] + 1]
  BY <1>1, <1>9, <1>10 DEF CutIs
<1> DEFINE S == {j \in 0 .. top : f[j] \in Seq(0 .. L - 1)}
<1>12. ASSUME NEW j \in 0 .. top, \A k \in 0 .. top : k > j => k \in S PROVE j \in S
  <2>1. CASE j >= L
    <3>1. f[j] = <<>> /\ <<>> \in Seq(0 .. L - 1)
      BY <1>11, <2>1
    <3>2. QED
      BY <3>1
  <2>2. CASE ~ (j >= L)
    <3>1. j \in 0 .. Len(b) - 1 /\ j \in 0 .. L - 1
      BY <1>1, <2>2
    <3>2. PICK n \in 0 .. top : n = j + c[j] + 1 /\ n > j
      <4>1. j + c[j] + 1 \in 1 .. L /\ j + c[j] + 1 > j
        BY <1>1, <3>1, CombIs
      <4>2. j + c[j] + 1 \in 0 .. top
        BY <1>1, <4>1
      <4>3. QED
        BY <4>1, <4>2
    <3>3. f[n] \in Seq(0 .. L - 1) /\ <<j>> \in Seq(0 .. L - 1)
      BY <1>12, <3>1, <3>2
    <3>4. <<j>> \o f[n] \in Seq(0 .. L - 1)
      BY <3>3, ConcatProperties
    <3>5. f[j] = <<j>> \o f[n]
      BY <1>11, <2>2, <3>2
    <3>6. QED
      BY <3>4, <3>5
  <2>3. QED
    BY <2>1, <2>2
<1> HIDE DEF S
<1>13. \A j \in 0 .. top : j \in S
  BY <1>1, <1>12, DownInduction
<1>14. QED
  BY <1>1, <1>9, <1>10, <1>13 DEF S

LEMMA CutNext ==
  ASSUME NEW b \in LinkerBlocks, NEW c \in Combs(b), NEW f, f = CutFrom(b, c)
  PROVE  /\ f[Len(b)] = <<>>
         /\ \A j \in 0 .. Len(b) - 1 : f[j] = <<j>> \o f[j + c[j] + 1]
         /\ \A j \in 0 .. Len(b) : f[j] \in Seq(0 .. Len(b) - 1)
<1>1. PICK L \in Nat \ {0} : L = Len(b)
  BY BlocksAre
<1>2. \A j \in 0 .. 2 * L : f[j] = IF j >= L THEN <<>> ELSE <<j>> \o f[j + c[j] + 1]
  BY <1>1, CutExists DEF CutIs
<1>3. \A j \in 0 .. L : j \in 0 .. 2 * L
  BY <1>1
<1>4. \A j \in 0 .. L - 1 : j \in 0 .. L /\ ~ (j >= L)
  BY <1>1
<1>5. L \in 0 .. 2 * L /\ L >= L
  BY <1>1
<1>6. f[L] = <<>>
  BY <1>2, <1>5
<1>7. \A j \in 0 .. L - 1 : f[j] = <<j>> \o f[j + c[j] + 1]
  BY <1>2, <1>3, <1>4
<1>8. \A j \in 0 .. L : f[j] \in Seq(0 .. L - 1)
  BY <1>1, <1>3, CutExists
<1>9. QED
  BY <1>1, <1>6, <1>7, <1>8

\* The same in the model.
LEMMA ModelCut ==
  ASSUME NEW c
  PROVE  Cut(c) = CutFrom(blocks, c)[0]
BY DEF Cut, CutFrom, CutIs, lb_count

LEMMA InFront ==
  ASSUME NEW T, NEW x \in T, NEW t \in Seq(T), NEW s, s = <<x>> \o t
  PROVE  /\ s \in Seq(T) /\ Len(s) = Len(t) + 1 /\ s[1] = x
         /\ \A n \in 1 .. Len(t) : s[n + 1] = t[n]
<1>1. PICK a \in Seq(T) : a = <<x>> /\ Len(a) = 1 /\ a[1] = x
  <2>1. <<x>> \in Seq(T) /\ Len(<<x>>) = 1 /\ <<x>>[1] = x
    OBVIOUS
  <2>2. QED
    BY <2>1, Zenon
<1>2. PICK l \in Nat : l = Len(t)
  OBVIOUS
<1>3. /\ a \o t \in Seq(T) /\ Len(a \o t) = Len(a) + Len(t)
      /\ \A n \in 1 .. Len(a) + Len(t) : (a \o t)[n] = IF n <= Len(a) THEN a[n] ELSE t[n - Len(a)]
  BY ConcatProperties
<1>4. /\ s \in Seq(T) /\ Len(s) = 1 + l
      /\ \A n \in 1 .. 1 + l : s[n] = IF n <= 1 THEN a[n] ELSE t[n - 1]
  BY <1>1, <1>2, <1>3
<1>5. s[1] = x
  <2>1. 1 \in 1 .. 1 + l /\ 1 <= 1
    BY <1>2
  <2>2. s[1] = a[1]
    BY <1>4, <2>1, Zenon
  <2>3. QED
    BY <1>1, <2>2
<1>6. ASSUME NEW n \in 1 .. l PROVE s[n + 1] = t[n]
  <2>1. n + 1 \in 1 .. 1 + l /\ ~ (n + 1 <= 1) /\ (n + 1) - 1 = n
    BY <1>2
  <2>2. s[n + 1] = t[(n + 1) - 1]
    BY <1>4, <2>1, Zenon
  <2>3. QED
    BY <2>1, <2>2
<1>7. QED
  BY <1>2, <1>4, <1>5, <1>6

LengthsOn(v, b, c, s) == [n \in DOMAIN s |-> v[CombSlot(b, c, s[n])].length]

LEMMA LengthsInFront ==
  ASSUME NEW b \in LinkerBlocks, NEW v, SlotsOk(v, b, Groups(b)), NEW c \in Combs(b),
         NEW x \in 0 .. Len(b) - 1, NEW t \in Seq(0 .. Len(b) - 1)
  PROVE  Total(LengthsOn(v, b, c, <<x>> \o t)) = v[CombSlot(b, c, x)].length + Total(LengthsOn(v, b, c, t))
<1>1. PICK T, s : T = 0 .. Len(b) - 1 /\ s = <<x>> \o t
  OBVIOUS
<1>2. PICK l \in Nat : l = Len(t) /\ DOMAIN t = 1 .. l /\ \A n \in 1 .. l : t[n] \in T
  BY <1>1, SMTT(20)
<1>3. s \in Seq(T) /\ Len(s) = l + 1 /\ s[1] = x /\ \A n \in 1 .. l : s[n + 1] = t[n]
  BY <1>1, <1>2, InFront
<1>4. \A y \in T : v[CombSlot(b, c, y)].length \in Nat
  BY <1>1, CombSlotIs
<1>5. PICK m \in Nat : m = v[CombSlot(b, c, x)].length
  BY <1>1, <1>4
<1>6. PICK p : p = LengthsOn(v, b, c, t)
  OBVIOUS
<1>7. p \in Seq(Nat) /\ Len(p) = l /\ \A n \in 1 .. l : p[n] = v[CombSlot(b, c, t[n])].length
  <2>1. p = [n \in 1 .. l |-> v[CombSlot(b, c, t[n])].length]
    BY <1>2, <1>6 DEF LengthsOn
  <2>2. p \in [1 .. l -> Nat]
    BY <1>2, <1>4, <2>1
  <2>3. QED
    BY <2>1, <2>2
<1>8. PICK q : q = LengthsOn(v, b, c, s)
  OBVIOUS
<1>9. q \in Seq(Nat) /\ Len(q) = l + 1 /\ \A n \in 1 .. l + 1 : q[n] = v[CombSlot(b, c, s[n])].length
  <2>1. DOMAIN s = 1 .. l + 1 /\ \A n \in 1 .. l + 1 : s[n] \in T
    BY <1>3
  <2>2. q = [n \in 1 .. l + 1 |-> v[CombSlot(b, c, s[n])].length]
    BY <1>8, <2>1 DEF LengthsOn
  <2>3. q \in [1 .. l + 1 -> Nat]
    BY <1>4, <2>1, <2>2
  <2>4. QED
    BY <2>2, <2>3
<1>10. PICK r : r = <<m>> \o p
  OBVIOUS
<1>11. r \in Seq(Nat) /\ Len(r) = l + 1 /\ r[1] = m /\ \A n \in 1 .. l : r[n + 1] = p[n]
  <2>1. r \in Seq(Nat) /\ Len(r) = Len(p) + 1 /\ r[1] = m /\ \A n \in 1 .. Len(p) : r[n + 1] = p[n]
    BY <1>5, <1>7, <1>10, InFront
  <2>2. QED
    BY <1>7, <2>1
<1>12. \A n \in 1 .. l + 1 : q[n] = r[n]
  <2> SUFFICES ASSUME NEW n \in 1 .. l + 1 PROVE q[n] = r[n]
    OBVIOUS
  <2>1. CASE n = 1
    BY <1>3, <1>5, <1>9, <1>11, <2>1
  <2>2. CASE n # 1
    <3>1. PICK k \in 1 .. l : n = k + 1
      <4>1. n - 1 \in 1 .. l /\ n = (n - 1) + 1
        BY <2>2
      <4>2. QED
        BY <4>1
    <3>2. r[n] = p[k] /\ s[n] = t[k]
      BY <1>3, <1>11, <3>1
    <3>3. QED
      BY <1>7, <1>9, <3>1, <3>2
  <2>3. QED
    BY <2>1, <2>2
<1>13. q = r
  <2>1. l + 1 \in Nat
    OBVIOUS
  <2>2. QED
    BY <1>9, <1>11, <1>12, <2>1, SameSequence
<1>14. Total(r) = m + Total(p)
  <2>1. <<m>> \in Seq(Int) /\ p \in Seq(Int) /\ m \in Int
    BY <1>5, <1>7
  <2>2. Total(<<m>> \o p) = Total(<<m>>) + Total(p) /\ Total(<<m>>) = m
    BY <2>1, TotalConcat, TotalOne
  <2>3. QED
    BY <1>10, <2>2
<1>15. QED
  BY <1>1, <1>5, <1>6, <1>8, <1>13, <1>14

\* The sum of the lengths of the blocks, and where the last one ends.
LEMMA CutSums ==
  ASSUME NEW b \in LinkerBlocks, NEW v, SlotsOk(v, b, Groups(b)), NEW c \in Combs(b)
  PROVE  Total(LengthsOn(v, b, c, CutFrom(b, c)[0])) = Ahead(v, b, c)[0]
<1>0. PICK L \in Nat \ {0} : L = Len(b)
  BY BlocksAre
<1>1. PICK f, F : L = Len(b) /\ f = CutFrom(b, c) /\ F = Ahead(v, b, c)
  BY <1>0
<1>2. /\ f[L] = <<>> /\ \A j \in 0 .. L - 1 : f[j] = <<j>> \o f[j + c[j] + 1]
      /\ \A j \in 0 .. L : f[j] \in Seq(0 .. L - 1)
  BY <1>1, CutNext
<1>3. F[L] = 0 /\ \A j \in 0 .. L - 1 : F[j] = v[CombSlot(b, c, j)].length + F[j + c[j] + 1]
  BY <1>1, AheadExists DEF AheadIs
<1> DEFINE S == {j \in 0 .. L : Total(LengthsOn(v, b, c, f[j])) = F[j]}
<1>4. ASSUME NEW j \in 0 .. L, \A k \in 0 .. L : k > j => k \in S PROVE j \in S
  <2>1. CASE j = L
    <3>1. LengthsOn(v, b, c, <<>>) = <<>>
      BY DEF LengthsOn
    <3>2. QED
      BY <1>2, <1>3, <2>1, <3>1, TotalEmpty
  <2>2. CASE j # L
    <3>1. j \in 0 .. L - 1 /\ j \in 0 .. Len(b) - 1
      BY <1>1, <2>2
    <3>2. PICK n \in 0 .. L : n = j + c[j] + 1 /\ n > j
      BY <1>1, <3>1, CombIs
    <3>3. Total(LengthsOn(v, b, c, f[n])) = F[n]
      BY <1>4, <3>2
    <3>4. PICK t \in Seq(0 .. Len(b) - 1) : t = f[n]
      BY <1>1, <1>2, <3>2
    <3>5. Total(LengthsOn(v, b, c, <<j>> \o t)) = v[CombSlot(b, c, j)].length + Total(LengthsOn(v, b, c, t))
      BY <3>1, LengthsInFront
    <3>6. f[j] = <<j>> \o t /\ F[j] = v[CombSlot(b, c, j)].length + F[n]
      BY <1>2, <1>3, <3>1, <3>2, <3>4
    <3>7. QED
      BY <3>3, <3>4, <3>5, <3>6
  <2>3. QED
    BY <2>1, <2>2
<1> HIDE DEF S
<1>5. L \in Nat
  BY <1>1
<1>6. \A j \in 0 .. L : j \in S
  BY <1>4, <1>5, DownInduction
<1>7. 0 \in S
  BY <1>5, <1>6
<1>8. QED
  BY <1>1, <1>7 DEF S

\* The last block ends where the image does.
LEMMA CutEnds ==
  ASSUME NEW b \in LinkerBlocks, NEW c \in Combs(b), NEW s, s = CutFrom(b, c)[0]
  PROVE  s[Len(s)] + c[s[Len(s)]] + 1 = Len(b)
<1>0. PICK L \in Nat \ {0} : L = Len(b)
  BY BlocksAre
<1>1. PICK f : L = Len(b) /\ f = CutFrom(b, c)
  BY <1>0
<1>2. /\ f[L] = <<>> /\ \A j \in 0 .. L - 1 : f[j] = <<j>> \o f[j + c[j] + 1]
      /\ \A j \in 0 .. L : f[j] \in Seq(0 .. L - 1)
  BY <1>1, CutNext
<1> DEFINE LastOk(t) == Len(t) \in Nat \ {0} /\ t[Len(t)] + c[t[Len(t)]] + 1 = L
           S == {j \in 0 .. L : j = L \/ LastOk(f[j])}
<1>3. ASSUME NEW j \in 0 .. L, \A k \in 0 .. L : k > j => k \in S PROVE j \in S
  <2>1. CASE j = L
    BY <2>1
  <2>2. CASE j # L
    <3>1. j \in 0 .. L - 1 /\ j \in 0 .. Len(b) - 1
      BY <1>1, <2>2
    <3>2. PICK n \in 0 .. L : n = j + c[j] + 1 /\ n > j
      BY <1>1, <3>1, CombIs
    <3>3. PICK t \in Seq(0 .. L - 1) : t = f[n]
      BY <1>2, <3>2
    <3>4. PICK u : u = f[j] /\ u = <<j>> \o t
      BY <1>2, <3>1, <3>2, <3>3
    <3>5. Len(u) = Len(t) + 1 /\ u[1] = j /\ \A k \in 1 .. Len(t) : u[k + 1] = t[k]
      BY <3>1, <3>4, InFront
    <3>6. CASE n = L
      <4>1. Len(t) = 0
        BY <1>2, <3>3, <3>6
      <4>2. Len(u) = 1 /\ u[Len(u)] = j
        BY <3>5, <4>1
      <4>3. LastOk(u)
        BY <3>2, <3>6, <4>2
      <4>4. QED
        BY <3>4, <4>3
    <3>7. CASE n # L
      <4>1. LastOk(t)
        BY <1>3, <3>2, <3>3, <3>7
      <4>2. PICK k \in Nat \ {0} : k = Len(t)
        BY <4>1
      <4>3. u[k + 1] = t[k] /\ Len(u) = k + 1
        BY <3>5, <4>2
      <4>4. LastOk(u)
        BY <4>1, <4>2, <4>3
      <4>5. QED
        BY <3>4, <4>4
    <3>8. QED
      BY <3>6, <3>7
  <2>3. QED
    BY <2>1, <2>2
<1> HIDE DEF S
<1>4. L \in Nat
  BY <1>1
<1>5. \A j \in 0 .. L : j \in S
  BY <1>3, <1>4, DownInduction
<1>6. 0 \in S /\ 0 # L
  BY <1>1, <1>5
<1>7. LastOk(f[0])
  BY <1>6 DEF S
<1>8. QED
  BY <1>1, <1>7

-----------------------------------------------------------------------------
(* The odometer.                                                           *)

\* tmp_length is what c costs.
LEMMA Measured ==
  ASSUME blocks \in LinkerBlocks, SlotsOk(w, blocks, Groups(blocks)), NEW c \in Combs(blocks)
  PROVE  Sum([n \in DOMAIN Cut(c) |-> w[Slot(c, Cut(c)[n])].length]) = Ahead(w, blocks, c)[0]
<1>1. \A n : Slot(c, Cut(c)[n]) = CombSlot(blocks, c, Cut(c)[n])
  BY DEF Slot, CombSlot, CombGroup, lb_count
<1>2. [n \in DOMAIN Cut(c) |-> w[Slot(c, Cut(c)[n])].length] = LengthsOn(w, blocks, c, Cut(c))
  BY <1>1, Zenon DEF LengthsOn
<1>3. Cut(c) = CutFrom(blocks, c)[0]
  BY ModelCut
<1>4. QED
  BY <1>2, <1>3, CutSums, SumIsTotal

\* No comb that the odometer shows walks past the image.
LEMMA EndsThere ==
  ASSUME blocks \in LinkerBlocks, NEW c \in Combs(blocks)
  PROVE  End(c) = lb_count
<1>1. PICK s : s = CutFrom(blocks, c)[0]
  OBVIOUS
<1>2. s[Len(s)] + c[s[Len(s)]] + 1 = Len(blocks)
  BY <1>1, CutEnds
<1>3. Cut(c) = s
  BY <1>1, ModelCut
<1>4. QED
  BY <1>2, <1>3 DEF End, lb_count

\* d comes before c.
Before(b, d, c) ==
  \E k \in 0 .. Len(b) - 1 : d[k] < c[k] /\ \A n \in 0 .. Len(b) - 1 : n < k => d[n] = c[n]

\* Two combs differ in a first digit.
LEMMA FirstDifference ==
  ASSUME NEW b \in LinkerBlocks, NEW c \in Combs(b), NEW d \in Combs(b), d # c
  PROVE  \E k \in 0 .. Len(b) - 1 : d[k] # c[k] /\ \A n \in 0 .. Len(b) - 1 : n < k => d[n] = c[n]
<1>1. PICK L \in Nat \ {0} : L = Len(b)
  BY BlocksAre
<1>2. c \in [0 .. L - 1 -> Nat] /\ d \in [0 .. L - 1 -> Nat]
  BY <1>1 DEF Combs
<1> DEFINE S == {n \in 0 .. L - 1 : d[n] # c[n]}
<1>3. S \in SUBSET Nat /\ S # {}
  BY <1>2
<1>4. Min(S) \in S /\ \A y \in S : Min(S) <= y
  <2> HIDE DEF S
  <2>1. QED
    BY <1>3, MinIs
<1>5. PICK k : k = Min(S)
  OBVIOUS
<1>6. k \in S /\ \A y \in S : k <= y
  BY <1>4, <1>5
<1>7. k \in 0 .. L - 1 /\ d[k] # c[k]
  BY <1>6
<1>8. ASSUME NEW n \in 0 .. L - 1, n < k PROVE d[n] = c[n]
  <2>1. ~ (k <= n)
    BY <1>7, <1>8
  <2>2. n \notin S
    BY <1>6, <2>1
  <2>3. QED
    BY <2>2
<1>9. QED
  BY <1>1, <1>7, <1>8

\* Behind a comb that is as large as it gets from digit j on there is nothing
\* that agrees with it before.
LEMMA NothingBehind ==
  ASSUME NEW b \in LinkerBlocks, NEW c \in Combs(b), NEW d \in Combs(b), NEW j \in Nat,
         \A n \in 0 .. Len(b) - 1 : n >= j => c[n] + 1 = Len(b) - n,
         \A n \in 0 .. Len(b) - 1 : n < j => d[n] = c[n]
  PROVE  Before(b, d, c) \/ d = c
<1> SUFFICES ASSUME d # c PROVE Before(b, d, c)
  OBVIOUS
<1>1. PICK k \in 0 .. Len(b) - 1 : d[k] # c[k] /\ \A n \in 0 .. Len(b) - 1 : n < k => d[n] = c[n]
  BY FirstDifference
<1>2. PICK L \in Nat \ {0} : L = Len(b)
  BY BlocksAre
<1>3. k >= j
  BY <1>1, <1>2
<1>4. c[k] + 1 = L - k
  BY <1>1, <1>2, <1>3
<1>5. c[k] \in Nat /\ d[k] \in Nat /\ k + d[k] + 1 <= L
  BY <1>1, <1>2 DEF Combs
<1>6. d[k] < c[k]
  BY <1>1, <1>2, <1>4, <1>5
<1>7. QED
  BY <1>1, <1>6 DEF Before

NextComb(b, c, j) == [n \in 0 .. Len(b) - 1 |-> IF n < j THEN c[n] ELSE IF n = j THEN c[n] + 1 ELSE 0]

\* The odometer skips no comb.
LEMMA Successor ==
  ASSUME NEW b \in LinkerBlocks, NEW c \in Combs(b), NEW j \in 0 .. Len(b) - 1,
         c[j] + 1 # Len(b) - j, \A n \in 0 .. Len(b) - 1 : n > j => c[n] + 1 = Len(b) - n,
         NEW e, e = NextComb(b, c, j)
  PROVE  /\ e \in Combs(b)
         /\ \A d \in Combs(b) : Before(b, d, e) => Before(b, d, c) \/ d = c
<1>1. PICK L \in Nat \ {0} : L = Len(b)
  BY BlocksAre
<1>2. \A n \in 0 .. L - 1 : c[n] \in Nat /\ n + c[n] + 1 <= L
  BY <1>1 DEF Combs
<1>3. e = [n \in 0 .. L - 1 |-> IF n < j THEN c[n] ELSE IF n = j THEN c[n] + 1 ELSE 0]
  BY <1>1 DEF NextComb
<1>4. \A n \in 0 .. L - 1 : e[n] \in Nat /\ n + e[n] + 1 <= L
  <2> SUFFICES ASSUME NEW n \in 0 .. L - 1 PROVE e[n] \in Nat /\ n + e[n] + 1 <= L
    OBVIOUS
  <2>1. c[n] \in Nat /\ n + c[n] + 1 <= L /\ j \in Nat /\ (n = j => c[n] + 1 # L - n)
    BY <1>1, <1>2
  <2>2. e[n] = IF n < j THEN c[n] ELSE IF n = j THEN c[n] + 1 ELSE 0
    BY <1>3
  <2>3. QED
    BY <2>1, <2>2
<1>5. e \in Combs(b)
  BY <1>1, <1>3, <1>4 DEF Combs
<1>6. ASSUME NEW d \in Combs(b), Before(b, d, e) PROVE Before(b, d, c) \/ d = c
  <2>1. PICK k \in 0 .. L - 1 : d[k] < e[k] /\ \A n \in 0 .. L - 1 : n < k => d[n] = e[n]
    BY <1>1, <1>6 DEF Before
  <2>2. d[k] \in Nat
    BY <1>1 DEF Combs
  <2>3. j \in 0 .. L - 1 /\ e[k] = (IF k < j THEN c[k] ELSE IF k = j THEN c[k] + 1 ELSE 0)
    BY <1>1, <1>3
  <2>4. k <= j
    BY <2>1, <2>2, <2>3
  <2>5. \A n \in 0 .. L - 1 : n < k => d[n] = c[n]
    <3> SUFFICES ASSUME NEW n \in 0 .. L - 1, n < k PROVE d[n] = c[n]
      OBVIOUS
    <3>1. n < j
      BY <2>3, <2>4
    <3>2. QED
      BY <1>3, <2>1, <3>1
  <2>6. CASE k < j
    <3>1. d[k] < c[k]
      BY <2>1, <2>3, <2>6
    <3>2. QED
      BY <1>1, <2>5, <3>1 DEF Before
  <2>7. CASE k = j
    <3>1. d[k] < c[k] + 1 /\ c[k] \in Nat
      BY <1>2, <2>1, <2>3, <2>7
    <3>2. CASE d[k] < c[k]
      BY <1>1, <2>5, <3>2 DEF Before
    <3>3. CASE d[k] = c[k]
      <4>1. j + 1 \in Nat
        BY <2>3
      <4>2. \A n \in 0 .. Len(b) - 1 : n >= j + 1 => c[n] + 1 = Len(b) - n
        BY <1>1, <2>3
      <4>3. \A n \in 0 .. Len(b) - 1 : n < j + 1 => d[n] = c[n]
        BY <1>1, <2>3, <2>5, <2>7, <3>3
      <4>4. QED
        BY <4>1, <4>2, <4>3, NothingBehind
    <3>4. QED
      BY <2>2, <3>1, <3>2, <3>3
  <2>8. QED
    BY <2>3, <2>4, <2>6, <2>7
<1>7. QED
  BY <1>5, <1>6

\* When all digits wrap there is no other comb left.
LEMMA LastOfAll ==
  ASSUME NEW b \in LinkerBlocks, NEW c \in Combs(b), \A n \in 0 .. Len(b) - 1 : c[n] + 1 = Len(b) - n
  PROVE  \A d \in Combs(b) : Before(b, d, c) \/ d = c
<1> SUFFICES ASSUME NEW d \in Combs(b) PROVE Before(b, d, c) \/ d = c
  OBVIOUS
<1>1. 0 \in Nat /\ \A n \in 0 .. Len(b) - 1 : ~ (n < 0)
  OBVIOUS
<1>2. \A n \in 0 .. Len(b) - 1 : n < 0 => d[n] = c[n]
  BY <1>1
<1>3. \A n \in 0 .. Len(b) - 1 : n >= 0 => c[n] + 1 = Len(b) - n
  OBVIOUS
<1>4. QED
  BY <1>1, <1>2, <1>3, NothingBehind

FirstComb(b) == [j \in 0 .. Len(b) - 1 |-> 0]

\* It starts with the first.
LEMMA FirstOfAll ==
  ASSUME NEW b \in LinkerBlocks
  PROVE  FirstComb(b) \in Combs(b) /\ \A d \in Combs(b) : ~ Before(b, d, FirstComb(b))
<1>1. PICK L \in Nat \ {0} : L = Len(b)
  BY BlocksAre
<1>2. FirstComb(b) = [j \in 0 .. L - 1 |-> 0]
  BY <1>1 DEF FirstComb
<1>3. FirstComb(b) \in Combs(b)
  BY <1>1, <1>2 DEF Combs
<1>4. ASSUME NEW d \in Combs(b), Before(b, d, FirstComb(b)) PROVE FALSE
  <2>1. PICK k \in 0 .. L - 1 : d[k] < FirstComb(b)[k]
    BY <1>1, <1>4 DEF Before
  <2>2. d[k] \in Nat /\ FirstComb(b)[k] = 0
    BY <1>1, <1>2 DEF Combs
  <2>3. QED
    BY <2>1, <2>2
<1>5. QED
  BY <1>3, <1>4

-----------------------------------------------------------------------------
(* The best way to cut.                                                    *)

Least(sums) == CHOOSE s \in sums : \A t \in sums : s <= t

LEMMA LeastIs ==
  ASSUME NEW sums \in SUBSET Nat, sums # {}
  PROVE  Least(sums) \in sums /\ \A t \in sums : Least(sums) <= t
<1>1. \E s \in sums : \A t \in sums : s <= t
  BY MinIs, Zenon
<1>2. QED
  BY <1>1, Zenon DEF Least

WaysFrom(v, b, j) == {x \in DOMAIN v : FirstOf(b, x) = j}
SumsFrom(F, v, b, j) == {v[x].length + F[BehindOf(b, x)] : x \in WaysFrom(v, b, j)}

BestIs(F, v, b) ==
  F = [j \in 0 .. Len(b) |-> IF j = Len(b) THEN 0 ELSE Least(SumsFrom(F, v, b, j))]

Best(v, b) == CHOOSE F : BestIs(F, v, b)

\* A slot that starts with j leads on.
LEMMA WayFrom ==
  ASSUME NEW b \in LinkerBlocks, NEW v, SlotsOk(v, b, Groups(b)), NEW j \in 0 .. Len(b) - 1,
         NEW x \in WaysFrom(v, b, j)
  PROVE  /\ v[x] \in Works /\ v[x].length \in Nat /\ BehindOf(b, x) \in 0 .. Len(b) /\ j < BehindOf(b, x)
         /\ \E g \in Nat : /\ g < Groups(b) /\ Filled(b, g) /\ x \in Group(g)
                           /\ Starts(b, g) = j /\ Stops(b, g) = BehindOf(b, x)
<1>1. x \in Slots(b, Groups(b)) /\ v \in [Slots(b, Groups(b)) -> Works] /\ FirstOf(b, x) = j
  BY DEF WaysFrom, SlotsOk
<1>2. PICK g \in Nat : g < Groups(b) /\ x \in Group(g) /\ Filled(b, g)
  BY <1>1, GroupOfSlot, GroupsAre
<1>3. FirstOf(b, x) = Starts(b, g) /\ BehindOf(b, x) = Stops(b, g)
  BY <1>2, BlocksAre, InGroup
<1>4. Starts(b, g) \in Nat /\ Stops(b, g) \in Nat /\ Starts(b, g) < Stops(b, g) /\ Stops(b, g) <= Len(b)
  BY <1>2, FilledRun
<1>5. v[x] \in Works /\ v[x].length \in Nat
  <2>1. v[x] \in Works
    BY <1>1
  <2>2. QED
    BY <2>1 DEF Works
<1>6. BehindOf(b, x) \in 0 .. Len(b) /\ j < BehindOf(b, x)
  BY <1>1, <1>3, <1>4, BlocksAre
<1>7. QED
  BY <1>1, <1>2, <1>3, <1>5, <1>6

LEMMA SumsAre ==
  ASSUME NEW b \in LinkerBlocks, NEW v, SlotsOk(v, b, Groups(b)), NEW j \in 0 .. Len(b) - 1,
         NEW F \in [0 .. Len(b) -> Nat]
  PROVE  SumsFrom(F, v, b, j) \in SUBSET Nat /\ SumsFrom(F, v, b, j) # {}
<1>1. ASSUME NEW x \in WaysFrom(v, b, j) PROVE v[x].length + F[BehindOf(b, x)] \in Nat
  <2>1. PICK m \in Nat, n \in Nat : m = v[x].length /\ n = F[BehindOf(b, x)]
    BY <1>1, WayFrom
  <2>2. m + n \in Nat
    BY <2>1
  <2>3. QED
    BY <2>1, <2>2
<1>2. WaysFrom(v, b, j) # {}
  <2>1. PICK c : c = FirstComb(b) /\ c \in Combs(b)
    BY FirstOfAll
  <2>2. CombSlot(b, c, j) \in DOMAIN v
    BY <2>1, CombSlotIs
  <2>3. PICK g : g = CombGroup(b, c, j) /\ g \in Nat /\ Starts(b, g) = j /\ CombSlot(b, c, j) \in Group(g)
    BY <2>1, CombIs
  <2>4. FirstOf(b, CombSlot(b, c, j)) = j
    BY <2>3, BlocksAre, InGroup
  <2>5. CombSlot(b, c, j) \in WaysFrom(v, b, j)
    BY <2>2, <2>4 DEF WaysFrom
  <2>6. QED
    BY <2>5
<1>3. QED
  BY <1>1, <1>2 DEF SumsFrom

\* The reference of Shortest is defined.
LEMMA BestExists ==
  ASSUME NEW b \in LinkerBlocks, NEW v, SlotsOk(v, b, Groups(b))
  PROVE  BestIs(Best(v, b), v, b) /\ Best(v, b) \in [0 .. Len(b) -> Nat]
<1>1. PICK L \in Nat \ {0} : L = Len(b)
  BY BlocksAre
<1>2. PICK step : step = [p \in (0 .. L) \X [0 .. L -> Nat] |->
                            IF p[1] = L THEN 0 ELSE Least(SumsFrom(p[2], v, b, p[1]))]
  OBVIOUS
<1>3. ASSUME NEW j \in 0 .. L, NEW F \in [0 .. L -> Nat]
      PROVE  /\ step[<<j, F>>] = IF j = L THEN 0 ELSE Least(SumsFrom(F, v, b, j))
             /\ step[<<j, F>>] \in Nat
  <2>1. <<j, F>> \in (0 .. L) \X [0 .. L -> Nat] /\ <<j, F>>[1] = j /\ <<j, F>>[2] = F
    OBVIOUS
  <2>2. step[<<j, F>>] = IF <<j, F>>[1] = L THEN 0 ELSE Least(SumsFrom(<<j, F>>[2], v, b, <<j, F>>[1]))
    BY <1>2, <2>1, Zenon
  <2>3. step[<<j, F>>] = IF j = L THEN 0 ELSE Least(SumsFrom(F, v, b, j))
    BY <2>1, <2>2, Zenon
  <2>4. CASE j = L
    BY <2>3, <2>4
  <2>5. CASE j # L
    <3>1. j \in 0 .. Len(b) - 1 /\ F \in [0 .. Len(b) -> Nat]
      BY <1>1, <2>5
    <3>2. SumsFrom(F, v, b, j) \in SUBSET Nat /\ SumsFrom(F, v, b, j) # {}
      BY <3>1, SumsAre
    <3>3. Least(SumsFrom(F, v, b, j)) \in Nat
      BY <3>2, LeastIs
    <3>4. QED
      BY <2>3, <2>5, <3>3
  <2>6. QED
    BY <2>3, <2>4, <2>5
<1>4. Backward(step, L, Nat)
  <2>1. step \in [(0 .. L) \X [0 .. L -> Nat] -> Nat]
    <3>1. \A p \in (0 .. L) \X [0 .. L -> Nat] : p = <<p[1], p[2]>> /\ p[1] \in 0 .. L /\ p[2] \in [0 .. L -> Nat]
      OBVIOUS
    <3>2. \A p \in (0 .. L) \X [0 .. L -> Nat] : step[p] \in Nat
      BY <1>3, <3>1
    <3>3. QED
      BY <1>2, <3>2
  <2>2. ASSUME NEW j \in 0 .. L, NEW F \in [0 .. L -> Nat], NEW G \in [0 .. L -> Nat],
               \A k \in 0 .. L : k > j => F[k] = G[k]
        PROVE  step[<<j, F>>] = step[<<j, G>>]
    <3>1. CASE j = L
      BY <1>3, <3>1
    <3>2. CASE j # L
      <4>1. j \in 0 .. Len(b) - 1
        BY <1>1, <3>2
      <4>2. ASSUME NEW x \in WaysFrom(v, b, j) PROVE F[BehindOf(b, x)] = G[BehindOf(b, x)]
        <5>1. PICK n \in 0 .. L : n = BehindOf(b, x) /\ n > j
          BY <1>1, <4>1, WayFrom
        <5>2. QED
          BY <2>2, <5>1
      <4>3. SumsFrom(F, v, b, j) = SumsFrom(G, v, b, j)
        BY <4>2, Zenon DEF SumsFrom
      <4>4. /\ step[<<j, F>>] = Least(SumsFrom(F, v, b, j))
            /\ step[<<j, G>>] = Least(SumsFrom(G, v, b, j))
        BY <1>3, <3>2
      <4>5. QED
        BY <4>3, <4>4
    <3>3. QED
      BY <3>1, <3>2
  <2>3. QED
    BY <2>1, <2>2 DEF Backward
<1>5. PICK F \in [0 .. L -> Nat] : \A j \in 0 .. L : F[j] = step[<<j, F>>]
  <2>1. PICK N : N = Nat
    OBVIOUS
  <2>2. L \in Nat /\ 0 \in N /\ Backward(step, L, N)
    BY <1>1, <1>4, <2>1
  <2>3. \E F \in [0 .. L -> N] : \A j \in 0 .. L : F[j] = step[<<j, F>>]
    BY <2>2, DownExists
  <2>4. QED
    BY <2>1, <2>3
<1>6. BestIs(F, v, b)
  <2>1. \A j \in 0 .. L : F[j] = IF j = L THEN 0 ELSE Least(SumsFrom(F, v, b, j))
    BY <1>3, <1>5
  <2>2. F = [j \in 0 .. L |-> F[j]]
    BY <1>5
  <2>3. F = [j \in 0 .. L |-> IF j = L THEN 0 ELSE Least(SumsFrom(F, v, b, j))]
    BY <2>1, <2>2, Zenon
  <2>4. QED
    BY <1>1, <2>3 DEF BestIs
<1>7. BestIs(Best(v, b), v, b)
  BY <1>6, Zenon DEF Best
<1>8. PICK B : B = Best(v, b)
  OBVIOUS
<1>9. B = [j \in 0 .. L |-> IF j = L THEN 0 ELSE Least(SumsFrom(B, v, b, j))]
  BY <1>1, <1>7, <1>8 DEF BestIs
<1> DEFINE S == {j \in 0 .. L : B[j] \in Nat}
<1>10. ASSUME NEW j \in 0 .. L, \A k \in 0 .. L : k > j => k \in S PROVE j \in S
  <2>1. CASE j = L
    BY <1>9, <2>1
  <2>2. CASE j # L
    <3>1. j \in 0 .. Len(b) - 1
      BY <1>1, <2>2
    <3>2. PICK G : G = [k \in 0 .. L |-> IF k > j THEN B[k] ELSE 0]
      OBVIOUS
    <3>3. G \in [0 .. Len(b) -> Nat]
      BY <1>1, <1>10, <3>2
    <3>4. ASSUME NEW x \in WaysFrom(v, b, j) PROVE B[BehindOf(b, x)] = G[BehindOf(b, x)]
      <4>1. PICK n \in 0 .. L : n = BehindOf(b, x) /\ n > j
        BY <1>1, <3>1, WayFrom
      <4>2. QED
        BY <3>2, <4>1
    <3>5. SumsFrom(B, v, b, j) = SumsFrom(G, v, b, j)
      BY <3>4, Zenon DEF SumsFrom
    <3>6. Least(SumsFrom(G, v, b, j)) \in Nat
      <4>1. SumsFrom(G, v, b, j) \in SUBSET Nat /\ SumsFrom(G, v, b, j) # {}
        BY <3>1, <3>3, SumsAre
      <4>2. QED
        BY <4>1, LeastIs
    <3>7. B[j] = Least(SumsFrom(B, v, b, j))
      BY <1>9, <2>2
    <3>8. QED
      BY <3>5, <3>6, <3>7
  <2>3. QED
    BY <2>1, <2>2
<1> HIDE DEF S
<1>11. \A j \in 0 .. L : j \in S
  BY <1>1, <1>10, DownInduction
<1>12. \A j \in 0 .. L : B[j] \in Nat
  BY <1>11 DEF S
<1>13. B \in [0 .. L -> Nat]
  BY <1>9, <1>12
<1>14. QED
  BY <1>1, <1>7, <1>8, <1>13

\* It is no longer than any way to begin, and as long as one.
LEMMA BestAt ==
  ASSUME NEW b \in LinkerBlocks, NEW v, SlotsOk(v, b, Groups(b)), NEW F, F = Best(v, b)
  PROVE  /\ F \in [0 .. Len(b) -> Nat] /\ F[Len(b)] = 0
         /\ \A j \in 0 .. Len(b) - 1 :
              /\ \A x \in WaysFrom(v, b, j) : F[j] <= v[x].length + F[BehindOf(b, x)]
              /\ \E x \in WaysFrom(v, b, j) : F[j] = v[x].length + F[BehindOf(b, x)]
<1>1. PICK L \in Nat \ {0} : L = Len(b)
  BY BlocksAre
<1>2. F \in [0 .. L -> Nat] /\ F = [j \in 0 .. L |-> IF j = L THEN 0 ELSE Least(SumsFrom(F, v, b, j))]
  BY <1>1, BestExists DEF BestIs
<1>3. ASSUME NEW j \in 0 .. L - 1
      PROVE  /\ \A x \in WaysFrom(v, b, j) : F[j] <= v[x].length + F[BehindOf(b, x)]
             /\ \E x \in WaysFrom(v, b, j) : F[j] = v[x].length + F[BehindOf(b, x)]
  <2>1. j \in 0 .. L /\ j # L /\ j \in 0 .. Len(b) - 1
    BY <1>1
  <2>2. F[j] = Least(SumsFrom(F, v, b, j))
    BY <1>2, <2>1
  <2>3. SumsFrom(F, v, b, j) \in SUBSET Nat /\ SumsFrom(F, v, b, j) # {}
    BY <1>1, <1>2, <2>1, SumsAre
  <2>4. F[j] \in SumsFrom(F, v, b, j) /\ \A t \in SumsFrom(F, v, b, j) : F[j] <= t
    BY <2>2, <2>3, LeastIs
  <2>5. QED
    BY <2>4 DEF SumsFrom
<1>4. F[L] = 0
  BY <1>2
<1>5. QED
  BY <1>1, <1>2, <1>3, <1>4

\* No way to cut is shorter than the reference.
LEMMA BestIsLow ==
  ASSUME NEW b \in LinkerBlocks, NEW v, SlotsOk(v, b, Groups(b)), NEW c \in Combs(b)
  PROVE  Best(v, b)[0] <= Ahead(v, b, c)[0]
<1>0. PICK L \in Nat \ {0} : L = Len(b)
  BY BlocksAre
<1>1. PICK B, F : B = Best(v, b) /\ F = Ahead(v, b, c)
  OBVIOUS
<1>2. /\ B \in [0 .. L -> Nat] /\ B[L] = 0
      /\ \A j \in 0 .. L - 1 : \A x \in WaysFrom(v, b, j) : B[j] <= v[x].length + B[BehindOf(b, x)]
  BY <1>0, <1>1, BestAt
<1>3. /\ F \in [0 .. L -> Nat] /\ F[L] = 0
      /\ \A j \in 0 .. L - 1 : F[j] = v[CombSlot(b, c, j)].length + F[j + c[j] + 1]
  BY <1>0, <1>1, AheadExists DEF AheadIs
<1> DEFINE S == {j \in 0 .. L : B[j] <= F[j]}
<1>4. ASSUME NEW j \in 0 .. L, \A k \in 0 .. L : k > j => k \in S PROVE j \in S
  <2>1. CASE j = L
    BY <1>2, <1>3, <2>1
  <2>2. CASE j # L
    <3>1. j \in 0 .. L - 1 /\ j \in 0 .. Len(b) - 1
      BY <1>0, <2>2
    <3>2. PICK n \in 0 .. L : n = j + c[j] + 1 /\ n > j
      BY <1>0, <3>1, CombIs
    <3>3. B[n] <= F[n]
      BY <1>4, <3>2
    <3>4. PICK x : x = CombSlot(b, c, j)
      OBVIOUS
    <3>5. x \in WaysFrom(v, b, j) /\ BehindOf(b, x) = n
      <4>1. PICK g : g = CombGroup(b, c, j)
        OBVIOUS
      <4>2. g \in Nat /\ Starts(b, g) = j /\ Stops(b, g) = n /\ x \in Group(g)
        BY <3>1, <3>2, <3>4, <4>1, CombIs
      <4>3. FirstOf(b, x) = j /\ BehindOf(b, x) = n
        BY <4>2, BlocksAre, InGroup
      <4>4. x \in DOMAIN v
        BY <3>1, <3>4, CombSlotIs
      <4>5. QED
        BY <4>3, <4>4 DEF WaysFrom
    <3>6. v[x].length \in Nat
      BY <3>1, <3>4, CombSlotIs
    <3>7. B[j] <= v[x].length + B[n] /\ F[j] = v[x].length + F[n]
      BY <1>2, <1>3, <3>1, <3>2, <3>4, <3>5
    <3>8. PICK m \in Nat, p \in Nat, q \in Nat : m = v[x].length /\ p = B[n] /\ q = F[n]
      BY <1>2, <1>3, <3>2, <3>6
    <3>9. B[j] \in Nat /\ F[j] \in Nat
      BY <1>2, <1>3
    <3>10. B[j] <= F[j]
      BY <3>3, <3>7, <3>8, <3>9
    <3>11. QED
      BY <3>10
  <2>3. QED
    BY <2>1, <2>2
<1> HIDE DEF S
<1>5. \A j \in 0 .. L : j \in S
  BY <1>0, <1>4, DownInduction
<1>6. 0 \in S
  BY <1>0, <1>5
<1>7. QED
  BY <1>1, <1>6 DEF S

\* A way to cut is as short, as the first slot of every group is its least.
LEMMA BestIsReached ==
  ASSUME NEW b \in LinkerBlocks, NEW v, SlotsOk(v, b, Groups(b)), OrderedBefore(v, b, Groups(b))
  PROVE  \E c \in Combs(b) : Ahead(v, b, c)[0] <= Best(v, b)[0]
<1>0. PICK L \in Nat \ {0} : L = Len(b)
  BY BlocksAre
<1>1. PICK B : B = Best(v, b)
  OBVIOUS
<1>2. /\ B \in [0 .. L -> Nat] /\ B[L] = 0
      /\ \A j \in 0 .. L - 1 : \E x \in WaysFrom(v, b, j) : B[j] = v[x].length + B[BehindOf(b, x)]
  BY <1>0, <1>1, BestAt
<1>3. PICK xs : xs = [j \in 0 .. L - 1 |-> CHOOSE x \in WaysFrom(v, b, j) : B[j] = v[x].length + B[BehindOf(b, x)]]
  OBVIOUS
<1>4. \A j \in 0 .. L - 1 : xs[j] \in WaysFrom(v, b, j) /\ B[j] = v[xs[j]].length + B[BehindOf(b, xs[j])]
  <2> SUFFICES ASSUME NEW j \in 0 .. L - 1
               PROVE  xs[j] \in WaysFrom(v, b, j) /\ B[j] = v[xs[j]].length + B[BehindOf(b, xs[j])]
    OBVIOUS
  <2>1. xs[j] = CHOOSE x \in WaysFrom(v, b, j) : B[j] = v[x].length + B[BehindOf(b, x)]
    BY <1>3
  <2>2. \E x \in WaysFrom(v, b, j) : B[j] = v[x].length + B[BehindOf(b, x)]
    BY <1>2
  <2>3. QED
    BY <2>1, <2>2, Zenon
<1>5. PICK c : c = [j \in 0 .. L - 1 |-> BehindOf(b, xs[j]) - j - 1]
  OBVIOUS
<1>6. ASSUME NEW j \in 0 .. L - 1
      PROVE  /\ c[j] \in Nat /\ j + c[j] + 1 = BehindOf(b, xs[j]) /\ j + c[j] + 1 \in 0 .. L /\ j < j + c[j] + 1
  <2>1. j \in 0 .. Len(b) - 1 /\ xs[j] \in WaysFrom(v, b, j)
    BY <1>0, <1>4
  <2>2. PICK n \in 0 .. L : n = BehindOf(b, xs[j]) /\ j < n
    BY <1>0, <2>1, WayFrom
  <2>3. c[j] = n - j - 1
    BY <1>5, <2>2
  <2>4. QED
    BY <2>2, <2>3
<1>7. c \in Combs(b)
  <2>1. c \in [0 .. L - 1 -> Nat]
    BY <1>5, <1>6
  <2>2. \A j \in 0 .. L - 1 : j + c[j] + 1 <= L
    BY <1>6
  <2>3. QED
    BY <1>0, <2>1, <2>2 DEF Combs
<1>8. PICK F : F = Ahead(v, b, c)
  OBVIOUS
<1>9. /\ F \in [0 .. L -> Nat] /\ F[L] = 0
      /\ \A j \in 0 .. L - 1 : F[j] = v[CombSlot(b, c, j)].length + F[j + c[j] + 1]
  BY <1>0, <1>7, <1>8, AheadExists DEF AheadIs
<1>10. ASSUME NEW j \in 0 .. L - 1
       PROVE  /\ v[CombSlot(b, c, j)].length <= v[xs[j]].length
              /\ v[CombSlot(b, c, j)].length \in Nat /\ v[xs[j]].length \in Nat
  <2>1. j \in 0 .. Len(b) - 1 /\ xs[j] \in WaysFrom(v, b, j)
    BY <1>0, <1>4
  <2>2. PICK g \in Nat : /\ g < Groups(b) /\ Filled(b, g) /\ xs[j] \in Group(g)
                         /\ Starts(b, g) = j /\ Stops(b, g) = BehindOf(b, xs[j])
    BY <2>1, WayFrom
  <2>3. g \div L = c[j] /\ g % L = j
    <3>1. g % L = j /\ (g % L) + g \div L + 1 = j + c[j] + 1
      BY <1>0, <1>6, <2>2 DEF Starts, Stops
    <3>2. g % L \in Nat /\ g \div L \in Nat
      BY Partition
    <3>3. PICK q \in Nat, r \in Nat : q = g \div L /\ r = g % L
      BY <3>2
    <3>4. r = j /\ r + q + 1 = j + c[j] + 1 /\ c[j] \in Nat
      BY <1>6, <3>1, <3>3
    <3>5. QED
      BY <3>3, <3>4
  <2>4. g = CombGroup(b, c, j)
    <3>1. g = (g \div L) * L + (g % L)
      BY Partition
    <3>2. QED
      BY <1>0, <2>3, <3>1 DEF CombGroup
  <2>5. HeadLeast(v, g)
    BY <2>2 DEF OrderedBefore
  <2>6. v[g * Items].length <= v[xs[j]].length
    BY <2>2, <2>5 DEF HeadLeast
  <2>7. v[CombSlot(b, c, j)].length \in Nat
    BY <1>7, <2>1, CombSlotIs
  <2>8. v[xs[j]].length \in Nat
    BY <2>1, WayFrom
  <2>9. QED
    BY <2>4, <2>6, <2>7, <2>8 DEF CombSlot
<1> DEFINE S == {j \in 0 .. L : F[j] <= B[j]}
<1>11. ASSUME NEW j \in 0 .. L, \A k \in 0 .. L : k > j => k \in S PROVE j \in S
  <2>1. CASE j = L
    BY <1>2, <1>9, <2>1
  <2>2. CASE j # L
    <3>1. j \in 0 .. L - 1
      BY <2>2
    <3>2. PICK n \in 0 .. L : n = j + c[j] + 1 /\ n > j /\ n = BehindOf(b, xs[j])
      BY <1>6, <3>1
    <3>3. F[n] <= B[n]
      BY <1>11, <3>2
    <3>4. PICK m \in Nat, k \in Nat : m = v[CombSlot(b, c, j)].length /\ k = v[xs[j]].length /\ m <= k
      BY <1>10, <3>1
    <3>5. PICK p \in Nat, q \in Nat : p = B[n] /\ q = F[n]
      BY <1>2, <1>9, <3>2
    <3>6. F[j] = m + q /\ B[j] = k + p
      BY <1>4, <1>9, <3>1, <3>2, <3>4, <3>5
    <3>7. q <= p
      BY <3>3, <3>5
    <3>8. m + q <= k + p
      BY <3>4, <3>7
    <3>9. QED
      BY <3>6, <3>8
  <2>3. QED
    BY <2>1, <2>2
<1> HIDE DEF S
<1>12. \A j \in 0 .. L : j \in S
  BY <1>0, <1>11, DownInduction
<1>13. 0 \in S
  BY <1>0, <1>12
<1>14. F[0] <= B[0]
  BY <1>13 DEF S
<1>15. QED
  BY <1>1, <1>7, <1>8, <1>14

-----------------------------------------------------------------------------
(* The image as one block.                                                 *)

LEMMA WholeIs ==
  ASSUME NEW b \in LinkerBlocks
  PROVE  OffsetIn(b, 0) = 0 /\ OffsetIn(b, Len(b)) = Sum(b) /\ Sum(b) \in Nat
<1>1. PICK L \in Nat \ {0} : L = Len(b) /\ b \in Seq(Nat) /\ Positive(b)
  BY BlocksAre
<1>2. SubSeq(b, 1, Len(b)) = b
  BY <1>1
<1>3. OffsetIn(b, 0) = 0
  <2>1. 0 \in Nat /\ 0 + 1 <= Len(b)
    BY <1>1
  <2>2. QED
    BY <1>1, <2>1, OffsetNext
<1>4. OffsetIn(b, L) \in Nat
  <2>1. 0 \in Nat /\ 0 < L /\ L <= Len(b)
    BY <1>1
  <2>2. QED
    BY <1>1, <2>1, OffsetsRise
<1>5. QED
  BY <1>1, <1>2, <1>3, <1>4 DEF OffsetIn

LEMMA StaticIs ==
  ASSUME NEW b \in LinkerBlocks
  PROVE  StaticLength(Sum(b)) \in Nat
<1>1. PICK n \in Nat, m \in Nat : n = Sum(b) /\ m = ByteBits /\ m >= 1
  BY WholeIs, ByteBitsIs
<1>2. (m + 1) * n \in Nat
  OBVIOUS
<1>3. 1 + 2 + (m + 1) * n + (m - 1) \in Nat
  BY <1>1, <1>2
<1>4. QED
  BY <1>1, <1>3 DEF StaticLength

\* One of the ways to cut is not to.
LEMMA OneBlock ==
  ASSUME NEW b \in LinkerBlocks, NEW v, SlotsOk(v, b, Groups(b)), OrderedBefore(v, b, Groups(b))
  PROVE  \E c \in Combs(b) : Ahead(v, b, c)[0] <= StaticLength(Sum(b))
<1>1. PICK L \in Nat \ {0} : L = Len(b)
  BY BlocksAre
<1>2. PICK c : c = [j \in 0 .. L - 1 |-> IF j = 0 THEN L - 1 ELSE 0]
  OBVIOUS
<1>3. c \in Combs(b)
  BY <1>1, <1>2 DEF Combs
<1>4. 0 \in 0 .. Len(b) - 1 /\ c[0] = L - 1
  BY <1>1, <1>2
<1>5. PICK g : g = CombGroup(b, c, 0)
  OBVIOUS
<1>6. /\ g \in Nat /\ g < Groups(b) /\ Starts(b, g) = 0 /\ Stops(b, g) = L /\ Filled(b, g)
  <2>1. 0 + c[0] + 1 = L
    BY <1>4
  <2>2. QED
    BY <1>3, <1>4, <1>5, <2>1, CombIs
<1>7. WorkSize(b, g) = Sum(b)
  BY <1>1, <1>6, WholeIs DEF WorkSize
<1>8. PICK x \in Group(g) : v[x].length <= StaticLength(Sum(b))
  <2>1. Packs(v, b, g)
    BY <1>6 DEF SlotsOk
  <2>2. QED
    BY <1>7, <2>1 DEF Packs
<1>9. v[g * Items].length <= v[x].length
  BY <1>6 DEF OrderedBefore, HeadLeast
<1>10. PICK F : F = Ahead(v, b, c)
  OBVIOUS
<1>11. /\ F \in [0 .. L -> Nat] /\ F[L] = 0 /\ F[0] = v[CombSlot(b, c, 0)].length + F[0 + c[0] + 1]
  BY <1>1, <1>3, <1>4, <1>10, AheadExists DEF AheadIs
<1>12. F[0] = v[g * Items].length /\ v[g * Items].length \in Nat
  <2>1. CombSlot(b, c, 0) = g * Items
    BY <1>5 DEF CombSlot
  <2>2. v[CombSlot(b, c, 0)].length \in Nat
    BY <1>3, <1>4, CombSlotIs
  <2>3. 0 + c[0] + 1 = L
    BY <1>4
  <2>4. QED
    BY <1>11, <2>1, <2>2, <2>3
<1>13. v[x].length \in Nat /\ StaticLength(Sum(b)) \in Nat
  <2>1. Group(g) \subseteq Slots(b, Groups(b))
    BY <1>6, SlotsOfGroup, GroupsAre
  <2>2. v[x] \in Works
    BY <2>1 DEF SlotsOk
  <2>3. v[x].length \in Nat
    BY <2>2 DEF Works
  <2>4. QED
    BY <2>3, StaticIs
<1>14. QED
  BY <1>3, <1>8, <1>9, <1>10, <1>12, <1>13

LEMMA DivisionRises ==
  ASSUME NEW m \in Nat \ {0}, NEW x \in Nat, NEW y \in Nat, x <= y
  PROVE  x \div m <= y \div m
<1> SUFFICES ASSUME x \div m > y \div m PROVE FALSE
  OBVIOUS
<1>1. PICK q \in Nat, r \in Nat : q = x \div m /\ r = x % m /\ x = q * m + r
  BY Partition
<1>2. PICK p \in Nat, s \in Nat : p = y \div m /\ s = y % m /\ y = p * m + s /\ s < m
  BY Partition
<1>3. q >= p + 1
  BY <1>1, <1>2
<1>4. (p + 1) * m <= q * m
  <2>1. m * (p + 1) <= m * q
    BY <1>3, ProductGrows
  <2>2. QED
    BY <2>1
<1>5. (p + 1) * m = p * m + m /\ p * m \in Nat /\ q * m \in Nat
  OBVIOUS
<1>6. QED
  BY <1>1, <1>2, <1>4, <1>5

\* Static literals of the whole image leave room for the stub.
LEMMA BufferIsLongEnough ==
  ASSUME NEW b \in LinkerBlocks, NEW p \in Nat, p <= StaticLength(Sum(b))
  PROVE  (p + ByteBits - 1) \div ByteBits + HdrLen <= 2 * Sum(b)
<1>1. PICK n \in Nat, m \in Nat \ {0}, h \in Nat : n = Sum(b) /\ m = ByteBits /\ h = HdrLen
  BY WholeIs, ByteBitsIs, BlockAssumption
<1>2. PICK s \in Nat : s = StaticLength(n) /\ p <= s
  BY <1>1, StaticIs
<1>3. h + (s + m - 1) \div m <= 2 * n
  <2>1. SubSeq(b, 1, Len(b)) = b
    BY BlocksAre
  <2>2. HdrLen + (StaticLength(Sum(SubSeq(b, 1, Len(b)))) + ByteBits - 1) \div ByteBits
          <= 2 * Sum(SubSeq(b, 1, Len(b)))
    BY BlockAssumption
  <2>3. QED
    BY <1>1, <1>2, <2>1, <2>2
<1>4. (p + m - 1) \div m <= (s + m - 1) \div m
  <2>1. p + m - 1 \in Nat /\ s + m - 1 \in Nat /\ p + m - 1 <= s + m - 1
    BY <1>2
  <2>2. QED
    BY <2>1, DivisionRises
<1>5. (p + m - 1) \div m \in Int /\ (s + m - 1) \div m \in Int
  OBVIOUS
<1>6. QED
  BY <1>1, <1>3, <1>4, <1>5

-----------------------------------------------------------------------------
(* Writing.                                                                *)

StartsOf(s) == [n \in DOMAIN s |-> s[n].start_offset]
EndsOf(s) == [n \in DOMAIN s |-> s[n].end_offset]
LengthsOf(s) == [n \in DOMAIN s |-> s[n].length]

LEMMA Appended ==
  ASSUME NEW s \in Seq(Works), NEW x \in Works, NEW t, t = Append(s, x)
  PROVE  /\ t \in Seq(Works)
         /\ StartsOf(t) = Append(StartsOf(s), x.start_offset)
         /\ EndsOf(t) = Append(EndsOf(s), x.end_offset)
         /\ LengthsOf(t) = Append(LengthsOf(s), x.length)
         /\ StartsOf(s) \in Seq(Nat) /\ EndsOf(s) \in Seq(Nat) /\ LengthsOf(s) \in Seq(Nat)
<1>1. PICK n \in Nat : n = Len(s) /\ DOMAIN s = 1 .. n /\ \A k \in 1 .. n : s[k] \in Works
  OBVIOUS
<1>2. /\ t \in Seq(Works) /\ Len(t) = n + 1 /\ DOMAIN t = 1 .. n + 1
      /\ t[n + 1] = x /\ \A k \in 1 .. n : t[k] = s[k]
  BY <1>1
<1>3. \A y \in Works : y.start_offset \in Nat /\ y.end_offset \in Nat /\ y.length \in Nat
  BY DEF Works
<1>4. StartsOf(s) \in [1 .. n -> Nat] /\ EndsOf(s) \in [1 .. n -> Nat] /\ LengthsOf(s) \in [1 .. n -> Nat]
  BY <1>1, <1>3 DEF StartsOf, EndsOf, LengthsOf
<1>5. StartsOf(s) \in Seq(Nat) /\ EndsOf(s) \in Seq(Nat) /\ LengthsOf(s) \in Seq(Nat)
  <2>1. \A a \in [1 .. n -> Nat] : a \in Seq(Nat)
    OBVIOUS
  <2>2. QED
    BY <1>4, <2>1, Zenon
<1>6. n + 1 \in Nat /\ \A k \in 1 .. n + 1 : t[k] \in Works
  BY <1>1, <1>2
<1>7. /\ StartsOf(t) \in [1 .. n + 1 -> Nat] /\ EndsOf(t) \in [1 .. n + 1 -> Nat]
      /\ LengthsOf(t) \in [1 .. n + 1 -> Nat]
  BY <1>2, <1>3, <1>6 DEF StartsOf, EndsOf, LengthsOf
<1>8. ASSUME NEW a \in [1 .. n -> Nat], NEW c \in [1 .. n + 1 -> Nat], NEW y \in Nat,
             c[n + 1] = y, \A k \in 1 .. n : c[k] = a[k]
      PROVE  c = Append(a, y)
  <2>1. a \in Seq(Nat) /\ c \in Seq(Nat) /\ Len(a) = n /\ Len(c) = n + 1
    OBVIOUS
  <2>2. PICK e : e = Append(a, y)
    OBVIOUS
  <2>3. e \in Seq(Nat) /\ Len(e) = n + 1 /\ e[n + 1] = y /\ \A k \in 1 .. n : e[k] = a[k]
    BY <2>1, <2>2
  <2>4. \A k \in 1 .. n + 1 : c[k] = e[k]
    <3> SUFFICES ASSUME NEW k \in 1 .. n + 1 PROVE c[k] = e[k]
      OBVIOUS
    <3>1. CASE k = n + 1
      BY <1>8, <2>3, <3>1
    <3>2. CASE k # n + 1
      <4>1. k \in 1 .. n
        BY <3>2
      <4>2. QED
        BY <1>8, <2>3, <4>1
    <3>3. QED
      BY <3>1, <3>2
  <2>5. c = e
    BY <1>6, <2>1, <2>3, <2>4, SameSequence
  <2>6. QED
    BY <2>2, <2>5
<1>9. n + 1 \in 1 .. n + 1 /\ \A k \in 1 .. n : k \in 1 .. n + 1
  OBVIOUS
<1>10. StartsOf(t) = Append(StartsOf(s), x.start_offset)
  <2>1. StartsOf(t)[n + 1] = x.start_offset /\ \A k \in 1 .. n : StartsOf(t)[k] = StartsOf(s)[k]
    BY <1>1, <1>2, <1>9 DEF StartsOf
  <2>2. QED
    BY <1>3, <1>4, <1>7, <1>8, <2>1
<1>11. EndsOf(t) = Append(EndsOf(s), x.end_offset)
  <2>1. EndsOf(t)[n + 1] = x.end_offset /\ \A k \in 1 .. n : EndsOf(t)[k] = EndsOf(s)[k]
    BY <1>1, <1>2, <1>9 DEF EndsOf
  <2>2. QED
    BY <1>3, <1>4, <1>7, <1>8, <2>1
<1>12. LengthsOf(t) = Append(LengthsOf(s), x.length)
  <2>1. LengthsOf(t)[n + 1] = x.length /\ \A k \in 1 .. n : LengthsOf(t)[k] = LengthsOf(s)[k]
    BY <1>1, <1>2, <1>9 DEF LengthsOf
  <2>2. QED
    BY <1>3, <1>4, <1>7, <1>8, <2>1
<1>13. QED
  BY <1>2, <1>5, <1>10, <1>11, <1>12

\* What is written joins up from the start of the image to end.
Chained(s, end) == s \in Seq(Works) /\ <<0>> \o EndsOf(s) = Append(StartsOf(s), end)

LEMMA NothingChained == Chained(<<>>, 0) /\ LengthsOf(<<>>) = <<>>
<1>1. EndsOf(<<>>) = <<>> /\ StartsOf(<<>>) = <<>> /\ LengthsOf(<<>>) = <<>>
  BY DEF EndsOf, StartsOf, LengthsOf
<1>2. <<>> \in Seq(Works) /\ <<0>> \o <<>> = Append(<<>>, 0)
  OBVIOUS
<1>3. QED
  BY <1>1, <1>2 DEF Chained

\* A block that starts where the last one ended.
LEMMA ChainedNext ==
  ASSUME NEW s, NEW end, Chained(s, end), NEW x \in Works, x.start_offset = end
  PROVE  Chained(Append(s, x), x.end_offset) /\ Total(LengthsOf(Append(s, x))) = Total(LengthsOf(s)) + x.length
<1>1. s \in Seq(Works)
  BY DEF Chained
<1>2. PICK t : t = Append(s, x)
  OBVIOUS
<1>3. /\ t \in Seq(Works)
      /\ StartsOf(t) = Append(StartsOf(s), x.start_offset)
      /\ EndsOf(t) = Append(EndsOf(s), x.end_offset)
      /\ LengthsOf(t) = Append(LengthsOf(s), x.length)
      /\ StartsOf(s) \in Seq(Nat) /\ EndsOf(s) \in Seq(Nat) /\ LengthsOf(s) \in Seq(Nat)
  BY <1>1, <1>2, Appended
<1>4. x.end_offset \in Nat /\ x.length \in Nat
  BY DEF Works
<1>5. <<0>> \o EndsOf(t) = Append(<<0>> \o EndsOf(s), x.end_offset)
  <2>1. PICK a, e, m : a = <<0>> /\ e = EndsOf(s) /\ m = x.end_offset
    OBVIOUS
  <2>2. a \in Seq(Nat) /\ e \in Seq(Nat) /\ m \in Nat
    BY <1>3, <1>4, <2>1
  <2>3. a \o Append(e, m) = Append(a \o e, m)
    BY <2>2
  <2>4. QED
    BY <1>3, <2>1, <2>3
<1>6. Chained(t, x.end_offset)
  BY <1>3, <1>5 DEF Chained
<1>7. Total(LengthsOf(t)) = Total(LengthsOf(s)) + x.length
  <2>1. LengthsOf(s) \in Seq(Int) /\ x.length \in Int
    BY <1>3, <1>4
  <2>2. QED
    BY <1>3, <2>1, TotalAppend
<1>8. QED
  BY <1>2, <1>6, <1>7

-----------------------------------------------------------------------------
(* What holds in every phase.                                              *)

\* The way c to cut has been measured.
Known(v, b, cost, c) == cost # -1 /\ cost <= Ahead(v, b, c)[0]

Chosen(v, b, cost, c) ==
  cost = -1 \/ (c \in Combs(b) /\ cost = Ahead(v, b, c)[0])

Ready(v, b) == b \in LinkerBlocks /\ SlotsOk(v, b, Groups(b)) /\ OrderedBefore(v, b, Groups(b))

Packing(v, b, n) == b \in LinkerBlocks /\ n \in Nat /\ n <= Groups(b) /\ SlotsOk(v, b, n)

Sorting(v, b, n) ==
  /\ b \in LinkerBlocks /\ n \in Nat /\ n <= Groups(b)
  /\ SlotsOk(v, b, Groups(b)) /\ OrderedBefore(v, b, n)

Measuring(v, b, c, best, cost) ==
  /\ Ready(v, b) /\ c \in Combs(b) /\ Chosen(v, b, cost, best)
  /\ \A d \in Combs(b) : Before(b, d, c) => Known(v, b, cost, d)

Advancing(v, b, c, best, cost) ==
  /\ Ready(v, b) /\ c \in Combs(b) /\ Chosen(v, b, cost, best)
  /\ \A d \in Combs(b) : Before(b, d, c) \/ d = c => Known(v, b, cost, d)

Cutting(v, b, best, cost) ==
  /\ Ready(v, b) /\ best \in Combs(b) /\ cost = Ahead(v, b, best)[0]
  /\ \A d \in Combs(b) : cost <= Ahead(v, b, d)[0]

\* The blocks from n on are not written yet.
Sending(v, b, best, cost, n, o, p, blk) ==
  /\ Cutting(v, b, best, cost)
  /\ n \in 0 .. Len(b) /\ Chained(o, OffsetIn(b, n))
  /\ Total(LengthsOf(o)) + Ahead(v, b, best)[n] = cost
  /\ p + Rest(blk) + Ahead(v, b, best)[n] <= cost

LEMMA AheadNat ==
  ASSUME NEW b, NEW v, Ready(v, b), NEW c \in Combs(b), NEW n \in 0 .. Len(b)
  PROVE  Ahead(v, b, c)[n] \in Nat /\ 0 \in 0 .. Len(b) /\ Ahead(v, b, c)[0] \in Nat
<1>1. Ahead(v, b, c) \in [0 .. Len(b) -> Nat]
  BY AheadExists DEF Ready, AheadIs
<1>2. 0 \in 0 .. Len(b)
  BY BlocksAre DEF Ready
<1>3. QED
  BY <1>1, <1>2

\* What has been measured is known, and the best is the best of what is known.
LEMMA MeasureKnows ==
  ASSUME NEW b, NEW v, NEW c, NEW best, NEW cost, Measuring(v, b, c, best, cost),
         NEW m, m = Ahead(v, b, c)[0], NEW best2, NEW cost2,
         IF cost = -1 \/ m < cost THEN cost2 = m /\ best2 = c ELSE cost2 = cost /\ best2 = best
  PROVE  Advancing(v, b, c, best2, cost2)
<1>1. Ready(v, b) /\ c \in Combs(b) /\ Chosen(v, b, cost, best) /\ b \in LinkerBlocks
  BY DEF Measuring, Ready
<1>2. m \in Nat
  <2>1. 0 \in 0 .. Len(b)
    BY <1>1, BlocksAre
  <2>2. QED
    BY <1>1, <2>1, AheadNat
<1>3. cost = -1 \/ cost \in Nat
  <2>1. 0 \in 0 .. Len(b)
    BY <1>1, BlocksAre
  <2>2. QED
    BY <1>1, <2>1, AheadNat DEF Chosen
<1>4. cost2 \in Nat /\ cost2 <= m /\ (cost # -1 => cost2 <= cost)
  BY <1>2, <1>3
<1>5. Chosen(v, b, cost2, best2)
  BY <1>1 DEF Chosen
<1>6. ASSUME NEW d \in Combs(b), Before(b, d, c) \/ d = c PROVE Known(v, b, cost2, d)
  <2>1. CASE d = c
    BY <1>4, <2>1 DEF Known
  <2>2. CASE d # c
    <3>1. cost # -1 /\ cost <= Ahead(v, b, d)[0]
      BY <1>6, <2>2 DEF Measuring, Known
    <3>2. Ahead(v, b, d)[0] \in Nat
      <4>1. 0 \in 0 .. Len(b)
        BY <1>1, BlocksAre
      <4>2. QED
        BY <1>1, <4>1, AheadNat
    <3>3. QED
      BY <1>3, <1>4, <3>1, <3>2 DEF Known
  <2>3. QED
    BY <2>1, <2>2
<1>7. QED
  BY <1>1, <1>5, <1>6 DEF Advancing

\* The next comb comes after all that are known.
LEMMA AdvanceKnows ==
  ASSUME NEW b, NEW v, NEW c, NEW best, NEW cost, Advancing(v, b, c, best, cost),
         NEW j \in 0 .. Len(b) - 1, c[j] + 1 # Len(b) - j,
         \A n \in 0 .. Len(b) - 1 : n > j => c[n] + 1 = Len(b) - n
  PROVE  Measuring(v, b, NextComb(b, c, j), best, cost)
<1>1. b \in LinkerBlocks /\ c \in Combs(b)
  BY DEF Advancing, Ready
<1>2. PICK e : e = NextComb(b, c, j)
  OBVIOUS
<1>3. e \in Combs(b) /\ \A d \in Combs(b) : Before(b, d, e) => Before(b, d, c) \/ d = c
  BY <1>1, <1>2, Successor
<1>4. QED
  BY <1>2, <1>3 DEF Advancing, Measuring

\* In the end all are known.
LEMMA AllKnown ==
  ASSUME NEW b, NEW v, NEW c, NEW best, NEW cost, Advancing(v, b, c, best, cost),
         \A n \in 0 .. Len(b) - 1 : c[n] + 1 = Len(b) - n
  PROVE  Cutting(v, b, best, cost)
<1>1. b \in LinkerBlocks /\ c \in Combs(b)
  BY DEF Advancing, Ready
<1>2. \A d \in Combs(b) : Before(b, d, c) \/ d = c
  BY <1>1, LastOfAll
<1>3. \A d \in Combs(b) : Known(v, b, cost, d)
  BY <1>2 DEF Advancing
<1>4. cost # -1
  BY <1>1, <1>3 DEF Known
<1>5. QED
  BY <1>3, <1>4 DEF Advancing, Cutting, Chosen, Known

\* And nothing has been written.
LEMMA NothingYet ==
  ASSUME NEW b, NEW v, NEW best, NEW cost, Cutting(v, b, best, cost)
  PROVE  Sending(v, b, best, cost, 0, <<>>, 0, NoBlock)
<1>1. b \in LinkerBlocks /\ best \in Combs(b) /\ Ready(v, b)
  BY DEF Cutting, Ready
<1>2. 0 \in 0 .. Len(b)
  BY <1>1, BlocksAre
<1>3. PICK m \in Nat : m = Ahead(v, b, best)[0] /\ cost = m
  BY <1>1, <1>2, AheadNat DEF Cutting
<1>4. Total(LengthsOf(<<>>)) = 0 /\ Chained(<<>>, 0)
  BY NothingChained, TotalEmpty
<1>5. OffsetIn(b, 0) = 0
  BY <1>1, WholeIs
<1>6. Rest(NoBlock) = 0
  BY DEF Rest
<1>7. 0 + m = m /\ 0 + 0 + m <= m
  OBVIOUS
<1>8. QED
  BY <1>2, <1>3, <1>4, <1>5, <1>6, <1>7 DEF Sending

\* The block that best_comb starts at j.
LEMMA WorkAt ==
  ASSUME NEW b, NEW v, Ready(v, b), NEW c \in Combs(b), NEW j \in 0 .. Len(b) - 1,
         NEW x, x = v[CombSlot(b, c, j)], NEW next, next = j + c[j] + 1
  PROVE  /\ x \in Works /\ next \in 1 .. Len(b)
         /\ Ahead(v, b, c)[j] = x.length + Ahead(v, b, c)[next]
         /\ \E n \in Nat \ {0}, coding \in Names :
              /\ x.start_offset = OffsetIn(b, j) /\ x.end_offset = OffsetIn(b, next)
              /\ x.start_offset \in Nat /\ x.end_offset = x.start_offset + n
              /\ x.coding = coding
              /\ x.length = IF coding = Storing THEN RawLength(n) ELSE LengthOf[coding]
<1>1. b \in LinkerBlocks /\ SlotsOk(v, b, Groups(b))
  BY DEF Ready
<1>2. PICK g : g = CombGroup(b, c, j)
  OBVIOUS
<1>3. /\ g \in Nat /\ Starts(b, g) = j /\ Stops(b, g) = next /\ Filled(b, g)
      /\ next \in 1 .. Len(b)
  BY <1>1, <1>2, CombIs
<1>4. x \in Works /\ x \in WorksOf(b, g)
  BY <1>1, <1>2, CombSlotIs
<1>5. PICK coding \in Names : x = Work(b, g, coding)
  BY <1>4 DEF WorksOf
<1>6. /\ x.start_offset = OffsetIn(b, j) /\ x.end_offset = OffsetIn(b, next) /\ x.coding = coding
      /\ x.length = CodedAs(b, g, coding)
  BY <1>3, <1>5 DEF Work
<1>7. PICK n \in Nat \ {0} : n = WorkSize(b, g) /\ OffsetIn(b, j) \in Nat /\ OffsetIn(b, next) = OffsetIn(b, j) + n
  BY <1>1, <1>3, FilledRun
<1>8. x.length = IF coding = Storing THEN RawLength(n) ELSE LengthOf[coding]
  BY <1>6, <1>7 DEF CodedAs
<1>9. Ahead(v, b, c)[j] = x.length + Ahead(v, b, c)[next]
  BY <1>1, AheadExists DEF AheadIs
<1>10. QED
  BY <1>3, <1>4, <1>6, <1>7, <1>8, <1>9

\* A run of linker blocks lies in the image.
LEMMA BytesThere ==
  ASSUME NEW b \in LinkerBlocks, NEW j \in 0 .. Len(b) - 1, NEW next \in 1 .. Len(b), j < next
  PROVE  \A k \in OffsetIn(b, j) + 1 .. OffsetIn(b, next) : Image(k) \in 0 .. Byte - 1
<1>1. PICK L \in Nat \ {0} : L = Len(b) /\ b \in Seq(Nat) /\ Positive(b)
  BY BlocksAre
<1>2. OffsetIn(b, j) \in Nat /\ OffsetIn(b, next) \in Nat
  BY <1>1, OffsetsRise
<1>3. OffsetIn(b, next) <= OffsetIn(b, L)
  <2>1. CASE next = L
    BY <1>2, <2>1
  <2>2. CASE next # L
    <3>1. next \in Nat /\ L \in Nat /\ next < L
      BY <1>1, <2>2
    <3>2. OffsetIn(b, L) \in Nat /\ OffsetIn(b, next) < OffsetIn(b, L)
      BY <1>1, <3>1, OffsetsRise
    <3>3. QED
      BY <1>2, <3>2
  <2>3. QED
    BY <2>1, <2>2
<1>4. PICK m \in Nat : m = Sum(b) /\ OffsetIn(b, L) = m
  BY <1>1, WholeIs
<1>5. \A k \in 1 .. m : Image(k) \in 0 .. Byte - 1
  <2>1. SubSeq(b, 1, Len(b)) = b
    BY <1>1
  <2>2. \A k \in 1 .. Sum(SubSeq(b, 1, Len(b))) : Image(k) \in 0 .. Byte - 1
    BY BlockAssumption
  <2>3. QED
    BY <1>4, <2>1, <2>2
<1>6. QED
  BY <1>2, <1>3, <1>4, <1>5

\* The next block is begun.
LEMMA WriteKeeps ==
  ASSUME InOrder(dest, pos, sent), BlockOk(block),
         Sending(w, blocks, best_comb, best_length, i, out, pos, block), Write
  PROVE  /\ InOrder(dest, pos, sent)' /\ BlockOk(block)'
         /\ Sending(w, blocks, best_comb, best_length, i, out, pos, block)'
         /\ phase' = phase
<1>1. /\ Ready(w, blocks) /\ best_comb \in Combs(blocks) /\ blocks \in LinkerBlocks
      /\ Cutting(w, blocks, best_comb, best_length)
  BY DEF Sending, Cutting, Ready
<1>2. i \in 0 .. Len(blocks) - 1
  <2>1. i \in 0 .. Len(blocks) /\ i < Len(blocks)
    BY DEF Sending, Write, lb_count
  <2>2. QED
    BY <1>1, <2>1, BlocksAre
<1>3. PICK x, next : x = w[CombSlot(blocks, best_comb, i)] /\ next = i + best_comb[i] + 1
  OBVIOUS
<1>4. /\ w' = w /\ blocks' = blocks /\ best_comb' = best_comb /\ best_length' = best_length
      /\ i' = next /\ phase' = phase /\ out' = Append(out, x)
      /\ IF x.coding = Storing THEN StartRaw(IsFinal(i), RawWords(x))
         ELSE StartCoded(IsFinal(i), Codings[x.coding].code, Codings[x.coding].tables, Codings[x.coding].words)
  <2>1. w[Slot(best_comb, i)] = x
    BY <1>3 DEF Slot, CombSlot, CombGroup, lb_count
  <2>2. QED
    BY <1>3, <2>1 DEF Write
<1>5. /\ x \in Works /\ next \in 1 .. Len(blocks)
      /\ Ahead(w, blocks, best_comb)[i] = x.length + Ahead(w, blocks, best_comb)[next]
  BY <1>1, <1>2, <1>3, WorkAt
<1>6. PICK n \in Nat \ {0}, coding \in Names :
         /\ x.start_offset = OffsetIn(blocks, i) /\ x.end_offset = OffsetIn(blocks, next)
         /\ x.start_offset \in Nat /\ x.end_offset = x.start_offset + n
         /\ x.coding = coding
         /\ x.length = IF coding = Storing THEN RawLength(n) ELSE LengthOf[coding]
  BY <1>1, <1>2, <1>3, WorkAt
<1>7. PICK l \in Nat, p \in Nat, a \in Nat, all \in Nat :
        /\ l = x.length /\ p = pos /\ a = Ahead(w, blocks, best_comb)[next]
        /\ all = best_length
  <2>1. x.length \in Nat
    BY <1>5 DEF Works
  <2>2. pos \in Nat
    BY DEF InOrder, BitStrings
  <2>3. next \in 0 .. Len(blocks)
    BY <1>5
  <2>4. Ahead(w, blocks, best_comb)[next] \in Nat /\ best_length \in Nat
    BY <1>1, <2>3, AheadNat DEF Cutting
  <2>5. QED
    BY <2>1, <2>2, <2>4
<1>8. block = NoBlock
  BY <1>4 DEF StartRaw, StartCoded, Started
<1>9. p + (l + a) <= all
  <2>1. pos + Rest(block) + Ahead(w, blocks, best_comb)[i] <= best_length
    BY DEF Sending
  <2>2. Rest(block) = 0
    BY <1>8 DEF Rest
  <2>3. QED
    BY <1>5, <1>7, <2>1, <2>2
<1>10. InOrder(dest, pos, sent)' /\ BlockOk(block)' /\ Rest(block)' \in Nat /\ pos' \in Nat /\ pos' + Rest(block)' <= p + l
  <2>1. CASE coding = Storing
    <3>1. StartRaw(IsFinal(i), RawWords(x))
      BY <1>4, <1>6, <2>1
    <3>2. InOrder(dest, pos, sent)' /\ pos' \in pos + 3 .. pos + 3 + (ByteBits - 1)
      BY <3>1, StartsRaw
    <3>3. block' = RawBlock(IsFinal(i), RawWords(x))
      BY <3>1 DEF StartRaw, Started, RawBlock
    <3>4. PICK start \in Nat : start = x.start_offset
      BY <1>6
    <3>5. \A k \in start + 1 .. start + n : Image(k) \in 0 .. Byte - 1
      <4>1. start + 1 = OffsetIn(blocks, i) + 1 /\ start + n = OffsetIn(blocks, next)
        BY <1>6, <3>4
      <4>2. i < next
        BY <1>1, <1>2, <1>3, CombIs
      <4>3. QED
        BY <1>1, <1>2, <1>5, <4>1, <4>2, BytesThere
    <3>6. PICK final : final = IsFinal(i)
      OBVIOUS
    <3>7. /\ BlockOk(RawBlock(final, RawWords(x))) /\ Rest(RawBlock(final, RawWords(x))) \in Nat
          /\ 3 + (ByteBits - 1) + Rest(RawBlock(final, RawWords(x))) <= RawLength(n)
      BY <1>6, <3>4, <3>5, StoredIs
    <3>8. PICK r \in Nat, m \in Nat : r = Rest(block)' /\ m = ByteBits /\ 3 + (m - 1) + r <= l
      BY <1>6, <1>7, <2>1, <3>3, <3>6, <3>7, ByteBitsIs
    <3>9. PICK q \in Nat : q = pos' /\ q <= p + 3 + (m - 1)
      BY <1>7, <3>2, <3>8
    <3>10. q + r <= p + l
      BY <3>8, <3>9
    <3>11. QED
      BY <3>2, <3>3, <3>6, <3>7, <3>8, <3>9, <3>10
  <2>2. CASE coding # Storing
    <3>1. coding \in DOMAIN Codings
      BY <1>6, <2>2 DEF Names
    <3>2. StartCoded(IsFinal(i), Codings[coding].code, Codings[coding].tables, Codings[coding].words)
      BY <1>4, <1>6, <2>2
    <3>3. PICK final : final = IsFinal(i)
      OBVIOUS
    <3>4. /\ Codings[coding].tables \in Nat /\ BlockOk(CodedBlock(final, coding))
          /\ Rest(CodedBlock(final, coding)) \in Nat
          /\ 3 + Codings[coding].tables + Rest(CodedBlock(final, coding)) <= LengthOf[coding]
      BY <3>1, CodingIs
    <3>5. InOrder(dest, pos, sent)' /\ pos' = pos + 3 + Codings[coding].tables
      BY <3>2, <3>4, StartsCoded
    <3>6. block' = CodedBlock(final, coding)
      BY <3>2, <3>3 DEF StartCoded, Started, CodedBlock
    <3>7. PICK r \in Nat, m \in Nat : r = Rest(block)' /\ m = Codings[coding].tables /\ 3 + m + r <= l
      BY <1>6, <1>7, <2>2, <3>4, <3>6
    <3>8. pos' = p + 3 + m
      BY <1>7, <3>5, <3>7
    <3>9. p + 3 + m + r <= p + l /\ p + 3 + m \in Nat
      BY <3>7
    <3>10. QED
      BY <3>4, <3>5, <3>6, <3>7, <3>8, <3>9
  <2>3. QED
    BY <2>1, <2>2
<1>11. Chained(out', OffsetIn(blocks, next)) /\ Total(LengthsOf(out')) = Total(LengthsOf(out)) + l
  <2>1. Chained(out, OffsetIn(blocks, i))
    BY DEF Sending
  <2>2. QED
    BY <1>4, <1>5, <1>6, <1>7, <2>1, ChainedNext
<1>12. Total(LengthsOf(out')) + a = best_length
  <2>1. Total(LengthsOf(out)) + (l + a) = best_length
    BY <1>5, <1>7 DEF Sending
  <2>2. PICK t : t = Total(LengthsOf(out)) /\ t \in Int
    <3>1. out \in Seq(Works)
      BY DEF Sending, Chained
    <3>2. LengthsOf(out) \in Seq(Nat)
      BY <1>5, <3>1, Appended
    <3>3. LengthsOf(out) \in Seq(Int)
      BY <3>2
    <3>4. Total(LengthsOf(out)) \in Int
      BY <3>3, TotalInteger
    <3>5. QED
      BY <3>4
  <2>3. t + (l + a) = (t + l) + a
    BY <2>2
  <2>4. QED
    BY <1>11, <2>1, <2>2, <2>3
<1>13. pos' + Rest(block)' + a <= best_length
  <2>1. PICK q \in Nat, r \in Nat : q = pos' /\ r = Rest(block)' /\ q + r <= p + l
    BY <1>10
  <2>2. q + r + a <= all
    BY <1>9, <2>1
  <2>3. QED
    BY <1>7, <2>1, <2>2
<1>14. next \in 0 .. Len(blocks)
  BY <1>5
<1>15. Sending(w, blocks, best_comb, best_length, next, out', pos', block')
  BY <1>1, <1>7, <1>11, <1>12, <1>13, <1>14 DEF Sending
<1>16. QED
  BY <1>4, <1>10, <1>15

\* A word, the end that is left out, or the end of the block.
LEMMA WriteOnKeeps ==
  ASSUME InOrder(dest, pos, sent), BlockOk(block),
         Sending(w, blocks, best_comb, best_length, i, out, pos, block), WriteOn
  PROVE  /\ InOrder(dest, pos, sent)' /\ BlockOk(block)'
         /\ Sending(w, blocks, best_comb, best_length, i, out, pos, block)'
         /\ phase' = phase
<1>1. /\ w' = w /\ blocks' = blocks /\ best_comb' = best_comb /\ best_length' = best_length
      /\ i' = i /\ out' = out /\ phase' = phase /\ SNext
  BY DEF WriteOn
<1>2. PICK p \in Nat, r \in Nat, a \in Nat, all \in Nat :
        /\ p = pos /\ r = Rest(block) /\ a = Ahead(w, blocks, best_comb)[i] /\ all = best_length
        /\ p + r + a <= all
  <2>1. pos \in Nat
    BY DEF InOrder, BitStrings
  <2>2. Rest(block) \in Nat
    BY RestIs
  <2>3. Ready(w, blocks) /\ best_comb \in Combs(blocks) /\ i \in 0 .. Len(blocks)
    BY DEF Sending, Cutting
  <2>4. Ahead(w, blocks, best_comb)[i] \in Nat /\ best_length \in Nat
    BY <2>3, AheadNat DEF Sending, Cutting
  <2>5. QED
    BY <2>1, <2>2, <2>4 DEF Sending
<1>3. InOrder(dest, pos, sent)' /\ BlockOk(block)' /\ pos' + Rest(block)' <= p + r /\ pos' \in Nat /\ Rest(block)' \in Nat
  <2>1. CASE WriteWord
    <3>1. InOrder(dest, pos, sent)' /\ BlockOk(block)' /\ pos' + Rest(block)' = pos + Rest(block)
      BY <2>1, WritesWord
    <3>2. pos' \in Nat
      BY <3>1 DEF InOrder, BitStrings
    <3>3. Rest(block)' \in Nat
      <4>1. \A c : BlockOk(c) => Rest(c) \in Nat
        BY RestIs
      <4>2. BlockOk(block')
        BY <3>1
      <4>3. Rest(block') \in Nat
        BY <4>1, <4>2
      <4>4. QED
        BY <4>3
    <3>4. QED
      BY <1>2, <3>1, <3>2, <3>3
  <2>2. CASE LeaveOutEnd \/ BlockOver
    <3>1. block' = NoBlock /\ dest' = dest /\ pos' = pos /\ sent' = sent
      BY <2>2 DEF LeaveOutEnd, BlockOver
    <3>2. Rest(block') = 0 /\ BlockOk(block')
      BY <3>1 DEF Rest, BlockOk
    <3>3. InOrder(dest', pos', sent')
      BY <3>1
    <3>4. pos' + Rest(block') <= p + r /\ pos' \in Nat /\ Rest(block') \in Nat
      BY <1>2, <3>1, <3>2
    <3>5. QED
      BY <3>2, <3>3, <3>4
  <2>3. QED
    BY <1>1, <2>1, <2>2 DEF SNext
<1>4. pos' + Rest(block)' + a <= all
  <2>1. PICK q \in Nat, s \in Nat : q = pos' /\ s = Rest(block)' /\ q + s <= p + r
    BY <1>3
  <2>2. q + s + a <= all
    BY <1>2, <2>1
  <2>3. QED
    BY <2>1, <2>2
<1>5. Sending(w, blocks, best_comb, best_length, i, out, pos', block')
  BY <1>2, <1>4 DEF Sending
<1>6. QED
  BY <1>1, <1>3, <1>5

Fresh(b, c, cost) == c = FirstComb(b) /\ cost = -1

\* What holds in every state.
KompuraInv ==
  /\ blocks \in LinkerBlocks /\ InOrder(dest, pos, sent) /\ BlockOk(block)
  /\ \/ phase = "pack" /\ Packing(w, blocks, i) /\ Fresh(blocks, comb, best_length)
     \/ phase = "order" /\ Sorting(w, blocks, i) /\ Fresh(blocks, comb, best_length)
     \/ phase = "measure" /\ Measuring(w, blocks, comb, best_comb, best_length)
     \/ phase = "advance" /\ Advancing(w, blocks, comb, best_comb, best_length)
     \/ phase = "write" /\ Sending(w, blocks, best_comb, best_length, i, out, pos, block)
  /\ phase # "write" => pos = 0 /\ block = NoBlock /\ out = <<>>

\* The invariant holds at first, and every action keeps it.
LEMMA InitInv ==
  ASSUME Init
  PROVE  KompuraInv
<1>1. blocks \in LinkerBlocks /\ w = <<>> /\ i = 0 /\ phase = "pack" /\ out = <<>> /\ best_length = -1
  BY DEF Init
<1>2. Packing(w, blocks, i)
  <2>1. 0 \in Nat /\ 0 <= Groups(blocks)
    BY <1>1, GroupsAre
  <2>2. SlotsOk(<<>>, blocks, 0)
    BY <1>1, NoSlots
  <2>3. QED
    BY <1>1, <2>1, <2>2 DEF Packing
<1>3. Fresh(blocks, comb, best_length)
  BY DEF Init, Fresh, FirstComb, lb_count
<1>4. pos = 0 /\ block = NoBlock /\ sent = <<>> /\ dest = [n \in 0 .. Room(Sum(blocks)) |-> 0]
  BY DEF Init, SInit
<1>5. Room(Sum(blocks)) \in Nat
  <2>1. SubSeq(blocks, 1, Len(blocks)) = blocks
    BY <1>1, BlocksAre
  <2>2. Room(Sum(SubSeq(blocks, 1, Len(blocks)))) \in Nat
    BY <1>1, BlockAssumption
  <2>3. QED
    BY <2>1, <2>2
<1>6. InOrder(dest, pos, sent)
  BY <1>4, <1>5, NothingSent
<1>7. BlockOk(block)
  BY <1>4 DEF BlockOk
<1>8. QED
  BY <1>1, <1>2, <1>3, <1>4, <1>6, <1>7 DEF KompuraInv

LEMMA StreamStays ==
  ASSUME KompuraInv, UNCHANGED <<svars, blocks, out>>, phase # "write"
  PROVE  /\ (blocks \in LinkerBlocks /\ InOrder(dest, pos, sent) /\ BlockOk(block))'
         /\ (pos = 0 /\ block = NoBlock /\ out = <<>>)'
<1>1. dest' = dest /\ pos' = pos /\ sent' = sent /\ block' = block /\ blocks' = blocks /\ out' = out
  BY DEF svars
<1>2. /\ blocks \in LinkerBlocks /\ InOrder(dest, pos, sent) /\ BlockOk(block)
      /\ pos = 0 /\ block = NoBlock /\ out = <<>>
  BY DEF KompuraInv
<1>3. BlockOk(block') /\ InOrder(dest', pos', sent')
  BY <1>1, <1>2
<1>4. QED
  BY <1>1, <1>2, <1>3

LEMMA PackInv ==
  ASSUME KompuraInv, Pack
  PROVE  KompuraInv'
<1>1. phase = "pack" /\ i < Groups(blocks) /\ i' = i + 1 /\ phase' = phase
  BY DEF Pack, Groups, lb_count
<1>2. UNCHANGED <<svars, blocks, out>> /\ comb' = comb /\ best_length' = best_length
  BY DEF Pack
<1>3. Packing(w, blocks, i) /\ Fresh(blocks, comb, best_length) /\ blocks \in LinkerBlocks
  BY <1>1 DEF KompuraInv
<1>4. SlotsOk(w', blocks, i + 1)
  BY <1>3, PackKeeps DEF Packing
<1>5. Packing(w', blocks, i + 1)
  <2>1. i \in Nat /\ Groups(blocks) \in Nat
    BY <1>3, GroupsAre DEF Packing
  <2>2. i + 1 \in Nat /\ i + 1 <= Groups(blocks)
    BY <1>1, <2>1
  <2>3. QED
    BY <1>3, <1>4, <2>2 DEF Packing
<1>6. blocks' = blocks
  BY <1>2
<1>7. phase # "write"
  BY <1>1
<1>8. /\ (blocks \in LinkerBlocks /\ InOrder(dest, pos, sent) /\ BlockOk(block))'
      /\ (pos = 0 /\ block = NoBlock /\ out = <<>>)'
  BY <1>2, <1>7, StreamStays
<1>9. Packing(w', blocks', i') /\ Fresh(blocks', comb', best_length') /\ phase' = "pack"
  BY <1>1, <1>2, <1>3, <1>5, <1>6
<1>10. QED
  BY <1>8, <1>9 DEF KompuraInv

LEMMA PackedInv ==
  ASSUME KompuraInv, Packed
  PROVE  KompuraInv'
<1>1. phase = "pack" /\ i = Groups(blocks) /\ i' = 0 /\ phase' = "order" /\ w' = w
  BY DEF Packed, Groups, lb_count
<1>2. UNCHANGED <<svars, blocks, out>> /\ comb' = comb /\ best_length' = best_length
  BY DEF Packed
<1>3. Packing(w, blocks, i) /\ Fresh(blocks, comb, best_length) /\ blocks \in LinkerBlocks
  BY <1>1 DEF KompuraInv
<1>4. Sorting(w, blocks, 0)
  <2>1. 0 \in Nat /\ 0 <= Groups(blocks) /\ \A g \in Nat : ~ (g < 0)
    BY <1>3, GroupsAre
  <2>2. OrderedBefore(w, blocks, 0)
    BY <2>1 DEF OrderedBefore
  <2>3. SlotsOk(w, blocks, Groups(blocks))
    BY <1>1, <1>3 DEF Packing
  <2>4. QED
    BY <1>3, <2>1, <2>2, <2>3 DEF Sorting
<1>5. phase # "write" /\ blocks' = blocks
  BY <1>1, <1>2
<1>6. /\ (blocks \in LinkerBlocks /\ InOrder(dest, pos, sent) /\ BlockOk(block))'
      /\ (pos = 0 /\ block = NoBlock /\ out = <<>>)'
  BY <1>2, <1>5, StreamStays
<1>7. Sorting(w', blocks', i') /\ Fresh(blocks', comb', best_length') /\ phase' = "order"
  BY <1>1, <1>2, <1>3, <1>4, <1>5
<1>8. QED
  BY <1>6, <1>7 DEF KompuraInv

LEMMA OrderInv ==
  ASSUME KompuraInv, Order
  PROVE  KompuraInv'
<1>1. phase = "order" /\ i < Groups(blocks) /\ i' = i + 1 /\ phase' = phase
  BY DEF Order, Groups, lb_count
<1>2. UNCHANGED <<svars, blocks, out>> /\ comb' = comb /\ best_length' = best_length
  BY DEF Order
<1>3. Sorting(w, blocks, i) /\ Fresh(blocks, comb, best_length) /\ blocks \in LinkerBlocks
  BY <1>1 DEF KompuraInv
<1>4. SlotsOk(w', blocks, Groups(blocks)) /\ OrderedBefore(w', blocks, i + 1)
  <2>1. i \in Nat /\ SlotsOk(w, blocks, Groups(blocks)) /\ OrderedBefore(w, blocks, i)
    BY <1>3 DEF Sorting
  <2>2. /\ (SlotsOk(w', blocks, Groups(blocks)))
        /\ (OrderedBefore(w', blocks, i + 1))
    BY <1>3, <2>1, OrderKeepsSlots
  <2>3. QED
    BY <2>2
<1>5. Sorting(w', blocks, i + 1)
  <2>1. i \in Nat /\ Groups(blocks) \in Nat
    BY <1>3, GroupsAre DEF Sorting
  <2>2. i + 1 \in Nat /\ i + 1 <= Groups(blocks)
    BY <1>1, <2>1
  <2>3. QED
    BY <1>3, <1>4, <2>2 DEF Sorting
<1>6. phase # "write" /\ blocks' = blocks
  BY <1>1, <1>2
<1>7. /\ (blocks \in LinkerBlocks /\ InOrder(dest, pos, sent) /\ BlockOk(block))'
      /\ (pos = 0 /\ block = NoBlock /\ out = <<>>)'
  BY <1>2, <1>6, StreamStays
<1>8. Sorting(w', blocks', i') /\ Fresh(blocks', comb', best_length') /\ phase' = "order"
  BY <1>1, <1>2, <1>3, <1>5, <1>6
<1>9. QED
  BY <1>7, <1>8 DEF KompuraInv

LEMMA OrderedInv ==
  ASSUME KompuraInv, Ordered
  PROVE  KompuraInv'
<1>1. phase = "order" /\ i = Groups(blocks) /\ phase' = "measure" /\ w' = w
  BY DEF Ordered, Groups, lb_count
<1>2. /\ UNCHANGED <<svars, blocks, out>> /\ comb' = comb
      /\ best_length' = best_length /\ best_comb' = best_comb
  BY DEF Ordered
<1>3. Sorting(w, blocks, i) /\ Fresh(blocks, comb, best_length) /\ blocks \in LinkerBlocks
  BY <1>1 DEF KompuraInv
<1>4. Ready(w, blocks)
  BY <1>1, <1>3 DEF Sorting, Ready
<1>5. Measuring(w, blocks, comb, best_comb, best_length)
  <2>1. comb \in Combs(blocks) /\ \A d \in Combs(blocks) : ~ Before(blocks, d, comb)
    BY <1>3, FirstOfAll DEF Fresh
  <2>2. Chosen(w, blocks, best_length, best_comb)
    BY <1>3 DEF Fresh, Chosen
  <2>3. QED
    BY <1>4, <2>1, <2>2 DEF Measuring
<1>6. phase # "write" /\ blocks' = blocks
  BY <1>1, <1>2
<1>7. /\ (blocks \in LinkerBlocks /\ InOrder(dest, pos, sent) /\ BlockOk(block))'
      /\ (pos = 0 /\ block = NoBlock /\ out = <<>>)'
  BY <1>2, <1>6, StreamStays
<1>8. Measuring(w', blocks', comb', best_comb', best_length') /\ phase' = "measure"
  BY <1>1, <1>2, <1>5, <1>6
<1>9. QED
  BY <1>7, <1>8 DEF KompuraInv

LEMMA MeasureInv ==
  ASSUME KompuraInv, Measure
  PROVE  KompuraInv'
<1>1. phase = "measure" /\ phase' = "advance" /\ w' = w /\ comb' = comb
  BY DEF Measure
<1>2. UNCHANGED <<svars, blocks, out>>
  BY DEF Measure
<1>3. Measuring(w, blocks, comb, best_comb, best_length)
  BY <1>1 DEF KompuraInv
<1>4. blocks \in LinkerBlocks /\ SlotsOk(w, blocks, Groups(blocks)) /\ comb \in Combs(blocks)
  BY <1>3 DEF Measuring, Ready
<1>5. PICK m : m = Ahead(w, blocks, comb)[0]
  OBVIOUS
<1>6. Sum([n \in DOMAIN Cut(comb) |-> w[Slot(comb, Cut(comb)[n])].length]) = m
  BY <1>4, <1>5, Measured
<1>7. IF best_length = -1 \/ m < best_length THEN best_length' = m /\ best_comb' = comb
      ELSE best_length' = best_length /\ best_comb' = best_comb
  BY <1>6 DEF Measure, Better
<1>8. Advancing(w, blocks, comb, best_comb', best_length')
  BY <1>3, <1>5, <1>7, MeasureKnows
<1>9. phase # "write" /\ blocks' = blocks
  BY <1>1, <1>2
<1>10. /\ (blocks \in LinkerBlocks /\ InOrder(dest, pos, sent) /\ BlockOk(block))'
       /\ (pos = 0 /\ block = NoBlock /\ out = <<>>)'
  BY <1>2, <1>9, <1>3, StreamStays
<1>11. Advancing(w', blocks', comb', best_comb', best_length') /\ phase' = "advance"
  BY <1>1, <1>8, <1>9
<1>12. QED
  BY <1>10, <1>11 DEF KompuraInv

LEMMA AdvanceInv ==
  ASSUME KompuraInv, Advance
  PROVE  KompuraInv'
<1>1. phase = "advance" /\ w' = w /\ best_comb' = best_comb /\ best_length' = best_length
  BY DEF Advance
<1>2. UNCHANGED <<svars, blocks, out>>
  BY DEF Advance
<1>3. Advancing(w, blocks, comb, best_comb, best_length)
  BY <1>1 DEF KompuraInv
<1>4. blocks \in LinkerBlocks /\ comb \in Combs(blocks) /\ DOMAIN comb = 0 .. Len(blocks) - 1
  BY <1>3 DEF Advancing, Ready, Combs
<1>5. PICK j \in DOMAIN comb :
        /\ ~ Wraps(comb, j) /\ \A n \in DOMAIN comb : n > j => Wraps(comb, n)
        /\ comb' = Advanced(comb, j)
        /\ phase' = IF End(comb') = lb_count THEN "measure" ELSE "advance"
  BY DEF Advance
<1>6. /\ j \in 0 .. Len(blocks) - 1 /\ comb[j] + 1 # Len(blocks) - j
      /\ \A n \in 0 .. Len(blocks) - 1 : n > j => comb[n] + 1 = Len(blocks) - n
  BY <1>4, <1>5 DEF Wraps, lb_count
<1>7. comb' = NextComb(blocks, comb, j)
  BY <1>4, <1>5 DEF Advanced, NextComb
<1>8. Measuring(w, blocks, comb', best_comb, best_length)
  BY <1>3, <1>6, <1>7, AdvanceKnows
<1>9. phase' = "measure"
  <2>1. comb' \in Combs(blocks)
    BY <1>8 DEF Measuring
  <2>2. End(comb') = lb_count
    BY <1>4, <2>1, EndsThere
  <2>3. QED
    BY <1>5, <2>2
<1>10. phase # "write" /\ blocks' = blocks
  BY <1>1, <1>2
<1>11. /\ (blocks \in LinkerBlocks /\ InOrder(dest, pos, sent) /\ BlockOk(block))'
       /\ (pos = 0 /\ block = NoBlock /\ out = <<>>)'
  BY <1>2, <1>10, StreamStays
<1>12. Measuring(w', blocks', comb', best_comb', best_length')
  BY <1>1, <1>8, <1>10
<1>13. QED
  BY <1>9, <1>11, <1>12 DEF KompuraInv

LEMMA ExhaustedInv ==
  ASSUME KompuraInv, Exhausted
  PROVE  KompuraInv'
<1>1. phase = "advance" /\ phase' = "write" /\ i' = 0 /\ w' = w /\ best_comb' = best_comb
  BY DEF Exhausted
<1>2. UNCHANGED <<svars, blocks, out>> /\ best_length' = best_length
  BY DEF Exhausted
<1>3. Advancing(w, blocks, comb, best_comb, best_length)
  BY <1>1 DEF KompuraInv
<1>4. \A n \in 0 .. Len(blocks) - 1 : comb[n] + 1 = Len(blocks) - n
  <2>1. DOMAIN comb = 0 .. Len(blocks) - 1
    BY <1>3 DEF Advancing, Combs
  <2>2. QED
    BY <2>1 DEF Exhausted, Wraps, lb_count
<1>5. Cutting(w, blocks, best_comb, best_length)
  BY <1>3, <1>4, AllKnown
<1>6. Sending(w, blocks, best_comb, best_length, 0, <<>>, 0, NoBlock)
  BY <1>5, NothingYet
<1>7. phase # "write" /\ blocks' = blocks
  BY <1>1, <1>2
<1>8. /\ (blocks \in LinkerBlocks /\ InOrder(dest, pos, sent) /\ BlockOk(block))'
      /\ (pos = 0 /\ block = NoBlock /\ out = <<>>)'
  BY <1>2, <1>7, StreamStays
<1>9. pos' = 0 /\ block' = NoBlock /\ out' = <<>>
  BY <1>8
<1>10. Sending(w', blocks', best_comb', best_length', i', out', pos', block') /\ phase' = "write"
  BY <1>1, <1>2, <1>6, <1>7, <1>9
<1>11. QED
  BY <1>8, <1>10 DEF KompuraInv

LEMMA SendingInv ==
  ASSUME KompuraInv, Write \/ WriteOn
  PROVE  KompuraInv'
<1>1. /\ blocks \in LinkerBlocks /\ InOrder(dest, pos, sent) /\ BlockOk(block)
      /\ phase # "write" => block = NoBlock
  BY DEF KompuraInv
<1>2. phase = "write"
  <2>1. CASE Write
    BY <2>1 DEF Write
  <2>2. CASE WriteOn
    <3>1. block # NoBlock
      <4>1. CASE WriteWord
        BY <1>1, <4>1, BlockWord DEF WriteWord
      <4>2. CASE LeaveOutEnd
        BY <1>1, <4>2, BlockWord DEF LeaveOutEnd
      <4>3. CASE BlockOver
        BY <4>3 DEF BlockOver
      <4>4. QED
        BY <2>2, <4>1, <4>2, <4>3 DEF WriteOn, SNext
    <3>2. QED
      BY <1>1, <3>1
  <2>3. QED
    BY <2>1, <2>2
<1>3. Sending(w, blocks, best_comb, best_length, i, out, pos, block)
  BY <1>2 DEF KompuraInv
<1>4. /\ InOrder(dest, pos, sent)' /\ BlockOk(block)'
      /\ Sending(w, blocks, best_comb, best_length, i, out, pos, block)'
      /\ phase' = phase
  <2>1. CASE Write
    BY <1>1, <1>3, <2>1, WriteKeeps
  <2>2. CASE WriteOn
    BY <1>1, <1>3, <2>2, WriteOnKeeps
  <2>3. QED
    BY <2>1, <2>2
<1>5. blocks' = blocks
  BY DEF Write, WriteOn
<1>6. QED
  BY <1>1, <1>2, <1>4, <1>5 DEF KompuraInv

LEMMA StutterInv ==
  ASSUME KompuraInv, UNCHANGED vars
  PROVE  KompuraInv'
<1>1. /\ dest' = dest /\ pos' = pos /\ sent' = sent /\ block' = block /\ blocks' = blocks /\ out' = out
      /\ w' = w /\ comb' = comb /\ best_comb' = best_comb /\ best_length' = best_length /\ i' = i
      /\ phase' = phase
  BY DEF vars, svars
<1>2. QED
  BY <1>1 DEF KompuraInv

\* kompura: the invariant that the theorems below rest on.
THEOREM KompuraInvariant == Spec => []KompuraInv
<1>1. Init => KompuraInv
  BY InitInv
<1>2. KompuraInv /\ [Next]_vars => KompuraInv'
  <2> SUFFICES ASSUME KompuraInv, [Next]_vars PROVE KompuraInv'
    OBVIOUS
  <2>1. CASE Pack
    BY <2>1, PackInv
  <2>2. CASE Packed
    BY <2>2, PackedInv
  <2>3. CASE Order
    BY <2>3, OrderInv
  <2>4. CASE Ordered
    BY <2>4, OrderedInv
  <2>5. CASE Measure
    BY <2>5, MeasureInv
  <2>6. CASE Advance
    BY <2>6, AdvanceInv
  <2>7. CASE Exhausted
    BY <2>7, ExhaustedInv
  <2>8. CASE Write \/ WriteOn
    BY <2>8, SendingInv
  <2>9. CASE UNCHANGED vars
    BY <2>9, StutterInv
  <2>10. QED
    BY <2>1, <2>2, <2>3, <2>4, <2>5, <2>6, <2>7, <2>8, <2>9 DEF Next, Terminating
<1>3. QED
  BY <1>1, <1>2, PTL DEF Spec

\* write_bits: the bytes of the buffer hold the bits that were sent, in order, and
\* nothing behind them, whatever the words and whatever the codes.
THEOREM KompuraBitsInOrder == Spec => []BitsInOrder
<1>1. KompuraInv => BitsInOrder
  BY OrderSays DEF KompuraInv
<1>2. QED
  BY <1>1, KompuraInvariant, PTL

\* When all is written nothing is left ahead.
LEMMA WhatIsFinished ==
  ASSUME KompuraInv, Finished
  PROVE  /\ blocks \in LinkerBlocks /\ Cutting(w, blocks, best_comb, best_length)
         /\ Chained(out, Sum(blocks)) /\ Total(LengthsOf(out)) = best_length
         /\ pos <= best_length
<1>1. Sending(w, blocks, best_comb, best_length, i, out, pos, block) /\ blocks \in LinkerBlocks
  BY DEF KompuraInv, Finished
<1>2. Cutting(w, blocks, best_comb, best_length)
  BY <1>1 DEF Sending
<1>3. i = Len(blocks)
  <2>1. i \in 0 .. Len(blocks) /\ i >= Len(blocks)
    BY <1>1 DEF Sending, Finished, lb_count
  <2>2. QED
    BY <1>1, <2>1, BlocksAre
<1>4. Ahead(w, blocks, best_comb)[Len(blocks)] = 0
  BY <1>2, AheadExists DEF Cutting, Ready, AheadIs
<1>5. Rest(block) = 0
  BY DEF Finished, Rest
<1>6. Chained(out, Sum(blocks))
  BY <1>1, <1>3, WholeIs DEF Sending
<1>7. PICK p \in Nat, all \in Nat : p = pos /\ all = best_length
  <2>1. pos \in Nat
    BY DEF KompuraInv, InOrder, BitStrings
  <2>2. best_length \in Nat
    <3>1. Ready(w, blocks) /\ best_comb \in Combs(blocks) /\ i \in 0 .. Len(blocks)
      BY <1>1, <1>2 DEF Sending, Cutting
    <3>2. Ahead(w, blocks, best_comb)[0] \in Nat
      BY <3>1, AheadNat
    <3>3. QED
      BY <1>2, <3>2 DEF Cutting
  <2>3. QED
    BY <2>1, <2>2
<1>8. pos <= best_length
  <2>1. pos + Rest(block) + Ahead(w, blocks, best_comb)[Len(blocks)] <= best_length
    BY <1>1, <1>3 DEF Sending
  <2>2. p + 0 + 0 <= all
    BY <1>4, <1>5, <1>7, <2>1
  <2>3. QED
    BY <1>7, <2>2
<1>9. Total(LengthsOf(out)) = best_length
  <2>1. Total(LengthsOf(out)) + 0 = all
    BY <1>1, <1>3, <1>4, <1>7 DEF Sending
  <2>2. Total(LengthsOf(out)) \in Int
    <3>1. out \in Seq(Works)
      BY <1>6 DEF Chained
    <3>2. \A s \in Seq(Works) : Works # {} => LengthsOf(s) \in Seq(Nat)
      BY Appended
    <3>3. Works # {}
      <4>1. [start_offset |-> 0, end_offset |-> 0, coding |-> Storing, length |-> 0] \in Works
        BY DEF Works, Names
      <4>2. QED
        BY <4>1
    <3>4. LengthsOf(out) \in Seq(Nat)
      BY <3>1, <3>2, <3>3
    <3>5. LengthsOf(out) \in Seq(Int)
      BY <3>4
    <3>6. QED
      BY <3>5, TotalInteger
  <2>3. QED
    BY <1>7, <2>1, <2>2
<1>10. QED
  BY <1>1, <1>2, <1>6, <1>8, <1>9

\* The best is as long as the reference.
LEMMA BestIsChosen ==
  ASSUME NEW b, NEW v, NEW best, NEW cost, Cutting(v, b, best, cost)
  PROVE  cost = Best(v, b)[0]
<1>1. b \in LinkerBlocks /\ SlotsOk(v, b, Groups(b)) /\ OrderedBefore(v, b, Groups(b)) /\ best \in Combs(b)
  BY DEF Cutting, Ready
<1>2. PICK m \in Nat, n \in Nat : m = cost /\ n = Best(v, b)[0]
  <2>1. 0 \in 0 .. Len(b)
    BY <1>1, BlocksAre
  <2>2. Best(v, b)[0] \in Nat
    BY <1>1, <2>1, BestExists
  <2>3. cost \in Nat
    BY <1>1, <2>1, AheadNat DEF Cutting
  <2>4. QED
    BY <2>2, <2>3
<1>3. n <= m
  BY <1>1, <1>2, BestIsLow DEF Cutting
<1>4. PICK c \in Combs(b) : Ahead(v, b, c)[0] <= n
  BY <1>1, <1>2, BestIsReached
<1>5. PICK a \in Nat : a = Ahead(v, b, c)[0] /\ m <= a
  <2>1. 0 \in 0 .. Len(b)
    BY <1>1, BlocksAre
  <2>2. Ahead(v, b, c)[0] \in Nat
    BY <2>1, AheadNat DEF Cutting
  <2>3. QED
    BY <1>2, <2>2 DEF Cutting
<1>6. m = n
  BY <1>3, <1>4, <1>5
<1>7. QED
  BY <1>2, <1>6

\* kompura: when all is written the blocks cover the image once and in order, and no
\* other way to cut it and to pack the pieces is shorter, for any number of linker
\* blocks and any lengths.
THEOREM KompuraShortest == Spec => []Shortest
<1>1. KompuraInv => Shortest
  <2> SUFFICES ASSUME KompuraInv, Finished PROVE Shortest
    BY DEF Shortest
  <2>1. /\ <<0>> \o EndsOf(out) = Append(StartsOf(out), Sum(blocks))
        /\ Sum(LengthsOf(out)) = Best(w, blocks)[0]
    BY WhatIsFinished, BestIsChosen, SumIsTotal DEF Chained
  <2>2. QED
    BY <2>1 DEF Shortest, EndsOf, StartsOf, LengthsOf, Best, BestIs, Least, SumsFrom, WaysFrom,
                FirstOf, BehindOf, First, Behind, lb_count
<1>2. QED
  BY <1>1, KompuraInvariant, PTL

\* write_compressed_data: the stream is no longer than the length it was chosen by, a
\* stored block's padding and the end that may be left out included.
THEOREM KompuraNoLonger == Spec => []NoLongerThanPlanned
<1>1. KompuraInv => NoLongerThanPlanned
  BY WhatIsFinished DEF NoLongerThanPlanned
<1>2. QED
  BY <1>1, KompuraInvariant, PTL

\* kompura: while blocks are written the file fits in a buffer of twice the image,
\* because the image as one block of static literals would.
THEOREM KompuraBufferHolds == Spec => []BufferHolds
<1>1. KompuraInv => BufferHolds
  <2> SUFFICES ASSUME KompuraInv, phase = "write" PROVE retlen <= 2 * Sum(blocks)
    BY DEF BufferHolds
  <2>1. Sending(w, blocks, best_comb, best_length, i, out, pos, block) /\ blocks \in LinkerBlocks /\ BlockOk(block)
    BY DEF KompuraInv
  <2>2. Cutting(w, blocks, best_comb, best_length)
    BY <2>1 DEF Sending
  <2>3. Ready(w, blocks) /\ best_comb \in Combs(blocks) /\ i \in 0 .. Len(blocks)
    BY <2>1, <2>2 DEF Sending, Cutting
  <2>4. PICK p \in Nat, r \in Nat, a \in Nat, all \in Nat :
          /\ p = pos /\ r = Rest(block) /\ a = Ahead(w, blocks, best_comb)[i] /\ all = best_length
          /\ p + r + a <= all
    <3>1. pos \in Nat
      BY DEF KompuraInv, InOrder, BitStrings
    <3>2. Rest(block) \in Nat
      BY <2>1, RestIs
    <3>3. Ahead(w, blocks, best_comb)[i] \in Nat /\ best_length \in Nat
      BY <2>2, <2>3, AheadNat DEF Cutting
    <3>4. QED
      BY <2>1, <3>1, <3>2, <3>3 DEF Sending
  <2>5. PICK c \in Combs(blocks) : Ahead(w, blocks, c)[0] <= StaticLength(Sum(blocks))
    BY <2>1, <2>3, OneBlock DEF Ready
  <2>6. PICK n \in Nat, s \in Nat : n = Ahead(w, blocks, c)[0] /\ s = StaticLength(Sum(blocks)) /\ all <= n /\ n <= s
    <3>1. Ahead(w, blocks, c)[0] \in Nat
      BY <2>3, AheadNat
    <3>2. StaticLength(Sum(blocks)) \in Nat
      BY <2>1, StaticIs
    <3>3. QED
      BY <2>2, <2>4, <2>5, <3>1, <3>2 DEF Cutting
  <2>7. p <= s
    BY <2>4, <2>6
  <2>8. (p + ByteBits - 1) \div ByteBits + HdrLen <= 2 * Sum(blocks)
    BY <2>1, <2>6, <2>7, BufferIsLongEnough
  <2>9. QED
    BY <2>4, <2>8 DEF retlen
<1>2. QED
  BY <1>1, KompuraInvariant, PTL

-----------------------------------------------------------------------------
(* Sums over sets.                                                         *)

LEMMA SumIs ==
  ASSUME NEW D, IsFiniteSet(D), NEW f \in [D -> Int]
  PROVE  \E F : SumsOver(F, f, D) /\ SumFunction(f) = F[D]
<1> DEFINE Folds(G) == G = [S \in SUBSET D |->
                              IF S = {} THEN 0
                              ELSE f[CHOOSE x \in S : TRUE] + G[S \ {CHOOSE x \in S : TRUE}]]
           G == CHOOSE G : Folds(G)
<1>1. DOMAIN f = D
  OBVIOUS
<1>2. SumFunction(f) = G[D]
  BY <1>1 DEF SumFunction, SumFunctionOnSet, FoldFunctionOnSet, MapThenFoldSet
<1>3. PICK F : SumsOver(F, f, D)
  BY SumsExist
<1>4. Folds(F)
  <2>1. F = [S \in SUBSET D |-> F[S]] /\ F[{}] = 0
    BY <1>3 DEF SumsOver
  <2>2. \A S \in SUBSET D : S # {} =>
          F[S] = f[CHOOSE x \in S : TRUE] + F[S \ {CHOOSE x \in S : TRUE}]
    BY <1>3 DEF SumsOver
  <2>3. QED
    BY <2>1, <2>2
<1>5. Folds(G)
  BY <1>4, Zenon
<1>6. /\ G[{}] = 0
      /\ \A S \in SUBSET D : S # {} =>
           \E x \in S : G[S] = f[x] + G[S \ {x}]
  <2>1. G[{}] = 0
    BY <1>5
  <2>2. ASSUME NEW S \in SUBSET D, S # {} PROVE \E x \in S : G[S] = f[x] + G[S \ {x}]
    <3>1. G[S] = f[CHOOSE x \in S : TRUE] + G[S \ {CHOOSE x \in S : TRUE}]
      BY <1>5, <2>2
    <3>2. (CHOOSE x \in S : TRUE) \in S
      BY <2>2
    <3>3. QED
      BY <3>1, <3>2
  <2>3. QED
    BY <2>1, <2>2
<1> HIDE DEF G
<1> DEFINE N == {n \in Nat : \A S \in SUBSET D : Cardinality(S) = n => G[S] = F[S]}
<1>7. \A S \in SUBSET D : IsFiniteSet(S) /\ Cardinality(S) \in Nat
  BY FS_Subset, FS_CardinalityType
<1>8. 0 \in N
  <2>1. \A S \in SUBSET D : Cardinality(S) = 0 => S = {}
    BY <1>7, FS_EmptySet
  <2>2. F[{}] = 0
    BY <1>3 DEF SumsOver
  <2>3. QED
    BY <1>6, <2>1, <2>2
<1>9. ASSUME NEW n \in N PROVE n + 1 \in N
  <2> SUFFICES ASSUME NEW S \in SUBSET D, Cardinality(S) = n + 1 PROVE G[S] = F[S]
    OBVIOUS
  <2>1. n \in Nat /\ n + 1 # 0
    OBVIOUS
  <2>2. S # {}
    BY <2>1, FS_EmptySet
  <2>3. PICK x \in S : G[S] = f[x] + G[S \ {x}]
    BY <1>6, <2>2
  <2>4. Cardinality(S \ {x}) = n /\ S \ {x} \in SUBSET D
    BY <1>7, <2>1, FS_RemoveElement, SMTT(20)
  <2>5. F[S] = f[x] + F[S \ {x}]
    BY <1>3 DEF SumsOver
  <2>6. QED
    BY <2>3, <2>4, <2>5
<1> HIDE DEF N
<1>10. N = Nat
  <2>1. N \in SUBSET Nat
    BY DEF N
  <2>2. QED
    BY <1>8, <1>9, <2>1, SetInduction
<1>11. G[D] = F[D]
  BY <1>7, <1>10 DEF N
<1>12. QED
  BY <1>2, <1>3, <1>11

\* Two of them are no more than all.
LEMMA SumOfTwo ==
  ASSUME NEW D, IsFiniteSet(D), NEW f \in [D -> Nat], NEW F, SumsOver(F, f, D),
         NEW x \in D
  PROVE  /\ f[x] <= F[D] /\ f[x] \in Nat /\ F[D] \in Nat
         /\ \A y \in D : y # x => f[y] \in Nat /\ f[x] + f[y] <= F[D]
<1>1. /\ D \in SUBSET D
      /\ \A S \in SUBSET D : \A z \in S : F[S] = f[z] + F[S \ {z}] /\ S \ {z} \in SUBSET D
  BY SumParts
<1>2. F[D] = f[x] + F[D \ {x}] /\ D \ {x} \in SUBSET D
  BY <1>1
<1>3. \A S \in SUBSET D : F[S] \in Nat
  BY SumNatural
<1>4. f[x] \in Nat /\ F[D \ {x}] \in Nat /\ F[D] \in Nat
  BY <1>1, <1>2, <1>3
<1>5. ASSUME NEW y \in D, y # x PROVE f[y] \in Nat /\ f[x] + f[y] <= F[D]
  <2>1. y \in D \ {x}
    BY <1>5
  <2>2. F[D \ {x}] = f[y] + F[(D \ {x}) \ {y}] /\ (D \ {x}) \ {y} \in SUBSET D
    BY <1>1, <1>2, <2>1
  <2>3. F[(D \ {x}) \ {y}] \in Nat /\ f[y] \in Nat
    BY <1>3, <2>2
  <2>4. QED
    BY <1>2, <1>4, <2>2, <2>3
<1>6. f[x] <= F[D]
  BY <1>2, <1>4
<1>7. QED
  BY <1>4, <1>5, <1>6

\* F and G are sums of f and g; g is e more than f on A.
MoreOn(G, g, F, f, A, e, D) ==
  /\ f \in [D -> Int] /\ g \in [D -> Int] /\ SumsOver(F, f, D) /\ SumsOver(G, g, D)
  /\ A \in SUBSET D /\ e \in Int
  /\ \A x \in D : g[x] = IF x \in A THEN f[x] + e ELSE f[x]

LEMMA SumMore ==
  ASSUME NEW D, IsFiniteSet(D), NEW G, NEW g, NEW F, NEW f, NEW A, NEW e, MoreOn(G, g, F, f, A, e, D)
  PROVE  \A S \in SUBSET D : G[S] = F[S] + Cardinality(S \cap A) * e
<1>0. /\ f \in [D -> Int] /\ g \in [D -> Int] /\ SumsOver(F, f, D) /\ SumsOver(G, g, D)
      /\ A \in SUBSET D /\ e \in Int
      /\ \A x \in D : g[x] = IF x \in A THEN f[x] + e ELSE f[x]
  BY DEF MoreOn
<1> DEFINE T == {S \in SUBSET D : G[S] = F[S] + Cardinality(S \cap A) * e}
<1>1. {} \in T
  <2>1. {} \cap A = {} /\ 0 * e = 0 /\ G[{}] = 0 /\ F[{}] = 0
    BY <1>0 DEF SumsOver
  <2>2. Cardinality({} \cap A) = 0
    BY <2>1, FS_EmptySet
  <2>3. QED
    BY <2>1, <2>2
<1>2. ASSUME NEW S \in T, NEW x \in D \ S PROVE S \cup {x} \in T
  <2>1. S \in SUBSET D /\ G[S] = F[S] + Cardinality(S \cap A) * e
    OBVIOUS
  <2>2. /\ F[S \cup {x}] = f[x] + F[S] /\ F[S] \in Int
        /\ G[S \cup {x}] = g[x] + G[S] /\ S \cup {x} \in SUBSET D
    <3>1. F[S \cup {x}] = f[x] + F[S] /\ F[S] \in Int /\ S \cup {x} \in SUBSET D
      <4>1. /\ \A R \in SUBSET D : F[R] \in Int
            /\ \A R \in SUBSET D : \A z \in D \ R :
                 F[R \cup {z}] = f[z] + F[R] /\ R \cup {z} \in SUBSET D
        BY <1>0, SumParts
      <4>2. QED
        BY <2>1, <4>1
    <3>2. G[S \cup {x}] = g[x] + G[S]
      <4>1. \A R \in SUBSET D : \A z \in D \ R : G[R \cup {z}] = g[z] + G[R]
        BY <1>0, SumParts, ZenonT(30)
      <4>2. QED
        BY <2>1, <4>1
    <3>3. QED
      BY <3>1, <3>2
  <2>3. S \cap A \in SUBSET D /\ IsFiniteSet(S \cap A)
    BY <1>0, <2>1, FS_Subset
  <2>4. PICK k \in Nat : k = Cardinality(S \cap A)
    BY <2>3, FS_CardinalityType
  <2>5. Cardinality((S \cup {x}) \cap A) = IF x \in A THEN k + 1 ELSE k
    <3>1. CASE x \in A
      <4>1. (S \cup {x}) \cap A = (S \cap A) \cup {x} /\ x \notin S \cap A
        BY <3>1
      <4>2. QED
        BY <2>3, <2>4, <3>1, <4>1, FS_AddElement
    <3>2. CASE x \notin A
      <4>1. (S \cup {x}) \cap A = S \cap A
        BY <3>2
      <4>2. QED
        BY <2>4, <3>2, <4>1
    <3>3. QED
      BY <3>1, <3>2
  <2>6. f[x] \in Int /\ g[x] = IF x \in A THEN f[x] + e ELSE f[x]
    BY <1>0
  <2>7. (k + 1) * e = k * e + e /\ k * e \in Int
    BY <1>0, <2>4
  <2>8. G[S \cup {x}] = F[S \cup {x}] + Cardinality((S \cup {x}) \cap A) * e
    <3>1. CASE x \in A
      <4>1. G[S \cup {x}] = (f[x] + e) + (F[S] + k * e) /\ F[S \cup {x}] = f[x] + F[S]
        BY <2>1, <2>2, <2>4, <2>6, <3>1
      <4>2. Cardinality((S \cup {x}) \cap A) = k + 1
        BY <2>5, <3>1
      <4>3. PICK p \in Int : p = k * e
        BY <2>7
      <4>4. (k + 1) * e = p + e
        BY <2>7, <4>3
      <4>5. G[S \cup {x}] = F[S \cup {x}] + (p + e)
        BY <1>0, <2>2, <2>6, <4>1, <4>3
      <4>6. QED
        BY <4>2, <4>4, <4>5
    <3>2. CASE x \notin A
      <4>1. G[S \cup {x}] = f[x] + (F[S] + k * e) /\ F[S \cup {x}] = f[x] + F[S]
        BY <2>1, <2>2, <2>4, <2>6, <3>2
      <4>2. Cardinality((S \cup {x}) \cap A) = k
        BY <2>5, <3>2
      <4>3. PICK p \in Int : p = k * e
        BY <2>7
      <4>4. G[S \cup {x}] = F[S \cup {x}] + p
        BY <2>2, <2>6, <4>1, <4>3
      <4>5. QED
        BY <4>2, <4>3, <4>4
    <3>3. QED
      BY <3>1, <3>2
  <2>9. QED
    BY <2>2, <2>8
<1>3. T \in SUBSET (SUBSET D)
  OBVIOUS
<1> HIDE DEF T
<1>4. T = SUBSET D
  BY <1>1, <1>2, <1>3, SubsetInduction
<1>5. QED
  BY <1>4 DEF T

\* Multiples of e have multiples of e as sums.
Multiples(f, e, E) == \A x \in E : \E k \in Int : f[x] = k * e

LEMMA SumMultiple ==
  ASSUME NEW D, IsFiniteSet(D), NEW f, NEW F, SumsOver(F, f, D), NEW e \in Int,
         NEW E \in SUBSET D, Multiples(f, e, E)
  PROVE  \E k \in Int : F[E] = k * e
<1> DEFINE T == {S \in SUBSET E : \E k \in Int : F[S] = k * e}
<1>1. {} \in T
  <2>1. F[{}] = 0 /\ 0 * e = 0
    BY DEF SumsOver
  <2>2. QED
    BY <2>1
<1>2. ASSUME NEW S \in T, NEW x \in E \ S PROVE S \cup {x} \in T
  <2>1. PICK j \in Int : F[S] = j * e
    OBVIOUS
  <2>2. PICK k \in Int : f[x] = k * e
    BY DEF Multiples
  <2>3. F[S \cup {x}] = f[x] + F[S]
    <3>1. S \in SUBSET D /\ x \in D \ S
      OBVIOUS
    <3>2. QED
      BY <3>1, SumParts
  <2>4. k * e + j * e = (k + j) * e /\ k + j \in Int
    OBVIOUS
  <2>5. F[S \cup {x}] = (k + j) * e
    BY <2>1, <2>2, <2>3, <2>4
  <2>6. QED
    BY <2>4, <2>5
<1>3. T \in SUBSET (SUBSET E) /\ IsFiniteSet(E)
  BY FS_Subset
<1> HIDE DEF T
<1>4. T = SUBSET E
  BY <1>1, <1>2, <1>3, SubsetInduction
<1>5. E \in T
  BY <1>4
<1>6. QED
  BY <1>5 DEF T

\* What holds of numbers, times a and times b, holds of their sums.
Within(f, a, g, b, D) == \A x \in D : f[x] * a <= g[x] * b

LEMMA SumScaled ==
  ASSUME NEW D, IsFiniteSet(D), NEW f \in [D -> Int], NEW g \in [D -> Int], NEW F, NEW G,
         SumsOver(F, f, D), SumsOver(G, g, D), NEW a \in Int, NEW b \in Int,
         Within(f, a, g, b, D)
  PROVE  F[D] * a <= G[D] * b
<1> DEFINE T == {S \in SUBSET D : F[S] * a <= G[S] * b}
<1>1. {} \in T
  <2>1. F[{}] = 0 /\ G[{}] = 0 /\ 0 * a = 0 /\ 0 * b = 0
    BY DEF SumsOver
  <2>2. QED
    BY <2>1
<1>2. ASSUME NEW S \in T, NEW x \in D \ S PROVE S \cup {x} \in T
  <2>1. S \in SUBSET D /\ F[S] * a <= G[S] * b /\ f[x] * a <= g[x] * b
    BY DEF Within
  <2>2. /\ F[S \cup {x}] = f[x] + F[S] /\ F[S] \in Int
        /\ G[S \cup {x}] = g[x] + G[S] /\ G[S] \in Int /\ S \cup {x} \in SUBSET D
    <3>1. F[S \cup {x}] = f[x] + F[S] /\ F[S] \in Int /\ S \cup {x} \in SUBSET D
      <4>1. /\ \A R \in SUBSET D : F[R] \in Int
            /\ \A R \in SUBSET D : \A z \in D \ R :
                 F[R \cup {z}] = f[z] + F[R] /\ R \cup {z} \in SUBSET D
        BY SumParts
      <4>2. QED
        BY <2>1, <4>1
    <3>2. G[S \cup {x}] = g[x] + G[S] /\ G[S] \in Int
      <4>1. /\ \A R \in SUBSET D : G[R] \in Int
            /\ \A R \in SUBSET D : \A z \in D \ R :
                 G[R \cup {z}] = g[z] + G[R] /\ R \cup {z} \in SUBSET D
        BY SumParts
      <4>2. QED
        BY <2>1, <4>1
    <3>3. QED
      BY <3>1, <3>2
  <2>3. f[x] \in Int /\ g[x] \in Int
    OBVIOUS
  <2>4. \A m, n, k \in Int : (m + n) * k = m * k + n * k /\ m * k \in Int
    OBVIOUS
  <2>5. (f[x] + F[S]) * a = f[x] * a + F[S] * a /\ (g[x] + G[S]) * b = g[x] * b + G[S] * b
    BY <2>2, <2>3, <2>4
  <2>6. f[x] * a \in Int /\ F[S] * a \in Int /\ g[x] * b \in Int /\ G[S] * b \in Int
    BY <2>2, <2>3, <2>4
  <2>7. F[S \cup {x}] * a <= G[S \cup {x}] * b
    BY <2>1, <2>2, <2>5, <2>6
  <2>8. QED
    BY <2>2, <2>7
<1>3. T \in SUBSET (SUBSET D)
  OBVIOUS
<1> HIDE DEF T
<1>4. T = SUBSET D
  BY <1>1, <1>2, <1>3, SubsetInduction
<1>5. D \in T
  BY <1>4
<1>6. QED
  BY <1>5 DEF T

-----------------------------------------------------------------------------
(* Code points.                                                            *)

LEMMA SymbolsFinite == IsFiniteSet(Symbols) /\ Symbols \in SUBSET Nat
<1>1. MapSize - 1 \in Int
  BY HuffmanAssumption
<1>2. QED
  BY <1>1, FS_Interval DEF Symbols

LEMMA EatsIs ==
  ASSUME NEW l \in 0 .. Width
  PROVE  /\ Eats(l) \in Powers /\ Eats(l) \in Nat \ {0}
         /\ 2 ^ l \in Nat \ {0} /\ Eats(l) * 2 ^ l = 2 ^ Width /\ 2 ^ Width \in Nat
         /\ l # 0 => Eats(l - 1) = 2 * Eats(l)
<1>1. Width \in Nat /\ Width - l \in Nat /\ l \in Nat /\ Width - l + l = Width
  BY HuffmanAssumption
<1>2. Eats(l) \in Powers /\ Eats(l) \in Nat \ {0} /\ 2 ^ l \in Nat \ {0} /\ 2 ^ Width \in Nat
  BY <1>1, PowersOfTwo DEF Eats
<1>3. Eats(l) * 2 ^ l = 2 ^ Width
  <2>1. 2 ^ ((Width - l) + l) = 2 ^ (Width - l) * 2 ^ l
    BY <1>1, PowerOfSum
  <2>2. QED
    BY <1>1, <2>1 DEF Eats
<1>4. ASSUME l # 0 PROVE Eats(l - 1) = 2 * Eats(l)
  <2>1. Width - (l - 1) = (Width - l) + 1
    BY <1>1, <1>4
  <2>2. 2 ^ ((Width - l) + 1) = 2 * 2 ^ (Width - l)
    BY <1>1, PowerOfNext
  <2>3. QED
    BY <2>1, <2>2 DEF Eats
<1>5. QED
  BY <1>2, <1>3, <1>4

\* What a shorter length eats is a multiple of what a longer one does.
LEMMA EatsMore ==
  ASSUME NEW l \in 0 .. Width, NEW m \in 0 .. Width, l <= m
  PROVE  \E k \in Nat \ {0} : Eats(l) = k * Eats(m)
<1>1. /\ Width \in Nat /\ Width - m \in Nat /\ m - l \in Nat
      /\ Width - l = (m - l) + (Width - m)
  BY HuffmanAssumption
<1>2. 2 ^ (Width - l) = 2 ^ (m - l) * 2 ^ (Width - m) /\ 2 ^ (m - l) \in Nat \ {0}
  BY <1>1, PowerOfSum, PowersOfTwo
<1>3. QED
  BY <1>2 DEF Eats

LEMMA EatsAtOne ==
  /\ Eats(0) = 2 ^ Width /\ 2 ^ Width = 2 * Eats(1) /\ Eats(1) \in Nat \ {0} /\ 1 \in 0 .. Width
  /\ Eats(1) = 2 ^ (Width - 1)
<1>1. 0 \in 0 .. Width /\ 1 \in 0 .. Width /\ Width - 0 = Width /\ 1 - 1 = 0
  BY HuffmanAssumption
<1>2. Eats(0) = 2 ^ Width /\ Eats(1) = 2 ^ (Width - 1)
  BY <1>1 DEF Eats
<1>3. Eats(0) = 2 * Eats(1) /\ Eats(1) \in Nat \ {0}
  <2>1. Eats(1 - 1) = 2 * Eats(1) /\ Eats(1) \in Nat \ {0}
    BY <1>1, EatsIs
  <2>2. QED
    BY <1>1, <2>1
<1>4. QED
  BY <1>1, <1>2, <1>3

\* What the symbols eat.
Eaten(c, len) == [s \in Symbols |-> IF c[s] = 0 THEN 0 ELSE Eats(len[s])]

LEMMA EatenIs ==
  ASSUME NEW c, NEW len \in [Symbols -> 0 .. Width]
  PROVE  /\ Eaten(c, len) \in [Symbols -> Nat] /\ Eaten(c, len) \in [Symbols -> Int]
         /\ \E F : /\ SumsOver(F, Eaten(c, len), Symbols)
                   /\ Left(c, len) = 2 ^ Width - F[Symbols] /\ F[Symbols] \in Nat
<1>1. \A s \in Symbols : Eats(len[s]) \in Nat
  BY EatsIs
<1>2. Eaten(c, len) \in [Symbols -> Nat]
  BY <1>1 DEF Eaten
<1>3. PICK f : f = Eaten(c, len)
  OBVIOUS
<1>4. f \in [Symbols -> Nat] /\ f \in [Symbols -> Int]
  BY <1>2, <1>3
<1>5. PICK F : SumsOver(F, f, Symbols) /\ SumFunction(f) = F[Symbols]
  BY <1>4, SymbolsFinite, SumIs
<1>6. F[Symbols] \in Nat
  <2>1. \A S \in SUBSET Symbols : F[S] \in Nat
    BY <1>4, <1>5, SymbolsFinite, SumNatural
  <2>2. QED
    BY <2>1
<1>7. Left(c, len) = 2 ^ Width - F[Symbols]
  BY <1>3, <1>5 DEF Left, Eaten
<1>8. QED
  BY <1>3, <1>4, <1>5, <1>6, <1>7

LEMMA PessimisticIs ==
  ASSUME NEW n \in Nat, NEW total \in Nat, n <= total
  PROVE  /\ Pessimistic(n, total) \in 0 .. MaxBitLen /\ (Pessimistic(n, total) = 0 <=> n = 0)
         /\ n # 0 /\ total <= 2 ^ MaxBitLen => n * 2 ^ Pessimistic(n, total) >= total
         /\ n # 0 /\ n = total => Pessimistic(n, total) = 1
<1> DEFINE fits == {len \in 1 .. MaxBitLen : n * 2 ^ len >= total}
<1>1. MaxBitLen \in Nat /\ MaxBitLen >= 1 /\ 2 ^ MaxBitLen \in Nat
  BY HuffmanAssumption, PowersOfTwo
<1>2. CASE n = 0
  BY <1>1, <1>2 DEF Pessimistic
<1>3. CASE n # 0 /\ fits = {}
  <2>1. Pessimistic(n, total) = MaxBitLen
    BY <1>3 DEF Pessimistic
  <2>2. ~(n * 2 ^ MaxBitLen >= total)
    <3>1. \A len \in 1 .. MaxBitLen : ~(n * 2 ^ len >= total)
      BY <1>3
    <3>2. MaxBitLen \in 1 .. MaxBitLen
      BY <1>1
    <3>3. QED
      BY <3>1, <3>2
  <2>3. n * 2 ^ MaxBitLen \in Nat /\ n * 2 ^ MaxBitLen >= 2 ^ MaxBitLen
    <3>1. 1 * 2 ^ MaxBitLen <= n * 2 ^ MaxBitLen
      BY <1>1, <1>3, ProductGrows
    <3>2. QED
      BY <1>1, <3>1
  <2>4. n # total
    <3>1. 2 ^ 1 = 2 /\ 1 \in 1 .. MaxBitLen
      BY <1>1, PowerOfZero, PowerOfNext
    <3>2. ~(n * 2 ^ 1 >= total)
      BY <1>3, <3>1
    <3>3. QED
      BY <3>1, <3>2
  <2>5. ~(total <= 2 ^ MaxBitLen)
    BY <1>1, <2>2, <2>3
  <2>6. QED
    BY <1>1, <1>3, <2>1, <2>4, <2>5
<1>4. CASE n # 0 /\ fits # {}
  <2>1. Pessimistic(n, total) = Min(fits)
    BY <1>4 DEF Pessimistic
  <2>2. fits \in SUBSET Nat
    BY <1>1
  <2>3. Min(fits) \in fits /\ \A y \in fits : Min(fits) <= y
    BY <1>4, <2>2, MinIs
  <2>4. n = total => 1 \in fits
    <3>1. 2 ^ 1 = 2 /\ 1 \in 1 .. MaxBitLen
      BY <1>1, PowerOfZero, PowerOfNext
    <3>2. QED
      BY <3>1
  <2>5. PICK m : m = Min(fits)
    OBVIOUS
  <2>6. m \in 1 .. MaxBitLen /\ n * 2 ^ m >= total /\ (n = total => m <= 1)
    BY <2>3, <2>4, <2>5
  <2> HIDE DEF fits
  <2>7. QED
    BY <1>1, <1>4, <2>1, <2>5, <2>6
<1>5. QED
  BY <1>2, <1>3, <1>4

-----------------------------------------------------------------------------
(* The invariant of optimize_huffman_coeffs.                               *)

Sized ==
  /\ count \in [Symbols -> Nat] /\ Counted # {}
  /\ length \in [Symbols -> 0 .. MaxBitLen] /\ \A s \in Symbols : length[s] = 0 <=> count[s] = 0
  /\ gain \in [Symbols -> Nat]
  /\ budget = Left(count, length)
  /\ level \in 0 .. MaxBitLen /\ smooth \in Nat /\ (stage = "smoothing" => smooth # 0)

\* A symbol that is not worth shortening cannot be shortened, or is too expensive.
WrittenOff == \A s \in Counted : gain[s] = 0 => length[s] = 1 \/ budget < Eats(length[s])

\* One symbol has one bit, and no wish.
Alone == \A s \in Counted : Counted = {s} => length[s] = 1 /\ gain[s] = 0

GivenAway ==
  stage = "done" => budget <= 0 \/ (Cardinality(Counted) = 1 /\ budget = 2 ^ (Width - 1))

LengthInv == Sized /\ WrittenOff /\ Alone /\ GivenAway

LEMMA SizesIs == MaxBitLen \in 1 .. Width /\ Width \in Nat /\ 0 .. MaxBitLen \subseteq 0 .. Width
BY HuffmanAssumption

\* One bit less for each of A.
LEMMA BitsLess ==
  ASSUME NEW c \in [Symbols -> Nat], NEW len \in [Symbols -> 0 .. Width],
         NEW new \in [Symbols -> 0 .. Width], NEW A \in SUBSET Symbols, NEW l \in 1 .. Width,
         \A s \in A : c[s] # 0 /\ len[s] = l,
         \A s \in Symbols : new[s] = IF s \in A THEN l - 1 ELSE len[s]
  PROVE  Left(c, new) = Left(c, len) - Cardinality(A) * Eats(l)
<1>1. PICK F : /\ SumsOver(F, Eaten(c, len), Symbols)
               /\ Left(c, len) = 2 ^ Width - F[Symbols] /\ F[Symbols] \in Nat
  BY EatenIs
<1>2. PICK G : /\ SumsOver(G, Eaten(c, new), Symbols)
               /\ Left(c, new) = 2 ^ Width - G[Symbols] /\ G[Symbols] \in Nat
  BY EatenIs
<1>3. Eaten(c, len) \in [Symbols -> Int] /\ Eaten(c, new) \in [Symbols -> Int]
  BY EatenIs
<1>4. l \in 0 .. Width /\ l # 0
  BY SizesIs
<1>5. Eats(l) \in Nat /\ Eats(l - 1) = 2 * Eats(l)
  BY <1>4, EatsIs
<1>6. ASSUME NEW s \in Symbols
      PROVE  Eaten(c, new)[s] = IF s \in A THEN Eaten(c, len)[s] + Eats(l) ELSE Eaten(c, len)[s]
  <2>1. CASE s \in A
    <3>1. c[s] # 0 /\ len[s] = l /\ new[s] = l - 1
      BY <2>1
    <3>2. Eaten(c, new)[s] = Eats(l - 1) /\ Eaten(c, len)[s] = Eats(l)
      BY <3>1 DEF Eaten
    <3>3. QED
      BY <1>5, <2>1, <3>2
  <2>2. CASE s \notin A
    <3>1. new[s] = len[s]
      BY <2>2
    <3>2. QED
      BY <2>2, <3>1 DEF Eaten
  <2>3. QED
    BY <2>1, <2>2
<1>7. PICK f \in [Symbols -> Int], g \in [Symbols -> Int] : f = Eaten(c, len) /\ g = Eaten(c, new)
  BY <1>3
<1>8. PICK e \in Int : e = Eats(l)
  BY <1>5
<1>9. MoreOn(G, g, F, f, A, e, Symbols)
  BY <1>1, <1>2, <1>6, <1>7, <1>8 DEF MoreOn
<1>10. G[Symbols] = F[Symbols] + Cardinality(A) * e
  <2>1. Symbols \cap A = A /\ Symbols \in SUBSET Symbols
    OBVIOUS
  <2>2. G[Symbols] = F[Symbols] + Cardinality(Symbols \cap A) * e
    BY <1>9, <2>1, SymbolsFinite, SumMore
  <2>3. QED
    BY <2>1, <2>2
<1>11. PICK n \in Int : n = Cardinality(A) * e
  <2>1. Cardinality(A) \in Nat
    BY SymbolsFinite, FS_Subset, FS_CardinalityType
  <2>2. QED
    BY <2>1
<1>12. 2 ^ Width \in Nat
  BY <1>4, EatsIs
<1>13. QED
  BY <1>1, <1>2, <1>8, <1>10, <1>11, <1>12

\* Two symbols leave no more than they do not eat.
LEMMA LeftOver ==
  ASSUME NEW c \in [Symbols -> Nat], NEW len \in [Symbols -> 0 .. Width], NEW s \in Symbols, c[s] # 0
  PROVE  /\ Left(c, len) \in Int /\ Left(c, len) <= 2 ^ Width - Eats(len[s])
         /\ \A t \in Symbols : t # s /\ c[t] # 0 => Left(c, len) <= 2 ^ Width - (Eats(len[s]) + Eats(len[t]))
<1>1. PICK F : /\ SumsOver(F, Eaten(c, len), Symbols)
               /\ Left(c, len) = 2 ^ Width - F[Symbols] /\ F[Symbols] \in Nat
  BY EatenIs
<1>2. PICK f \in [Symbols -> Nat] : f = Eaten(c, len)
  BY EatenIs
<1>3. SumsOver(F, f, Symbols)
  BY <1>1, <1>2
<1>4. /\ f[s] <= F[Symbols] /\ f[s] \in Nat
      /\ \A t \in Symbols : t # s => f[t] \in Nat /\ f[s] + f[t] <= F[Symbols]
  BY <1>3, SymbolsFinite, SumOfTwo
<1>5. \A t \in Symbols : c[t] # 0 => f[t] = Eats(len[t])
  BY <1>2 DEF Eaten
<1>6. 2 ^ Width \in Nat
  BY EatsAtOne
<1>7. QED
  BY <1>1, <1>4, <1>5, <1>6

LEMMA CountedIs ==
  ASSUME Sized
  PROVE  /\ Counted \in SUBSET Symbols /\ IsFiniteSet(Counted) /\ \A s \in Symbols : s \in Counted <=> count[s] # 0
         /\ length \in [Symbols -> 0 .. Width]
         /\ \A s \in Counted : length[s] \in 1 .. MaxBitLen /\ length[s] \in 0 .. Width /\ length[s] # 0
         /\ budget \in Int
<1>1. Counted \in SUBSET Symbols /\ \A s \in Symbols : s \in Counted <=> count[s] # 0
  BY DEF Counted, Sized
<1>2. IsFiniteSet(Counted)
  BY <1>1, SymbolsFinite, FS_Subset
<1>3. length \in [Symbols -> 0 .. Width]
  BY SizesIs DEF Sized
<1>4. \A s \in Counted : length[s] \in 1 .. MaxBitLen /\ length[s] \in 0 .. Width /\ length[s] # 0
  BY <1>1, SizesIs DEF Sized
<1>5. budget \in Int
  <2>1. PICK s \in Symbols : count[s] # 0
    BY <1>1 DEF Sized
  <2>2. QED
    BY <1>3, <2>1, LeftOver DEF Sized
<1>6. QED
  BY <1>1, <1>2, <1>3, <1>4, <1>5

\* A symbol of one bit that could be shortened has no other beside it.
LEMMA OneBit ==
  ASSUME Sized, NEW s \in Counted, length[s] = 1
  PROVE  budget <= Eats(1) /\ (budget >= Eats(1) => Counted = {s} /\ budget = Eats(1))
<1>1. budget = Left(count, length) /\ count \in [Symbols -> Nat]
  BY DEF Sized
<1>2. /\ Counted \in SUBSET Symbols /\ \A t \in Symbols : t \in Counted <=> count[t] # 0
      /\ length \in [Symbols -> 0 .. Width] /\ budget \in Int
      /\ \A t \in Counted : length[t] \in 0 .. Width
  BY CountedIs
<1>3. /\ budget <= 2 ^ Width - Eats(1)
      /\ \A t \in Symbols : t # s /\ count[t] # 0 => budget <= 2 ^ Width - (Eats(1) + Eats(length[t]))
  BY <1>1, <1>2, LeftOver
<1>4. 2 ^ Width = 2 * Eats(1) /\ Eats(1) \in Nat \ {0}
  BY EatsAtOne
<1>5. ASSUME budget >= Eats(1), NEW t \in Counted, t # s PROVE FALSE
  <2>1. budget <= 2 ^ Width - (Eats(1) + Eats(length[t])) /\ Eats(length[t]) \in Nat \ {0}
    BY <1>2, <1>3, <1>5, EatsIs
  <2>2. QED
    BY <1>2, <1>4, <1>5, <2>1
<1>6. QED
  BY <1>2, <1>3, <1>4, <1>5

\* The lengths one starts with.
LEMMA FirstLengths ==
  ASSUME count \in [Symbols -> Nat], Counted # {}, length = InitialLengths(count)
  PROVE  /\ length \in [Symbols -> 0 .. MaxBitLen] /\ \A s \in Symbols : length[s] = 0 <=> count[s] = 0
         /\ \A s \in Counted : Counted = {s} => length[s] = 1
         /\ SumFunction(count) <= 2 ^ MaxBitLen => Left(count, length) >= 0
<1>1. count \in [Symbols -> Int]
  OBVIOUS
<1>2. PICK C : SumsOver(C, count, Symbols) /\ SumFunction(count) = C[Symbols]
  BY <1>1, SymbolsFinite, SumIs
<1>3. \A s \in Symbols : count[s] <= C[Symbols] /\ count[s] \in Nat /\ C[Symbols] \in Nat
  BY <1>2, SymbolsFinite, SumOfTwo
<1>4. PICK z \in Symbols : count[z] > 0 /\ C[Symbols] \in Nat
  BY <1>3 DEF Counted
<1>5. PICK total \in Nat \ {0} : total = C[Symbols]
  BY <1>3, <1>4
<1>6. \A s \in Symbols : length[s] = Pessimistic(count[s], total)
  BY <1>2, <1>5 DEF InitialLengths
<1>7. /\ \A s \in Symbols : length[s] \in 0 .. MaxBitLen /\ (length[s] = 0 <=> count[s] = 0)
      /\ total <= 2 ^ MaxBitLen => \A s \in Symbols : count[s] # 0 => count[s] * 2 ^ length[s] >= total
      /\ \A s \in Symbols : count[s] # 0 /\ count[s] = total => length[s] = 1
  BY <1>3, <1>5, <1>6, PessimisticIs
<1>8. length \in [Symbols -> 0 .. MaxBitLen]
  BY <1>7 DEF InitialLengths
<1>9. ASSUME NEW s \in Counted, Counted = {s} PROVE length[s] = 1
  <2>1. s \in Symbols /\ count[s] # 0 /\ \A t \in Symbols \ {s} : count[t] = 0
    BY <1>9 DEF Counted
  <2>2. \A t \in Symbols \ {s} : \E k \in Int : count[t] = k * 0
    <3>1. 0 = 0 * 0 /\ 0 \in Int
      OBVIOUS
    <3>2. QED
      BY <2>1, <3>1
  <2>3. Symbols \ {s} \in SUBSET Symbols /\ Multiples(count, 0, Symbols \ {s}) /\ 0 \in Int
    BY <2>2 DEF Multiples
  <2>4. \E k \in Int : C[Symbols \ {s}] = k * 0
    BY <1>2, <2>3, SymbolsFinite, SumMultiple
  <2>5. C[Symbols \ {s}] = 0
    BY <2>4
  <2>6. C[Symbols] = count[s] + C[Symbols \ {s}]
    BY <1>2, <2>1 DEF SumsOver
  <2>7. QED
    BY <1>3, <1>5, <1>7, <2>1, <2>5, <2>6
<1>10. ASSUME SumFunction(count) <= 2 ^ MaxBitLen PROVE Left(count, length) >= 0
  <2>1. length \in [Symbols -> 0 .. Width]
    BY <1>8, SizesIs
  <2>2. PICK F : /\ SumsOver(F, Eaten(count, length), Symbols)
                 /\ Left(count, length) = 2 ^ Width - F[Symbols] /\ F[Symbols] \in Nat
    BY <2>1, EatenIs
  <2>3. PICK f \in [Symbols -> Int] : f = Eaten(count, length)
    BY <2>1, EatenIs
  <2>4. PICK W \in Nat : W = 2 ^ Width
    BY EatsAtOne
  <2>5. ASSUME NEW s \in Symbols PROVE f[s] * total <= count[s] * W
    <3>1. CASE count[s] = 0
      <4>1. f[s] = 0 /\ 0 * total = 0 /\ 0 * W = 0
        BY <2>3, <3>1 DEF Eaten
      <4>2. QED
        BY <3>1, <4>1
    <3>2. CASE count[s] # 0
      <4>1. f[s] = Eats(length[s])
        BY <2>3, <3>2 DEF Eaten
      <4>2. PICK e \in Nat, p \in Nat : e = Eats(length[s]) /\ p = 2 ^ length[s] /\ e * p = W
        BY <2>1, <2>4, EatsIs
      <4>3. PICK n \in Nat : n = count[s] /\ n * p >= total
        BY <1>2, <1>3, <1>5, <1>7, <1>10, <3>2, <4>2
      <4>4. e * total <= e * (n * p)
        <5>1. n * p \in Nat
          OBVIOUS
        <5>2. QED
          BY <4>3, <5>1, ProductGrows
      <4>5. e * (n * p) = n * (e * p)
        OBVIOUS
      <4>6. QED
        BY <4>1, <4>2, <4>3, <4>4, <4>5
    <3>3. QED
      BY <3>1, <3>2
  <2>6. F[Symbols] * total <= C[Symbols] * W
    <3>1. SumsOver(F, f, Symbols)
      BY <2>2, <2>3
    <3>2. Within(f, total, count, W, Symbols)
      BY <2>5 DEF Within
    <3>3. total \in Int /\ W \in Int
      OBVIOUS
    <3>4. QED
      BY <1>1, <1>2, <3>1, <3>2, <3>3, SymbolsFinite, SumScaled
  <2>7. PICK m \in Nat : m = F[Symbols] /\ m * total <= total * W
    BY <1>5, <2>2, <2>6
  <2>8. m <= W
    <3> SUFFICES ASSUME m > W PROVE FALSE
      BY <2>4, <2>7
    <3>1. W * total < m * total
      BY ProductStrict
    <3>2. W * total = total * W /\ m * total \in Nat /\ total * W \in Nat
      OBVIOUS
    <3>3. QED
      BY <2>7, <3>1, <3>2
  <2>9. QED
    BY <2>2, <2>4, <2>7, <2>8
<1>11. QED
  BY <1>7, <1>8, <1>9, <1>10

LEMMA LengthInit ==
  HInit => LengthInv /\ (SumFunction(count) <= 2 ^ MaxBitLen => budget >= 0)
<1> SUFFICES ASSUME HInit PROVE LengthInv /\ (SumFunction(count) <= 2 ^ MaxBitLen => budget >= 0)
  OBVIOUS
<1>1. count \in [Symbols -> Nat] /\ Counted # {} /\ length = InitialLengths(count) /\ budget = Left(count, length)
  BY HuffmanAssumption DEF HInit
<1>2. /\ length \in [Symbols -> 0 .. MaxBitLen] /\ \A s \in Symbols : length[s] = 0 <=> count[s] = 0
      /\ \A s \in Counted : Counted = {s} => length[s] = 1
      /\ SumFunction(count) <= 2 ^ MaxBitLen => Left(count, length) >= 0
  BY <1>1, FirstLengths
<1>3. ASSUME NEW s \in Symbols, count[s] # 0
      PROVE  Saving(count[s], length[s]) \in Nat \ {0}
  <2>1. length[s] \in Nat /\ count[s] \in Nat
    BY <1>1, <1>2
  <2>2. 2 ^ length[s] \in Nat \ {0}
    BY <2>1, PowersOfTwo
  <2>3. PICK n \in Nat, p \in Nat \ {0} : n = count[s] /\ p = 2 ^ length[s] /\ n >= 1
    BY <1>3, <2>1, <2>2
  <2>4. 1 * p <= n * p /\ n * p \in Nat
    BY <2>3, ProductGrows
  <2>5. n * p # 0
    BY <2>3, <2>4
  <2>6. QED
    BY <2>3, <2>4, <2>5 DEF Saving
<1>4. gain = [s \in Symbols |-> IF count[s] = 0 \/ length[s] = 1 THEN 0 ELSE Saving(count[s], length[s])]
  BY DEF HInit
<1>5. gain \in [Symbols -> Nat] /\ \A s \in Symbols : count[s] # 0 /\ gain[s] = 0 => length[s] = 1
  BY <1>3, <1>4
<1>6. \A s \in Symbols : length[s] = 1 => gain[s] = 0
  BY <1>4
<1>7. level \in 0 .. MaxBitLen
  <2> DEFINE S == {length[s] : s \in Symbols}
  <2>1. S \in SUBSET (0 .. MaxBitLen) /\ S # {}
    BY <1>1, <1>2 DEF Counted
  <2>2. MaxBitLen \in Nat /\ level = Max(S)
    BY HuffmanAssumption DEF HInit
  <2> HIDE DEF S
  <2>3. Max(S) \in S
    BY <2>1, <2>2, MaxIs
  <2>4. QED
    BY <2>1, <2>2, <2>3
<1>8. smooth \in Nat /\ (stage = "smoothing" => smooth # 0) /\ stage # "done"
  BY HuffmanAssumption DEF HInit
<1>9. \A s \in Counted : s \in Symbols /\ count[s] # 0
  BY <1>1 DEF Counted
<1>10. Sized
  BY <1>1, <1>2, <1>5, <1>7, <1>8 DEF Sized
<1>11. WrittenOff /\ Alone /\ GivenAway
  BY <1>2, <1>5, <1>6, <1>8, <1>9 DEF WrittenOff, Alone, GivenAway
<1>12. QED
  BY <1>1, <1>2, <1>10, <1>11 DEF LengthInv

-----------------------------------------------------------------------------
(* Sorting.                                                                *)

\* before is a strict total order of S.
Strict(before, S) ==
  /\ \A s \in S : <<s, s>> \notin before
  /\ \A s \in S, t \in S, u \in S :
       <<s, t>> \in before /\ <<t, u>> \in before => <<s, u>> \in before
  /\ \A s \in S, t \in S : s # t => <<s, t>> \in before \/ <<t, s>> \in before

\* q has all of S, each behind those before it.
Sorts(q, S, before) ==
  /\ q \in Seq(S)
  /\ \A s \in S : \E k \in 1 .. Len(q) : q[k] = s
  /\ \A j \in 1 .. Len(q), k \in 1 .. Len(q) : <<q[j], q[k]>> \in before <=> j < k

InFrontOf(S, before, s) == {t \in S : <<t, s>> \in before}

LEMMA RanksApart ==
  ASSUME NEW S, IsFiniteSet(S), NEW before, Strict(before, S), NEW s \in S, NEW t \in S
  PROVE  /\ Cardinality(InFrontOf(S, before, s)) \in 0 .. Cardinality(S) - 1
         /\ <<s, t>> \in before =>
              Cardinality(InFrontOf(S, before, s)) < Cardinality(InFrontOf(S, before, t))
<1>1. /\ InFrontOf(S, before, s) \in SUBSET S /\ InFrontOf(S, before, t) \in SUBSET S
      /\ s \notin InFrontOf(S, before, s)
  BY DEF InFrontOf, Strict
<1>2. /\ IsFiniteSet(InFrontOf(S, before, s)) /\ IsFiniteSet(InFrontOf(S, before, t))
      /\ IsFiniteSet(S \ {s}) /\ Cardinality(S \ {s}) = Cardinality(S) - 1
      /\ Cardinality(S) \in Nat
  BY <1>1, FS_Subset, FS_RemoveElement, FS_CardinalityType
<1>3. Cardinality(InFrontOf(S, before, s)) \in Nat /\ Cardinality(InFrontOf(S, before, t)) \in Nat
  BY <1>2, FS_CardinalityType
<1>4. Cardinality(InFrontOf(S, before, s)) <= Cardinality(S \ {s})
  <2>1. InFrontOf(S, before, s) \in SUBSET (S \ {s})
    BY <1>1
  <2>2. QED
    BY <1>2, <2>1, FS_Subset
<1>5. ASSUME <<s, t>> \in before
      PROVE  Cardinality(InFrontOf(S, before, s)) < Cardinality(InFrontOf(S, before, t))
  <2>1. InFrontOf(S, before, s) \in SUBSET (InFrontOf(S, before, t) \ {s}) /\ s \in InFrontOf(S, before, t)
    BY <1>1, <1>5 DEF InFrontOf, Strict
  <2>2. /\ IsFiniteSet(InFrontOf(S, before, t) \ {s})
        /\ Cardinality(InFrontOf(S, before, t) \ {s}) = Cardinality(InFrontOf(S, before, t)) - 1
    BY <1>2, <2>1, FS_RemoveElement
  <2>3. Cardinality(InFrontOf(S, before, s)) <= Cardinality(InFrontOf(S, before, t) \ {s})
    BY <2>1, <2>2, FS_Subset
  <2>4. QED
    BY <1>3, <2>2, <2>3
<1>6. QED
  BY <1>2, <1>3, <1>4, <1>5

LEMMA SortedIs ==
  ASSUME NEW S, IsFiniteSet(S), NEW before, Strict(before, S)
  PROVE  Sorts(Sorted(S, before), S, before)
<1> DEFINE rank == [s \in S |-> Cardinality(InFrontOf(S, before, s))]
           q == Sorted(S, before)
<1>1. PICK n \in Nat : n = Cardinality(S)
  BY FS_CardinalityType
<1>2. \A s \in S : rank[s] \in 0 .. n - 1
  BY <1>1, RanksApart
<1>3. \A s \in S, t \in S : <<s, t>> \in before => rank[s] < rank[t]
  BY RanksApart
<1>4. \A s \in S, t \in S : rank[s] = rank[t] => s = t
  <2> SUFFICES ASSUME NEW s \in S, NEW t \in S, rank[s] = rank[t], s # t PROVE FALSE
    OBVIOUS
  <2>1. rank[s] < rank[t] \/ rank[t] < rank[s]
    BY <1>3 DEF Strict
  <2>2. PICK a \in Nat, b \in Nat : a = rank[s] /\ b = rank[t]
    BY <1>2
  <2> HIDE DEF rank
  <2>3. QED
    BY <2>1, <2>2
<1>5. rank \in [S -> 0 .. n - 1]
  BY <1>2
<1>6. \A k \in 0 .. n - 1 : \E s \in S : rank[s] = k
  <2>1. PICK r : r = rank
    OBVIOUS
  <2>2. r \in Injection(S, 0 .. n - 1)
    BY <1>4, <1>5, <2>1 DEF Injection, IsInjective
  <2>3. IsFiniteSet(0 .. n - 1) /\ Cardinality(0 .. n - 1) = n
    <3>1. 0 \in Int /\ n - 1 \in Int
      BY <1>1
    <3>2. QED
      BY <1>1, <3>1, FS_Interval
  <2>4. r \in Surjection(S, 0 .. n - 1)
    BY <1>1, <2>2, <2>3, FS_Injection
  <2>5. QED
    BY <2>1, <2>4 DEF Surjection
<1>7. q = [k \in 1 .. n |-> CHOOSE s \in S : Cardinality(InFrontOf(S, before, s)) = k - 1]
  BY <1>1 DEF Sorted, InFrontOf
<1>8. ASSUME NEW k \in 1 .. n PROVE q[k] \in S /\ rank[q[k]] = k - 1
  <2>1. PICK s \in S : rank[s] = k - 1
    BY <1>6
  <2>2. q[k] = CHOOSE z \in S : Cardinality(InFrontOf(S, before, z)) = k - 1
    BY <1>7
  <2>3. s \in S /\ Cardinality(InFrontOf(S, before, s)) = k - 1
    BY <2>1
  <2>4. q[k] \in S /\ Cardinality(InFrontOf(S, before, q[k])) = k - 1
    <3> HIDE DEF q, rank
    <3>1. QED
      BY <2>2, <2>3
  <2>5. QED
    BY <2>4
<1>9. q \in [1 .. n -> S]
  BY <1>7, <1>8
<1> HIDE DEF q, rank
<1>10. q \in Seq(S) /\ Len(q) = n
  BY <1>1, <1>9
<1>11. \A s \in S : \E k \in 1 .. n : q[k] = s
  <2> TAKE s \in S
  <2>1. PICK r \in 0 .. n - 1 : r = rank[s]
    BY <1>2
  <2>2. r + 1 \in 1 .. n /\ (r + 1) - 1 = r
    BY <1>1
  <2>3. q[r + 1] \in S /\ rank[q[r + 1]] = r
    BY <1>8, <2>2
  <2>4. q[r + 1] = s
    BY <1>4, <2>1, <2>3
  <2>5. QED
    BY <2>2, <2>4
<1>12. ASSUME NEW j \in 1 .. n, NEW k \in 1 .. n PROVE <<q[j], q[k]>> \in before <=> j < k
  <2>1. q[j] \in S /\ q[k] \in S /\ rank[q[j]] = j - 1 /\ rank[q[k]] = k - 1 /\ j \in Nat /\ k \in Nat
    BY <1>1, <1>8
  <2>2. CASE <<q[j], q[k]>> \in before
    <3>1. rank[q[j]] < rank[q[k]]
      BY <1>3, <2>1, <2>2
    <3>2. QED
      BY <2>1, <2>2, <3>1
  <2>3. CASE <<q[k], q[j]>> \in before
    <3>1. rank[q[k]] < rank[q[j]]
      BY <1>3, <2>1, <2>3
    <3>2. k < j
      BY <2>1, <3>1
    <3>3. <<q[j], q[k]>> \notin before
      <4>1. <<q[j], q[k]>> \in before => rank[q[j]] < rank[q[k]]
        BY <1>3, <2>1
      <4>2. QED
        BY <2>1, <3>2, <4>1
    <3>4. QED
      BY <2>1, <3>2, <3>3
  <2>4. CASE q[j] = q[k]
    <3>1. <<q[j], q[k]>> \notin before
      BY <2>1, <2>4 DEF Strict
    <3>2. j = k
      BY <2>1, <2>4
    <3>3. QED
      BY <2>1, <3>1, <3>2
  <2>5. QED
    BY <2>1, <2>2, <2>3, <2>4 DEF Strict
<1>13. QED
  BY <1>10, <1>11, <1>12 DEF q, Sorts

-----------------------------------------------------------------------------
(* One pass over the symbols that occur.                                   *)

LEMMA ByCountIs ==
  ASSUME Sized
  PROVE  ByCount \in Seq(Counted) /\ \A s \in Counted : \E k \in 1 .. Len(ByCount) : ByCount[k] = s
<1> DEFINE before == {p \in Symbols \X Symbols :
                        count[p[1]] > count[p[2]] \/ (count[p[1]] = count[p[2]] /\ p[1] < p[2])}
<1>1. Counted \in SUBSET Symbols /\ IsFiniteSet(Counted)
  BY CountedIs
<1>2. \A s \in Symbols, t \in Symbols :
        <<s, t>> \in before <=> count[s] > count[t] \/ (count[s] = count[t] /\ s < t)
  OBVIOUS
<1>3. \A s \in Counted : s \in Nat /\ count[s] \in Nat /\ s \in Symbols
  BY <1>1, SymbolsFinite DEF Sized
<1> HIDE DEF before
<1>4. Strict(before, Counted)
  <2>1. \A s \in Counted : <<s, s>> \notin before
    BY <1>2, <1>3
  <2>2. \A s \in Counted, t \in Counted, u \in Counted :
          <<s, t>> \in before /\ <<t, u>> \in before => <<s, u>> \in before
    BY <1>2, <1>3
  <2>3. \A s \in Counted, t \in Counted : s # t => <<s, t>> \in before \/ <<t, s>> \in before
    BY <1>2, <1>3
  <2>4. QED
    BY <2>1, <2>2, <2>3 DEF Strict
<1>5. ByCount = Sorted(Counted, before)
  BY DEF ByCount, before
<1>6. Sorts(ByCount, Counted, before)
  BY <1>1, <1>4, <1>5, SortedIs
<1>7. QED
  BY <1>6 DEF Sorts

\* The pass, as steps over what it has found so far.
Finds == [best : Nat, index : Symbols \cup {-1}, gain : [Symbols -> Nat]]
Nothing == [best |-> 0, index |-> -1, gain |-> gain]
Scanning == [p \in Finds \X Counted |-> ScanStep(p[1], p[2])]

LEMMA ScanStepIs ==
  ASSUME NEW a \in Finds, NEW s \in Symbols
  PROVE  ScanStep(a, s) \in Finds
<1>1. /\ a.best \in Nat /\ a.index \in Symbols \cup {-1} /\ a.gain \in [Symbols -> Nat]
      /\ a = [best |-> a.best, index |-> a.index, gain |-> a.gain]
  BY DEF Finds
<1>2. [a EXCEPT !.gain[s] = 0] \in Finds
  <2>1. [a.gain EXCEPT ![s] = 0] \in [Symbols -> Nat]
    BY <1>1
  <2>2. QED
    BY <1>1, <2>1 DEF Finds
<1>3. [a EXCEPT !.best = a.gain[s], !.index = s] \in Finds
  <2>1. a.gain[s] \in Nat
    BY <1>1
  <2>2. QED
    BY <1>1, <2>1 DEF Finds
<1>4. QED
  BY <1>2, <1>3 DEF ScanStep

LEMMA ScanningKeeps ==
  ASSUME Sized
  PROVE  Keeps(Scanning, Nothing, Finds, Counted)
<1>1. Nothing \in Finds
  BY DEF Nothing, Finds, Sized
<1>2. Counted \in SUBSET Symbols
  BY CountedIs
<1>3. \A a \in Finds, s \in Counted : ScanStep(a, s) \in Finds
  BY <1>2, ScanStepIs
<1>4. QED
  BY <1>1, <1>3 DEF Keeps, Scanning

LEMMA ScanningStep ==
  ASSUME NEW a \in Finds, NEW s \in Counted
  PROVE  Scanning[<<a, s>>] = ScanStep(a, s)
<1>1. <<a, s>> \in Finds \X Counted
  OBVIOUS
<1>2. Scanning[<<a, s>>] = ScanStep(<<a, s>>[1], <<a, s>>[2])
  BY <1>1, Zenon DEF Scanning
<1>3. QED
  BY <1>2

Passing(F, base, q) ==
  F = [S \in SUBSET (1 .. Len(q)) |-> IF S = {} THEN base ELSE ScanStep(F[S \ {Max(S)}], q[Max(S)])]

LEMMA ScanFolds ==
  ASSUME Sized
  PROVE  Scan = Fold(Scanning, Nothing, ByCount)
<1> DEFINE G == CHOOSE F : Passing(F, Nothing, ByCount)
<1>0. PICK q \in Seq(Counted) : q = ByCount
  BY ByCountIs
<1>1. PICK n \in Nat : n = Len(q) /\ DOMAIN q = 1 .. n /\ \A k \in 1 .. n : q[k] \in Counted
  OBVIOUS
<1>2. Scan = G[1 .. n]
  BY <1>0, <1>1 DEF Scan, FoldLeft, MapThenFoldSet, Passing, Nothing
<1>3. ASSUME NEW F, NEW S \in SUBSET (1 .. n), S # {}, F[S \ {Max(S)}] \in Finds
      PROVE  Scanning[<<F[S \ {Max(S)}], q[Max(S)]>>] = ScanStep(F[S \ {Max(S)}], q[Max(S)])
  <2>1. q[Max(S)] \in Counted
    BY <1>1, <1>3, GreatestIndex
  <2>2. QED
    BY <1>3, <2>1, ScanningStep
<1>4. Passing(G, Nothing, q)
  <2>1. PICK H \in [SUBSET (1 .. n) -> Finds] : Run(H, Scanning, Nothing, q)
    BY <1>1, ScanningKeeps, RunExists
  <2>2. \A S \in SUBSET (1 .. n) : H[S \ {Max(S)}] \in Finds
    OBVIOUS
  <2>3. Passing(H, Nothing, q)
    BY <1>1, <1>3, <2>1, <2>2 DEF Run, RunTo, Passing
  <2>4. QED
    BY <1>0, <2>3
<1> HIDE DEF G
<1>5. Unrolls(G, Scanning, Nothing, Finds, q)
  <2>1. G[{}] = Nothing
    BY <1>1, <1>4 DEF Passing
  <2>2. \A S \in SUBSET (1 .. n) : S # {} => G[S] = ScanStep(G[S \ {Max(S)}], q[Max(S)])
    BY <1>1, <1>4 DEF Passing
  <2>3. QED
    BY <1>1, <1>3, <2>1, <2>2 DEF Unrolls
<1>6. QED
  BY <1>0, <1>1, <1>2, <1>5, ScanningKeeps, UnrollsIs

TooDear(s) == s \in Counted /\ budget < Eats(length[s])

\* What a pass knows when it has seen the symbols of q.
Found(a, q) ==
  /\ a \in Finds
  /\ a.index = -1 => a.best = 0 /\ \A k \in 1 .. Len(q) : a.gain[q[k]] = 0
  /\ a.index # -1 => a.index \in Counted /\ gain[a.index] # 0 /\ ~TooDear(a.index)
  /\ \A s \in Symbols : a.gain[s] = gain[s] \/ (a.gain[s] = 0 /\ TooDear(s))

LEMMA FoundNext ==
  ASSUME Sized, NEW q \in Seq(Counted), NEW a, Found(a, q), NEW x \in Counted
  PROVE  Found(ScanStep(a, x), Append(q, x))
<1>1. /\ a \in Finds
      /\ a.index = -1 => a.best = 0 /\ \A k \in 1 .. Len(q) : a.gain[q[k]] = 0
      /\ a.index # -1 => a.index \in Counted /\ gain[a.index] # 0 /\ ~TooDear(a.index)
      /\ \A s \in Symbols : a.gain[s] = gain[s] \/ (a.gain[s] = 0 /\ TooDear(s))
  BY DEF Found
<1>2. Counted \in SUBSET Symbols /\ x \in Symbols
  BY CountedIs
<1>3. PICK n \in Nat : n = Len(q) /\ \A k \in 1 .. n : q[k] \in Symbols
  BY <1>2
<1>4. /\ Len(Append(q, x)) = n + 1 /\ Append(q, x)[n + 1] = x
      /\ \A k \in 1 .. n : Append(q, x)[k] = q[k]
  BY <1>3
<1>5. a.best \in Nat /\ a.index \in Symbols \cup {-1} /\ a.gain \in [Symbols -> Nat]
  BY <1>1 DEF Finds
<1>6. ScanStep(a, x) \in Finds
  BY <1>1, <1>2, ScanStepIs
<1>7. PICK r \in Seq(Counted) : r = Append(q, x)
  <2>1. Append(q, x) \in Seq(Counted)
    OBVIOUS
  <2>2. QED
    BY <2>1, Zenon
<1>8. \A k \in 1 .. Len(r) : r[k] = x \/ \E j \in 1 .. n : r[k] = q[j]
  <2> TAKE k \in 1 .. Len(r)
  <2>1. k = n + 1 \/ k \in 1 .. n
    BY <1>3, <1>4, <1>7
  <2>2. QED
    BY <1>4, <1>7, <2>1
<1>9. PICK b : b = ScanStep(a, x)
  OBVIOUS
<1>10. CASE a.gain[x] <= a.best
  <2>1. b = a
    BY <1>9, <1>10 DEF ScanStep
  <2>2. a.index = -1 => a.gain[x] = 0
    BY <1>1, <1>2, <1>5, <1>10
  <2>3. a.index = -1 => \A k \in 1 .. Len(r) : a.gain[r[k]] = 0
    BY <1>1, <1>3, <1>8, <2>2
  <2>4. QED
    BY <1>1, <1>7, <1>9, <2>1, <2>3 DEF Found
<1>11. CASE ~(a.gain[x] <= a.best) /\ budget < Eats(length[x])
  <2>1. b = [a EXCEPT !.gain[x] = 0]
    BY <1>9, <1>11 DEF ScanStep
  <2>2. /\ b.index = a.index /\ b.best = a.best
        /\ \A s \in Symbols : b.gain[s] = IF s = x THEN 0 ELSE a.gain[s]
    BY <1>1, <1>2, <1>5, <2>1 DEF Finds
  <2>3. b.index = -1 => \A k \in 1 .. Len(r) : b.gain[r[k]] = 0
    BY <1>1, <1>2, <1>3, <1>8, <2>2
  <2>4. TooDear(x)
    BY <1>11 DEF TooDear
  <2>5. \A s \in Symbols : b.gain[s] = gain[s] \/ (b.gain[s] = 0 /\ TooDear(s))
    BY <1>1, <2>2, <2>4
  <2>6. b \in Finds
    BY <1>6, <1>9
  <2>7. QED
    BY <1>1, <1>7, <1>9, <2>2, <2>3, <2>5, <2>6 DEF Found
<1>12. CASE ~(a.gain[x] <= a.best) /\ ~(budget < Eats(length[x]))
  <2>1. b = [a EXCEPT !.best = a.gain[x], !.index = x]
    BY <1>9, <1>12 DEF ScanStep
  <2>2. b.index = x /\ b.gain = a.gain
    BY <1>1, <2>1 DEF Finds
  <2>3. a.gain[x] # 0
    BY <1>2, <1>5, <1>12
  <2>4. gain[x] # 0 /\ ~TooDear(x)
    BY <1>1, <1>2, <1>12, <2>3 DEF TooDear
  <2>5. x # -1
    BY <1>2, SymbolsFinite
  <2>6. b \in Finds
    BY <1>6, <1>9
  <2>7. QED
    BY <1>1, <1>7, <1>9, <2>2, <2>4, <2>5, <2>6 DEF Found
<1>13. QED
  BY <1>10, <1>11, <1>12

LEMMA ScanIs ==
  ASSUME Sized
  PROVE  /\ Scan.gain \in [Symbols -> Nat]
         /\ \A s \in Symbols : Scan.gain[s] = gain[s] \/ (Scan.gain[s] = 0 /\ TooDear(s))
         /\ Scan.index = -1 => \A s \in Counted : gain[s] = 0 \/ TooDear(s)
         /\ Scan.index # -1 => Scan.index \in Counted /\ gain[Scan.index] # 0 /\ ~TooDear(Scan.index)
<1> DEFINE P == {q \in Seq(Counted) : Found(Fold(Scanning, Nothing, q), q)}
<1>0. Keeps(Scanning, Nothing, Finds, Counted)
  BY ScanningKeeps
<1>1. <<>> \in P
  <2>1. Fold(Scanning, Nothing, <<>>) = Nothing
    BY <1>0, FoldEmpty
  <2>2. Nothing \in Finds
    BY <1>0 DEF Keeps
  <2>3. Found(Nothing, <<>>)
    BY <2>2 DEF Found, Nothing
  <2>4. QED
    BY <2>1, <2>3
<1>2. ASSUME NEW q \in P, NEW x \in Counted PROVE Append(q, x) \in P
  <2>1. q \in Seq(Counted) /\ Found(Fold(Scanning, Nothing, q), q) /\ Append(q, x) \in Seq(Counted)
    OBVIOUS
  <2>2. Fold(Scanning, Nothing, Append(q, x)) = Scanning[<<Fold(Scanning, Nothing, q), x>>]
    BY <1>0, <2>1, FoldAppend
  <2>3. PICK a : a = Fold(Scanning, Nothing, q) /\ Found(a, q)
    BY <2>1
  <2>4. a \in Finds
    BY <2>3 DEF Found
  <2>5. Fold(Scanning, Nothing, Append(q, x)) = ScanStep(a, x)
    BY <2>2, <2>3, <2>4, ScanningStep
  <2>6. Found(ScanStep(a, x), Append(q, x))
    BY <2>1, <2>3, FoundNext
  <2>7. QED
    BY <2>1, <2>5, <2>6
<1>3. P \in SUBSET Seq(Counted)
  OBVIOUS
<1> HIDE DEF P
<1>4. P = Seq(Counted)
  BY <1>1, <1>2, <1>3, SequenceInduction
<1>5. ByCount \in Seq(Counted) /\ \A s \in Counted : \E k \in 1 .. Len(ByCount) : ByCount[k] = s
  BY ByCountIs
<1>6. Found(Scan, ByCount)
  <2>1. ByCount \in P
    BY <1>4, <1>5
  <2>2. QED
    BY <2>1, ScanFolds DEF P
<1>7. Counted \in SUBSET Symbols
  BY CountedIs
<1>8. Scan.index = -1 => \A s \in Counted : Scan.gain[s] = 0
  BY <1>5, <1>6 DEF Found
<1>9. QED
  BY <1>6, <1>7, <1>8 DEF Found, Finds

-----------------------------------------------------------------------------
(* The steps of optimize_huffman_coeffs.                                   *)

\* What is left is divided by what the longest length eats.
LEMMA LeftDivides ==
  ASSUME Sized
  PROVE  \E m \in Counted : /\ \A s \in Counted : length[s] <= length[m]
                            /\ \E k \in Int : budget = k * Eats(length[m])
<1>1. /\ Counted \in SUBSET Symbols /\ \A s \in Symbols : s \in Counted <=> count[s] # 0
      /\ length \in [Symbols -> 0 .. Width] /\ budget \in Int
      /\ \A s \in Counted : length[s] \in 0 .. Width
  BY CountedIs
<1>2. PICK m \in Counted : \A s \in Counted : length[s] <= length[m]
  <2> DEFINE L == {length[s] : s \in Counted}
  <2>1. L \in SUBSET (0 .. Width) /\ L # {} /\ Width \in Nat
    BY <1>1, SizesIs DEF Sized
  <2>2. Max(L) \in L /\ \A y \in L : y <= Max(L)
    BY <2>1, MaxIs
  <2>3. PICK m \in Counted : length[m] = Max(L)
    BY <2>2
  <2>4. \A s \in Counted : length[s] <= length[m]
    BY <2>2, <2>3
  <2>5. QED
    BY <2>4
<1>3. PICK e \in Nat \ {0} : e = Eats(length[m])
  BY <1>1, EatsIs
<1>4. PICK F : /\ SumsOver(F, Eaten(count, length), Symbols)
               /\ Left(count, length) = 2 ^ Width - F[Symbols] /\ F[Symbols] \in Nat
  BY <1>1, EatenIs
<1>5. Multiples(Eaten(count, length), e, Symbols)
  <2> SUFFICES ASSUME NEW s \in Symbols PROVE \E k \in Int : Eaten(count, length)[s] = k * e
    BY DEF Multiples
  <2>1. CASE count[s] = 0
    <3>1. Eaten(count, length)[s] = 0 /\ 0 = 0 * e /\ 0 \in Int
      BY <2>1 DEF Eaten
    <3>2. QED
      BY <3>1
  <2>2. CASE count[s] # 0
    <3>1. Eaten(count, length)[s] = Eats(length[s])
      BY <2>2 DEF Eaten
    <3>2. PICK k \in Nat \ {0} : Eats(length[s]) = k * Eats(length[m])
      <4>1. s \in Counted
        BY <1>1, <2>2
      <4>2. length[s] \in 0 .. Width /\ length[m] \in 0 .. Width /\ length[s] <= length[m]
        BY <1>1, <1>2, <4>1
      <4>3. QED
        BY <4>2, EatsMore
    <3>3. QED
      BY <1>3, <3>1, <3>2
  <2>3. QED
    BY <2>1, <2>2
<1>6. PICK j \in Int : F[Symbols] = j * e
  <2>1. Symbols \in SUBSET Symbols /\ e \in Int
    OBVIOUS
  <2>2. QED
    BY <1>4, <1>5, <2>1, SymbolsFinite, SumMultiple
<1>7. PICK k \in Nat \ {0} : 2 ^ Width = k * e
  <2>1. 0 \in 0 .. Width /\ length[m] \in 0 .. Width /\ 0 <= length[m]
    BY <1>1, SizesIs
  <2>2. QED
    BY <1>3, <2>1, EatsMore, EatsAtOne
<1>8. budget = (k - j) * e
  <2>1. k * e - j * e = (k - j) * e
    OBVIOUS
  <2>2. QED
    BY <1>4, <1>6, <1>7, <2>1 DEF Sized
<1>9. QED
  BY <1>2, <1>3, <1>8

\* One bit less for symbols that had l bits: the rest of Sized.
LEMMA Shortened ==
  ASSUME Sized, NEW A \in SUBSET Counted, NEW l \in 2 .. Width,
         \A s \in A : length[s] = l,
         length' = [s \in Symbols |-> IF s \in A THEN l - 1 ELSE length[s]],
         budget' = budget - Cardinality(A) * Eats(l),
         count' = count, gain' \in [Symbols -> Nat],
         level' \in 0 .. MaxBitLen, smooth' = smooth, stage' = stage
  PROVE  /\ Sized' /\ Counted' = Counted
         /\ \A s \in Symbols : length'[s] = IF s \in A THEN l - 1 ELSE length[s]
<1>1. /\ count \in [Symbols -> Nat] /\ Counted # {}
      /\ length \in [Symbols -> 0 .. MaxBitLen] /\ \A s \in Symbols : length[s] = 0 <=> count[s] = 0
      /\ budget = Left(count, length)
      /\ smooth \in Nat /\ (stage = "smoothing" => smooth # 0)
  BY DEF Sized
<1>2. /\ Counted \in SUBSET Symbols /\ \A s \in Symbols : s \in Counted <=> count[s] # 0
      /\ length \in [Symbols -> 0 .. Width]
  BY CountedIs
<1>3. Counted' = Counted /\ Symbols' = Symbols /\ MaxBitLen' = MaxBitLen
  BY DEF Counted, Symbols
<1>4. \A s \in Symbols : length'[s] = IF s \in A THEN l - 1 ELSE length[s]
  OBVIOUS
<1>5. \A s \in Symbols : length'[s] \in 0 .. MaxBitLen /\ (length'[s] = 0 <=> count[s] = 0)
  <2> TAKE s \in Symbols
  <2>1. CASE s \in A
    <3>1. length'[s] = l - 1 /\ length[s] = l /\ l \in 2 .. Width /\ length[s] \in 0 .. MaxBitLen
      BY <1>1, <1>4, <2>1
    <3>2. count[s] # 0
      BY <1>2, <2>1
    <3>3. QED
      BY <3>1, <3>2, SizesIs
  <2>2. CASE s \notin A
    BY <1>1, <1>4, <2>2
  <2>3. QED
    BY <2>1, <2>2
<1>6. length' \in [Symbols -> 0 .. MaxBitLen]
  BY <1>5
<1>7. budget' = Left(count, length')
  <2>1. A \in SUBSET Symbols /\ \A s \in A : count[s] # 0 /\ length[s] = l
    BY <1>2
  <2>2. length' \in [Symbols -> 0 .. Width] /\ l \in 1 .. Width
    BY <1>6, SizesIs
  <2>3. Left(count, length') = Left(count, length) - Cardinality(A) * Eats(l)
    BY <1>1, <1>2, <1>4, <2>1, <2>2, BitsLess
  <2>4. QED
    BY <1>1, <2>3
<1>8. Left(count, length)' = Left(count, length')
  BY DEF Left, Eats, Symbols
<1>9. QED
  BY <1>1, <1>3, <1>4, <1>5, <1>6, <1>7, <1>8 DEF Sized

\* The invariant, with what the DBG_ASSERTs say of the budget.
Affordable == SumFunction(count) <= 2 ^ MaxBitLen => budget >= 0

LEMMA RemoveLevelKeeps ==
  ASSUME LengthInv, RemoveLevel
  PROVE  LengthInv' /\ (Affordable => Affordable')
<1>1. Sized /\ WrittenOff /\ Alone
  BY DEF LengthInv
<1>2. /\ Counted \in SUBSET Symbols /\ \A s \in Symbols : s \in Counted <=> count[s] # 0
      /\ \A s \in Counted : length[s] \in 1 .. MaxBitLen /\ length[s] \in 0 .. Width
      /\ budget \in Int
  BY <1>1, CountedIs
<1>3. /\ stage = "smoothing" /\ level >= smooth /\ LevelFits
      /\ length' = [s \in Symbols |-> IF s \in AtLevel THEN level - 1 ELSE length[s]]
      /\ budget' = budget - LevelCosts /\ level' = level - 1
      /\ count' = count /\ gain' = gain /\ smooth' = smooth /\ stage' = stage
  BY DEF RemoveLevel
<1>4. /\ level \in 0 .. MaxBitLen /\ smooth \in Nat /\ smooth # 0 /\ gain \in [Symbols -> Nat]
      /\ \A s \in Symbols : length[s] = 0 <=> count[s] = 0
  BY <1>1, <1>3 DEF Sized
<1>5. level \in 1 .. Width /\ level \in 0 .. Width /\ level - 1 \in 0 .. MaxBitLen
  BY <1>3, <1>4, SizesIs
<1>6. PICK e \in Nat \ {0} : e = Eats(level)
  BY <1>5, EatsIs
<1>7. PICK A \in SUBSET Counted : A = AtLevel /\ \A s \in A : length[s] = level
  <2>1. \A s \in AtLevel : s \in Symbols /\ length[s] = level
    BY DEF AtLevel
  <2>2. AtLevel \in SUBSET Counted
    BY <1>2, <1>4, <1>5, <2>1
  <2>3. QED
    BY <2>1, <2>2
<1>8. PICK n \in Nat : n = Cardinality(A) /\ (A # {} => n >= 1)
  <2>1. IsFiniteSet(A)
    BY <1>1, CountedIs, FS_Subset
  <2>2. Cardinality(A) \in Nat /\ (Cardinality(A) = 0 <=> A = {})
    BY <2>1, FS_CardinalityType, FS_EmptySet
  <2>3. QED
    BY <2>2
<1>9. PICK c \in Nat : c = n * e /\ (A # {} => c >= e)
  <2>1. n * e \in Nat
    OBVIOUS
  <2>2. A # {} => 1 * e <= n * e
    BY <1>8, ProductGrows
  <2>3. QED
    BY <2>1, <2>2
<1>10. c < budget /\ budget' = budget - c /\ LevelCosts = c
  BY <1>3, <1>6, <1>7, <1>8, <1>9 DEF LevelFits, LevelCosts
<1>11. ASSUME A # {} PROVE level # 1
  <2> SUFFICES ASSUME level = 1 PROVE FALSE
    OBVIOUS
  <2>1. PICK s \in A : length[s] = 1
    BY <1>7, <1>11
  <2>2. budget <= Eats(1)
    BY <1>1, <2>1, OneBit
  <2>3. QED
    BY <1>2, <1>6, <1>9, <1>10, <1>11, <2>2
<1>12. /\ Sized' /\ Counted' = Counted
       /\ \A s \in Symbols : length'[s] = IF s \in A THEN level - 1 ELSE length[s]
  <2>1. CASE A # {}
    <3>1. level \in 2 .. Width
      BY <1>5, <1>11, <2>1
    <3>2. budget' = budget - Cardinality(A) * Eats(level)
      BY <1>6, <1>8, <1>9, <1>10
    <3>3. length' = [s \in Symbols |-> IF s \in A THEN level - 1 ELSE length[s]]
      BY <1>3, <1>7
    <3>4. gain' \in [Symbols -> Nat] /\ level' \in 0 .. MaxBitLen
      BY <1>3, <1>4, <1>5
    <3>5. QED
      BY <1>1, <1>3, <1>7, <3>1, <3>2, <3>3, <3>4, Shortened
  <2>2. CASE A = {}
    <3>1. length' = length
      <4>1. \A s \in Symbols : s \notin AtLevel
        BY <1>7, <2>2
      <4>2. length' = [s \in Symbols |-> length[s]]
        BY <1>3, <4>1
      <4>3. QED
        BY <1>1, <4>2 DEF Sized
    <3>2. budget' = budget
      <4>1. n = 0
        BY <1>8, <2>2, FS_EmptySet
      <4>2. QED
        BY <1>2, <1>9, <1>10, <4>1
    <3>3. Sized'
      BY <1>1, <1>3, <1>5, <3>1, <3>2 DEF Sized, Counted, Symbols, Left, Eats
    <3>4. Counted' = Counted
      BY <1>3 DEF Counted, Symbols
    <3>5. QED
      BY <2>2, <3>1, <3>3, <3>4
  <2>3. QED
    BY <2>1, <2>2
<1>13. WrittenOff'
  <2>1. ASSUME NEW s \in Counted, gain[s] = 0
        PROVE  length'[s] = 1 \/ budget' < Eats(length'[s])
    <3>1. s \in Symbols /\ (length[s] = 1 \/ budget < Eats(length[s]))
      BY <1>1, <1>2, <2>1 DEF WrittenOff
    <3>2. s \notin A
      <4> SUFFICES ASSUME s \in A PROVE FALSE
        OBVIOUS
      <4>1. length[s] = level /\ A # {}
        BY <1>7
      <4>2. budget < e
        BY <1>6, <1>11, <3>1, <4>1
      <4>3. QED
        BY <1>2, <1>9, <1>10, <4>1, <4>2
    <3>3. length'[s] = length[s]
      BY <1>12, <3>1, <3>2
    <3>4. Eats(length[s]) \in Nat
      BY <1>2, EatsIs
    <3>5. QED
      BY <1>2, <1>10, <3>1, <3>3, <3>4
  <2>2. \A s \in Symbols : Eats(length[s])' = Eats(length'[s])
    BY DEF Eats
  <2>3. QED
    BY <1>2, <1>3, <1>12, <2>1, <2>2 DEF WrittenOff, Eats
<1>14. Alone'
  <2>1. ASSUME NEW s \in Counted, Counted = {s} PROVE length'[s] = 1 /\ gain[s] = 0
    <3>1. length[s] = 1 /\ gain[s] = 0
      BY <1>1, <2>1 DEF Alone
    <3>2. s \notin A
      BY <1>7, <1>11, <3>1
    <3>3. QED
      BY <1>2, <1>12, <3>1, <3>2
  <2>2. QED
    BY <1>3, <1>12, <2>1 DEF Alone
<1>15. GivenAway'
  BY <1>3 DEF GivenAway
<1>16. Affordable => Affordable'
  BY <1>2, <1>3, <1>10 DEF Affordable
<1>17. QED
  BY <1>12, <1>13, <1>14, <1>15, <1>16 DEF LengthInv

LEMMA SmoothingOverKeeps ==
  ASSUME LengthInv, SmoothingOver
  PROVE  LengthInv' /\ (Affordable => Affordable')
<1>1. /\ stage' = "spending" /\ count' = count /\ length' = length /\ gain' = gain
      /\ budget' = budget /\ smooth' = smooth /\ level' = level
  BY DEF SmoothingOver
<1>2. Counted' = Counted
  BY <1>1 DEF Counted, Symbols
<1>3. Sized'
  BY <1>1, <1>2 DEF LengthInv, Sized, Symbols, Left, Eats
<1>4. WrittenOff' /\ Alone' /\ GivenAway'
  BY <1>1, <1>2 DEF LengthInv, WrittenOff, Alone, GivenAway, Eats
<1>5. QED
  BY <1>1, <1>3, <1>4 DEF LengthInv, Affordable

LEMMA SpendKeeps ==
  ASSUME LengthInv, Spend
  PROVE  LengthInv' /\ (Affordable => Affordable')
<1>1. Sized /\ WrittenOff /\ Alone
  BY DEF LengthInv
<1>2. /\ Counted \in SUBSET Symbols /\ \A s \in Symbols : s \in Counted <=> count[s] # 0
      /\ \A s \in Counted : length[s] \in 1 .. MaxBitLen /\ length[s] \in 0 .. Width
      /\ budget \in Int
  BY <1>1, CountedIs
<1>3. PICK x : x = Scan.index /\ x # -1
  BY DEF Spend
<1>4. /\ budget' = budget - Eats(length[x])
      /\ length' = [length EXCEPT ![x] = @ - 1]
      /\ gain' = [Scan.gain EXCEPT ![x] = Saving(count[x], length[x] - 1)]
      /\ count' = count /\ smooth' = smooth /\ level' = level /\ stage' = stage /\ stage = "spending"
  BY <1>3 DEF Spend
<1>5. /\ Scan.gain \in [Symbols -> Nat] /\ x \in Counted /\ gain[x] # 0 /\ ~TooDear(x)
      /\ \A s \in Symbols : Scan.gain[s] = gain[s] \/ (Scan.gain[s] = 0 /\ TooDear(s))
  BY <1>1, <1>3, ScanIs
<1>6. PICK g \in [Symbols -> Nat] :
        /\ g = Scan.gain /\ gain' = [g EXCEPT ![x] = Saving(count[x], length[x] - 1)]
        /\ \A s \in Symbols : g[s] = gain[s] \/ (g[s] = 0 /\ TooDear(s))
  BY <1>4, <1>5
<1>7. PICK e \in Nat \ {0} : e = Eats(length[x])
  BY <1>2, <1>5, EatsIs
<1>8. budget >= e
  BY <1>2, <1>5, <1>7 DEF TooDear
<1>9. length[x] # 1
  <2> SUFFICES ASSUME length[x] = 1 PROVE FALSE
    OBVIOUS
  <2>1. Counted = {x}
    BY <1>1, <1>5, <1>7, <1>8, OneBit
  <2>2. QED
    BY <1>1, <1>5, <2>1 DEF Alone
<1>10. PICK l \in 2 .. Width : l = length[x]
  BY <1>2, <1>5, <1>9, SizesIs
<1>11. PICK v \in Nat \ {0} : v = Saving(count[x], length[x] - 1)
  <2>1. l - 1 \in Nat /\ count[x] \in Nat /\ count[x] # 0
    BY <1>1, <1>2, <1>5 DEF Sized
  <2>2. PICK p \in Nat \ {0} : p = 2 ^ (l - 1)
    BY <2>1, PowersOfTwo
  <2>3. PICK n \in Nat : n = count[x] /\ n >= 1
    BY <2>1
  <2>4. 1 * p <= n * p /\ n * p \in Nat
    BY <2>3, ProductGrows
  <2>5. n * p # 0
    BY <2>4
  <2>6. QED
    BY <1>10, <2>2, <2>3, <2>4, <2>5 DEF Saving
<1>12. x \in Symbols
  BY <1>2, <1>5
<1>13. gain' \in [Symbols -> Nat] /\ \A s \in Symbols : gain'[s] = IF s = x THEN v ELSE g[s]
  BY <1>6, <1>11, <1>12
<1>14. /\ Sized' /\ Counted' = Counted
       /\ \A s \in Symbols : length'[s] = IF s \in {x} THEN l - 1 ELSE length[s]
  <2>1. {x} \in SUBSET Counted /\ \A s \in {x} : length[s] = l
    BY <1>5, <1>10
  <2>2. length' = [s \in Symbols |-> IF s \in {x} THEN l - 1 ELSE length[s]]
    <3>1. length \in [Symbols -> 0 .. MaxBitLen]
      BY <1>1 DEF Sized
    <3>2. QED
      BY <1>4, <1>10, <1>12, <3>1
  <2>3. budget' = budget - Cardinality({x}) * Eats(l)
    <3>1. Cardinality({x}) = 1
      BY FS_Singleton
    <3>2. 1 * e = e
      OBVIOUS
    <3>3. QED
      BY <1>4, <1>7, <1>10, <3>1, <3>2
  <2>4. level' \in 0 .. MaxBitLen
    BY <1>1, <1>4 DEF Sized
  <2>5. QED
    BY <1>1, <1>4, <1>13, <2>1, <2>2, <2>3, <2>4, Shortened
<1>15. WrittenOff'
  <2>1. ASSUME NEW s \in Counted, gain'[s] = 0
        PROVE  length'[s] = 1 \/ budget' < Eats(length'[s])
    <3>1. s \in Symbols /\ s # x /\ g[s] = 0
      BY <1>2, <1>13, <2>1
    <3>2. length'[s] = length[s] /\ Eats(length[s]) \in Nat
      BY <1>2, <1>14, <3>1, EatsIs
    <3>3. length[s] = 1 \/ budget < Eats(length[s])
      BY <1>1, <1>6, <3>1, <2>1 DEF WrittenOff, TooDear
    <3>4. QED
      BY <1>2, <1>4, <1>7, <3>2, <3>3
  <2>2. QED
    BY <1>14, <2>1 DEF WrittenOff, Eats
<1>16. Alone'
  <2>1. \A s \in Counted : Counted # {s}
    <3> SUFFICES ASSUME NEW s \in Counted, Counted = {s} PROVE FALSE
      OBVIOUS
    <3>1. s = x /\ gain[s] = 0
      BY <1>1, <1>5 DEF Alone
    <3>2. QED
      BY <1>5, <3>1
  <2>2. QED
    BY <1>14, <2>1 DEF Alone
<1>17. GivenAway'
  BY <1>4 DEF GivenAway
<1>18. Affordable => Affordable'
  BY <1>2, <1>4, <1>7, <1>8 DEF Affordable
<1>19. QED
  BY <1>14, <1>15, <1>16, <1>17, <1>18 DEF LengthInv

\* A pass that finds nobody: whoever has the longest code has one bit.
LEMMA NobodyWants ==
  ASSUME LengthInv, Scan.index = -1
  PROVE  budget <= 0 \/ (Cardinality(Counted) = 1 /\ budget = 2 ^ (Width - 1))
<1> SUFFICES ASSUME ~(budget <= 0) PROVE Cardinality(Counted) = 1 /\ budget = 2 ^ (Width - 1)
  OBVIOUS
<1>1. Sized /\ WrittenOff
  BY DEF LengthInv
<1>2. \A s \in Counted : length[s] \in 1 .. MaxBitLen /\ length[s] \in 0 .. Width /\ budget \in Int
  BY <1>1, CountedIs
<1>3. PICK m \in Counted : \E k \in Int : budget = k * Eats(length[m])
  BY <1>1, LeftDivides
<1>4. PICK e \in Nat \ {0} : e = Eats(length[m])
  BY <1>2, EatsIs
<1>5. budget >= e
  <2>1. PICK k \in Int : budget = k * e
    BY <1>3, <1>4
  <2>2. k >= 1
    <3> SUFFICES ASSUME k <= 0 PROVE FALSE
      BY <2>1
    <3>1. PICK j \in Nat : j = 0 - k
      OBVIOUS
    <3>2. j * e \in Nat /\ k * e = 0 - j * e
      BY <3>1
    <3>3. QED
      BY <2>1, <3>2
  <2>3. k \in Nat /\ 1 * e <= k * e
    BY <2>2, ProductGrows
  <2>4. QED
    BY <2>1, <2>3
<1>6. ~TooDear(m)
  BY <1>2, <1>4, <1>5 DEF TooDear
<1>7. gain[m] = 0
  BY <1>1, <1>6, ScanIs
<1>8. length[m] = 1
  BY <1>1, <1>6, <1>7 DEF WrittenOff, TooDear
<1>9. Counted = {m} /\ budget = Eats(1)
  BY <1>1, <1>4, <1>5, <1>8, OneBit
<1>10. QED
  BY <1>9, EatsAtOne, FS_Singleton

LEMMA SpendingOverKeeps ==
  ASSUME LengthInv, SpendingOver
  PROVE  LengthInv' /\ (Affordable => Affordable')
<1>1. /\ count' = count /\ length' = length /\ gain' = gain /\ stage' = "done"
      /\ budget' = budget /\ smooth' = smooth /\ level' = level /\ (budget = 0 \/ Scan.index = -1)
  BY DEF SpendingOver
<1>2. Counted' = Counted
  BY <1>1 DEF Counted, Symbols
<1>3. Sized'
  BY <1>1, <1>2 DEF LengthInv, Sized, Symbols, Left, Eats
<1>4. WrittenOff' /\ Alone'
  BY <1>1, <1>2 DEF LengthInv, WrittenOff, Alone, Eats
<1>5. budget <= 0 \/ (Cardinality(Counted) = 1 /\ budget = 2 ^ (Width - 1))
  BY <1>1, NobodyWants
<1>6. GivenAway'
  BY <1>1, <1>2, <1>5 DEF GivenAway
<1>7. QED
  BY <1>1, <1>3, <1>4, <1>6 DEF LengthInv, Affordable

LEMMA NothingDone ==
  ASSUME LengthInv, UNCHANGED hvars
  PROVE  LengthInv' /\ (Affordable => Affordable')
<1>1. /\ count' = count /\ length' = length /\ gain' = gain /\ stage' = stage
      /\ budget' = budget /\ smooth' = smooth /\ level' = level
  BY DEF hvars
<1>2. Counted' = Counted
  BY <1>1 DEF Counted, Symbols
<1>3. Sized'
  BY <1>1, <1>2 DEF LengthInv, Sized, Symbols, Left, Eats
<1>4. WrittenOff' /\ Alone' /\ GivenAway'
  BY <1>1, <1>2 DEF LengthInv, WrittenOff, Alone, GivenAway, Eats
<1>5. QED
  BY <1>1, <1>3, <1>4 DEF LengthInv, Affordable

\* Every step keeps the invariant.
THEOREM HuffmanInvariant == HSpec => [](LengthInv /\ Affordable)
<1>1. HInit => LengthInv /\ Affordable
  BY LengthInit DEF Affordable
<1>2. LengthInv /\ Affordable /\ [HNext]_hvars => LengthInv' /\ Affordable'
  <2> SUFFICES ASSUME LengthInv, Affordable, [HNext]_hvars PROVE LengthInv' /\ Affordable'
    OBVIOUS
  <2>1. CASE RemoveLevel
    BY <2>1, RemoveLevelKeeps
  <2>2. CASE SmoothingOver
    BY <2>2, SmoothingOverKeeps
  <2>3. CASE Spend
    BY <2>3, SpendKeeps
  <2>4. CASE SpendingOver
    BY <2>4, SpendingOverKeeps
  <2>5. CASE HTerminating
    BY <2>5, NothingDone DEF HTerminating
  <2>6. CASE UNCHANGED hvars
    BY <2>6, NothingDone
  <2>7. QED
    BY <2>1, <2>2, <2>3, <2>4, <2>5, <2>6 DEF HNext
<1>3. QED
  BY <1>1, <1>2, PTL DEF HSpec

\* optimize_huffman_coeffs, "Pessimistic budget is below zero": it never is, as
\* long as the symbols occur no more than 2^max_bit_len times together.
THEOREM HuffmanBudget == HSpec => [](SumFunction(count) <= 2 ^ MaxBitLen => BudgetKept)
<1>1. LengthInv /\ Affordable => (SumFunction(count) <= 2 ^ MaxBitLen => BudgetKept)
  BY DEF Affordable, BudgetKept
<1>2. QED
  BY <1>1, HuffmanInvariant, PTL

\* optimize_huffman_coeffs, "Fixed budget is not zero".
THEOREM HuffmanComplete == HSpec => [](SumFunction(count) <= 2 ^ MaxBitLen => Complete)
<1>1. LengthInv /\ Affordable => (SumFunction(count) <= 2 ^ MaxBitLen => Complete)
  <2> SUFFICES ASSUME LengthInv, Affordable, SumFunction(count) <= 2 ^ MaxBitLen, stage = "done"
               PROVE  budget = 0 \/ (Cardinality(Counted) = 1 /\ budget = 2 ^ (Width - 1))
    BY DEF Complete
  <2>1. budget \in Int /\ budget >= 0
    BY CountedIs DEF LengthInv, Affordable
  <2>2. budget <= 0 \/ (Cardinality(Counted) = 1 /\ budget = 2 ^ (Width - 1))
    BY DEF LengthInv, GivenAway
  <2>3. QED
    BY <2>1, <2>2
<1>2. QED
  BY <1>1, HuffmanInvariant, PTL

-----------------------------------------------------------------------------
(* The code, and what an inflater makes of the lengths.                    *)

\* The sum grows by e for each of E.
Alike(f, e, E) == \A x \in E : f[x] = e

LEMMA SumAlike ==
  ASSUME NEW D, IsFiniteSet(D), NEW f, NEW F, SumsOver(F, f, D), NEW e \in Nat,
         NEW L \in SUBSET D, NEW E \in SUBSET (D \ L), Alike(f, e, E)
  PROVE  F[L \cup E] = F[L] + Cardinality(E) * e /\ L \cup E \in SUBSET D
<1> DEFINE T == {S \in SUBSET E : F[L \cup S] = F[L] + Cardinality(S) * e}
<1>0. /\ \A R \in SUBSET D : F[R] \in Int
      /\ \A R \in SUBSET D : \A z \in R : F[R] = f[z] + F[R \ {z}] /\ R \ {z} \in SUBSET D
      /\ \A R \in SUBSET D : \A z \in D \ R :
           F[R \cup {z}] = f[z] + F[R] /\ R \cup {z} \in SUBSET D
  BY SumParts
<1>1. {} \in T
  <2>1. L \cup {} = L /\ F[L] \in Int /\ 0 * e = 0
    BY <1>0
  <2>2. Cardinality({}) = 0
    BY FS_EmptySet
  <2>3. QED
    BY <2>1, <2>2
<1>2. ASSUME NEW S \in T, NEW x \in E \ S PROVE S \cup {x} \in T
  <2>1. S \in SUBSET E /\ S \cup {x} \in SUBSET E /\ F[L \cup S] = F[L] + Cardinality(S) * e
    OBVIOUS
  <2>2. L \cup S \in SUBSET D /\ x \in D \ (L \cup S) /\ f[x] = e
    BY DEF Alike
  <2>3. F[(L \cup S) \cup {x}] = f[x] + F[L \cup S]
    <3>1. QED
      BY <1>0, <2>2
  <2>4. IsFiniteSet(S)
    BY <2>1, FS_Subset
  <2>5. Cardinality(S \cup {x}) = Cardinality(S) + 1 /\ Cardinality(S) \in Nat
    BY <2>4, FS_AddElement, FS_CardinalityType
  <2>6. PICK n \in Nat : n = Cardinality(S)
    BY <2>5
  <2>7. PICK p \in Int : p = n * e
    OBVIOUS
  <2>8. (n + 1) * e = p + e
    BY <2>7
  <2>9. (L \cup S) \cup {x} = L \cup (S \cup {x})
    OBVIOUS
  <2>10. F[L] \in Int
    BY <1>0
  <2>11. F[L \cup (S \cup {x})] = F[L] + (p + e)
    <3>1. F[L \cup S] = F[L] + p
      BY <2>1, <2>6, <2>7
    <3>2. f[x] = e
      BY <2>2
    <3>3. F[L \cup (S \cup {x})] = e + (F[L] + p)
      BY <2>3, <2>9, <3>1, <3>2
    <3>4. e + (F[L] + p) = F[L] + (p + e)
      BY <2>10
    <3>5. QED
      BY <3>3, <3>4
  <2>12. QED
    BY <2>1, <2>5, <2>6, <2>8, <2>11
<1>3. T \in SUBSET (SUBSET E) /\ IsFiniteSet(E)
  <2>1. E \in SUBSET D
    OBVIOUS
  <2>2. QED
    BY <2>1, FS_Subset
<1> HIDE DEF T
<1>4. T = SUBSET E
  BY <1>1, <1>2, <1>3, SubsetInduction
<1>5. E \in T
  BY <1>4
<1>6. QED
  BY <1>5 DEF T

\* What the codes of these lengths take up.
Takes == [s \in Symbols |-> Eats(length[s])]

LEMMA CodedIs ==
  ASSUME Sized
  PROVE  /\ Coded = Counted /\ Coded \in SUBSET Symbols /\ IsFiniteSet(Coded)
         /\ \A s \in Coded : length[s] \in 1 .. Width /\ length[s] \in 0 .. Width /\ s \in Nat
         /\ Takes \in [Symbols -> Nat] /\ Takes \in [Symbols -> Int]
<1>1. /\ Counted \in SUBSET Symbols /\ IsFiniteSet(Counted)
      /\ \A s \in Symbols : s \in Counted <=> count[s] # 0
      /\ length \in [Symbols -> 0 .. Width]
  BY CountedIs
<1>2. \A s \in Symbols : length[s] = 0 <=> count[s] = 0
  BY DEF Sized
<1>3. \A s \in Symbols : length[s] > 0 <=> length[s] # 0
  BY <1>1
<1>4. Coded = Counted
  BY <1>1, <1>2, <1>3 DEF Coded
<1>5. \A s \in Coded : length[s] \in 1 .. Width /\ length[s] \in 0 .. Width /\ s \in Nat
  BY <1>1, <1>2, <1>4, SymbolsFinite, SizesIs
<1>6. \A s \in Symbols : Eats(length[s]) \in Nat
  BY <1>1, EatsIs
<1>7. QED
  BY <1>1, <1>4, <1>5, <1>6 DEF Takes

Eating == [p \in Nat \X Coded |-> p[1] + Eats(length[p[2]])]

LEMMA EatingKeeps ==
  ASSUME Sized
  PROVE  /\ Keeps(Eating, 0, Nat, Coded)
         /\ \A v \in Nat, s \in Coded : Eating[<<v, s>>] = v + Eats(length[s])
<1>1. \A s \in Coded : Eats(length[s]) \in Nat
  BY CodedIs, EatsIs
<1>2. ASSUME NEW v \in Nat, NEW s \in Coded PROVE Eating[<<v, s>>] = v + Eats(length[s])
  <2>1. <<v, s>> \in Nat \X Coded
    OBVIOUS
  <2>2. Eating[<<v, s>>] = <<v, s>>[1] + Eats(length[<<v, s>>[2]])
    BY <2>1, Zenon DEF Eating
  <2>3. QED
    BY <2>2
<1>3. \A p \in Nat \X Coded : p[1] + Eats(length[p[2]]) \in Nat
  BY <1>1
<1>4. Eating \in [Nat \X Coded -> Nat]
  BY <1>3 DEF Eating
<1>5. QED
  BY <1>2, <1>4 DEF Keeps

EatsAll(q) == FoldLeft(LAMBDA v, s : v + Eats(length[s]), 0, q)

EatsUp(F, q) ==
  F = [S \in SUBSET (1 .. Len(q)) |-> IF S = {} THEN 0 ELSE F[S \ {Max(S)}] + Eats(length[q[Max(S)]])]

LEMMA EatingFolds ==
  ASSUME Sized, NEW q \in Seq(Coded)
  PROVE  EatsAll(q) = Fold(Eating, 0, q)
<1> DEFINE G == CHOOSE F : EatsUp(F, q)
<1>1. PICK n \in Nat : n = Len(q) /\ DOMAIN q = 1 .. n /\ \A k \in 1 .. n : q[k] \in Coded
  OBVIOUS
<1>2. EatsAll(q) = G[1 .. n]
  BY <1>1 DEF EatsAll, FoldLeft, MapThenFoldSet, EatsUp
<1>3. ASSUME NEW F, NEW S \in SUBSET (1 .. n), S # {}, F[S \ {Max(S)}] \in Nat
      PROVE  Eating[<<F[S \ {Max(S)}], q[Max(S)]>>] = F[S \ {Max(S)}] + Eats(length[q[Max(S)]])
  <2>1. q[Max(S)] \in Coded
    BY <1>1, <1>3, GreatestIndex
  <2>2. QED
    BY <1>3, <2>1, EatingKeeps
<1>4. EatsUp(G, q)
  <2>1. PICK H \in [SUBSET (1 .. n) -> Nat] : Run(H, Eating, 0, q)
    BY <1>1, EatingKeeps, RunExists
  <2>2. \A S \in SUBSET (1 .. n) : H[S \ {Max(S)}] \in Nat
    OBVIOUS
  <2>3. EatsUp(H, q)
    BY <1>1, <1>3, <2>1, <2>2 DEF Run, RunTo, EatsUp
  <2>4. QED
    BY <2>3
<1> HIDE DEF G
<1>5. Unrolls(G, Eating, 0, Nat, q)
  <2>1. G[{}] = 0
    BY <1>1, <1>4 DEF EatsUp
  <2>2. \A S \in SUBSET (1 .. n) : S # {} => G[S] = G[S \ {Max(S)}] + Eats(length[q[Max(S)]])
    BY <1>1, <1>4 DEF EatsUp
  <2>3. QED
    BY <1>1, <1>3, <2>1, <2>2 DEF Unrolls
<1>6. QED
  BY <1>1, <1>2, <1>5, EatingKeeps, UnrollsIs

TakenOf(q, k) == {q[j] : j \in 1 .. k}

\* Eating the first k in order is the sum over them.
LEMMA EatingSums ==
  ASSUME Sized, NEW q \in Seq(Coded), NEW before, Strict(before, Coded), Sorts(q, Coded, before),
         NEW G, SumsOver(G, Takes, Symbols), NEW m \in 0 .. Len(q)
  PROVE  Fold(Eating, 0, SubSeq(q, 1, m)) = G[TakenOf(q, m)]
<1> DEFINE n == Len(q)
           N == {k \in Nat : k <= n => Fold(Eating, 0, SubSeq(q, 1, k)) = G[TakenOf(q, k)]}
<1>1. n \in Nat /\ \A k \in 1 .. n : q[k] \in Coded
  OBVIOUS
<1>2. Keeps(Eating, 0, Nat, Coded) /\ \A v \in Nat, s \in Coded : Eating[<<v, s>>] = v + Eats(length[s])
  BY EatingKeeps
<1>3. Coded \in SUBSET Symbols /\ Takes \in [Symbols -> Nat]
  BY CodedIs
<1>4. \A S \in SUBSET Symbols : G[S] \in Nat
  BY <1>3, SymbolsFinite, SumNatural
<1>5. /\ \A R \in SUBSET Symbols : G[R] \in Int
      /\ \A R \in SUBSET Symbols : \A z \in R : G[R] = Takes[z] + G[R \ {z}] /\ R \ {z} \in SUBSET Symbols
      /\ \A R \in SUBSET Symbols : \A z \in Symbols \ R :
           G[R \cup {z}] = Takes[z] + G[R] /\ R \cup {z} \in SUBSET Symbols
  BY SumParts, Zenon
<1>6. \A s \in Coded : Eats(length[s]) = Takes[s]
  BY <1>3 DEF Takes
<1>7. 0 \in N
  <2>1. SubSeq(q, 1, 0) = <<>> /\ TakenOf(q, 0) = {}
    BY DEF TakenOf
  <2>2. Fold(Eating, 0, <<>>) = 0
    BY <1>2, FoldEmpty
  <2>3. G[{}] = 0
    BY DEF SumsOver
  <2>4. QED
    BY <2>1, <2>2, <2>3
<1>8. ASSUME NEW k \in N PROVE k + 1 \in N
  <2> SUFFICES ASSUME k + 1 <= n PROVE Fold(Eating, 0, SubSeq(q, 1, k + 1)) = G[TakenOf(q, k + 1)]
    OBVIOUS
  <2>1. k \in Nat /\ k <= n /\ Fold(Eating, 0, SubSeq(q, 1, k)) = G[TakenOf(q, k)]
    BY <1>1
  <2>2. PICK x \in Coded : x = q[k + 1]
    BY <1>1, <2>1
  <2>3. PICK p \in Seq(Coded) : p = SubSeq(q, 1, k)
    <3>1. SubSeq(q, 1, k) \in Seq(Coded)
      BY <2>1
    <3>2. QED
      BY <3>1, Zenon
  <2>4. SubSeq(q, 1, k + 1) = Append(p, x)
    BY <2>1, <2>2, <2>3
  <2>5. Fold(Eating, 0, Append(p, x)) = Eating[<<Fold(Eating, 0, p), x>>]
    BY <1>2, FoldAppend
  <2>6. TakenOf(q, k) \in SUBSET Symbols
    BY <1>1, <1>3, <2>1 DEF TakenOf
  <2>7. G[TakenOf(q, k)] \in Nat
    BY <1>4, <2>6
  <2>8. Fold(Eating, 0, Append(p, x)) = G[TakenOf(q, k)] + Eats(length[x])
    BY <1>2, <2>1, <2>3, <2>5, <2>7
  <2>9. x \in Symbols \ TakenOf(q, k)
    <3>1. \A j \in 1 .. k : q[j] # x
      <4> SUFFICES ASSUME NEW j \in 1 .. k, q[j] = x PROVE FALSE
        OBVIOUS
      <4>1. j \in 1 .. n /\ k + 1 \in 1 .. n /\ j < k + 1
        BY <1>1, <2>1
      <4>2. <<q[j], q[k + 1]>> \in before
        BY <4>1 DEF Sorts
      <4>3. <<x, x>> \in before
        BY <2>2, <4>2
      <4>4. QED
        BY <4>3 DEF Strict
    <3>2. QED
      BY <1>3, <3>1 DEF TakenOf
  <2>10. TakenOf(q, k + 1) = TakenOf(q, k) \cup {x}
    <3>1. \A j \in 1 .. k + 1 : j = k + 1 \/ j \in 1 .. k
      BY <2>1
    <3>2. \A j \in 1 .. k : j \in 1 .. k + 1
      BY <2>1
    <3>3. k + 1 \in 1 .. k + 1
      BY <2>1
    <3>4. QED
      BY <2>2, <3>1, <3>2, <3>3 DEF TakenOf
  <2>11. G[TakenOf(q, k + 1)] = Eats(length[x]) + G[TakenOf(q, k)]
    BY <1>5, <1>6, <2>6, <2>9, <2>10
  <2>12. PICK v \in Nat, u \in Nat : v = Eats(length[x]) /\ u = G[TakenOf(q, k)]
    <3>1. Eats(length[x]) \in Nat
      BY <1>3, <1>6
    <3>2. QED
      BY <2>7, <3>1
  <2>13. Fold(Eating, 0, SubSeq(q, 1, k + 1)) = u + v
    BY <2>4, <2>8, <2>12
  <2>14. G[TakenOf(q, k + 1)] = v + u
    BY <2>11, <2>12
  <2>15. QED
    BY <2>13, <2>14
<1> HIDE DEF N
<1>9. N = Nat
  <2>1. N \in SUBSET Nat
    BY DEF N
  <2>2. QED
    BY <1>7, <1>8, <2>1, SetInduction
<1>10. m \in N /\ m <= n
  BY <1>1, <1>9
<1>11. QED
  BY <1>10 DEF N

\* The order in which symbols get their codes.
Earlier == {p \in Symbols \X Symbols :
              length[p[1]] < length[p[2]] \/ (length[p[1]] = length[p[2]] /\ p[1] < p[2])}

LEMMA ByLengthIs ==
  ASSUME Sized
  PROVE  /\ Sorts(ByLength, Coded, Earlier) /\ Strict(Earlier, Coded)
         /\ \A s \in Coded, t \in Coded :
              <<s, t>> \in Earlier <=> length[s] < length[t] \/ (length[s] = length[t] /\ s < t)
<1>1. Coded \in SUBSET Symbols /\ IsFiniteSet(Coded) /\ \A s \in Coded : length[s] \in 1 .. Width /\ s \in Nat
  BY CodedIs
<1>2. \A s \in Coded, t \in Coded :
        <<s, t>> \in Earlier <=> length[s] < length[t] \/ (length[s] = length[t] /\ s < t)
  BY <1>1 DEF Earlier
<1>3. \A s \in Coded : length[s] \in Nat /\ s \in Nat
  BY <1>1, SizesIs
<1>4. Strict(Earlier, Coded)
  <2>1. \A s \in Coded : <<s, s>> \notin Earlier
    BY <1>2, <1>3
  <2>2. \A s \in Coded, t \in Coded, u \in Coded :
          <<s, t>> \in Earlier /\ <<t, u>> \in Earlier => <<s, u>> \in Earlier
    BY <1>2, <1>3
  <2>3. \A s \in Coded, t \in Coded : s # t => <<s, t>> \in Earlier \/ <<t, s>> \in Earlier
    BY <1>2, <1>3
  <2>4. QED
    BY <2>1, <2>2, <2>3 DEF Strict
<1>5. ByLength = Sorted(Coded, Earlier)
  BY DEF ByLength, Earlier
<1>6. QED
  BY <1>1, <1>2, <1>4, <1>5, SortedIs

Shorter(l) == {s \in Coded : length[s] < l}
AsLong(l) == {s \in Coded : length[s] = l}
AsLongBelow(s) == {t \in Coded : length[t] = length[s] /\ t < s}

\* symval of a symbol: what the shorter ones take up, and those of its length before it.
LEMMA SymvalIs ==
  ASSUME Sized, NEW G, SumsOver(G, Takes, Symbols), NEW s \in Coded,
         NEW turn \in 1 .. Len(ByLength), ByLength[turn] = s
  PROVE  Symval(turn) = G[Shorter(length[s])] + Cardinality(AsLongBelow(s)) * Eats(length[s])
<1>1. /\ Coded \in SUBSET Symbols /\ \A t \in Coded : length[t] \in 1 .. Width /\ length[t] \in 0 .. Width
      /\ Takes \in [Symbols -> Nat]
  BY CodedIs
<1>2. PICK q \in Seq(Coded) : q = ByLength /\ Sorts(q, Coded, Earlier) /\ Strict(Earlier, Coded)
  BY ByLengthIs DEF Sorts
<1>3. PICK n \in Nat : n = Len(q) /\ turn \in 1 .. n /\ turn - 1 \in 0 .. n /\ \A k \in 1 .. n : q[k] \in Coded
  BY <1>2
<1>4. Symval(turn) = Fold(Eating, 0, SubSeq(q, 1, turn - 1))
  <2>1. SubSeq(q, 1, turn - 1) \in Seq(Coded)
    BY <1>3
  <2>2. EatsAll(SubSeq(q, 1, turn - 1)) = Fold(Eating, 0, SubSeq(q, 1, turn - 1))
    BY <2>1, EatingFolds
  <2>3. Symval(turn) = EatsAll(SubSeq(q, 1, turn - 1))
    BY <1>2 DEF Symval, EatsAll
  <2>4. QED
    BY <2>2, <2>3
<1>5. Fold(Eating, 0, SubSeq(q, 1, turn - 1)) = G[TakenOf(q, turn - 1)]
  <2>1. turn - 1 \in 0 .. Len(q)
    BY <1>3
  <2>2. QED
    BY <1>2, <2>1, EatingSums
<1>6. TakenOf(q, turn - 1) = Shorter(length[s]) \cup AsLongBelow(s)
  <2>1. \A t \in Coded : <<t, s>> \in Earlier <=> t \in Shorter(length[s]) \cup AsLongBelow(s)
    BY ByLengthIs DEF Shorter, AsLongBelow
  <2>2. \A j \in 1 .. n : <<q[j], s>> \in Earlier <=> j < turn
    BY <1>2, <1>3 DEF Sorts
  <2>3. \A t \in TakenOf(q, turn - 1) : t \in Coded /\ <<t, s>> \in Earlier
    <3> TAKE t \in TakenOf(q, turn - 1)
    <3>1. PICK j \in 1 .. turn - 1 : t = q[j]
      BY DEF TakenOf
    <3>2. j \in 1 .. n /\ j < turn
      BY <1>3
    <3>3. QED
      BY <1>3, <2>2, <3>1, <3>2
  <2>4. \A t \in Coded : <<t, s>> \in Earlier => t \in TakenOf(q, turn - 1)
    <3> SUFFICES ASSUME NEW t \in Coded, <<t, s>> \in Earlier PROVE t \in TakenOf(q, turn - 1)
      OBVIOUS
    <3>1. PICK j \in 1 .. n : q[j] = t
      BY <1>2, <1>3 DEF Sorts
    <3>2. j < turn
      BY <2>2, <3>1
    <3>3. j \in 1 .. turn - 1
      BY <1>3, <3>2
    <3>4. QED
      BY <3>1, <3>3 DEF TakenOf
  <2>5. Shorter(length[s]) \cup AsLongBelow(s) \in SUBSET Coded
    BY DEF Shorter, AsLongBelow
  <2>6. QED
    BY <2>1, <2>3, <2>4, <2>5
<1>7. G[Shorter(length[s]) \cup AsLongBelow(s)]
        = G[Shorter(length[s])] + Cardinality(AsLongBelow(s)) * Eats(length[s])
  <2>1. Shorter(length[s]) \in SUBSET Symbols
    BY <1>1 DEF Shorter
  <2>2. AsLongBelow(s) \in SUBSET (Symbols \ Shorter(length[s]))
    BY <1>1, SizesIs DEF Shorter, AsLongBelow
  <2>3. PICK e \in Nat : e = Eats(length[s])
    BY <1>1, EatsIs
  <2>4. Alike(Takes, e, AsLongBelow(s))
    BY <1>1, <2>3 DEF Alike, Takes, AsLongBelow
  <2>5. QED
    BY <2>1, <2>2, <2>3, <2>4, SymbolsFinite, SumAlike
<1>8. QED
  BY <1>4, <1>5, <1>6, <1>7

Have(l) == Cardinality(AsLong(l))

Firsts(F) ==
  F = [l \in 0 .. Width |->
         IF l = 0 THEN 0 ELSE 2 * (F[l - 1] + (IF l = 1 THEN 0 ELSE Have(l - 1)))]

\* What the shorter ones take up, from one length to the next.
LEMMA ShorterNext ==
  ASSUME Sized, NEW G, SumsOver(G, Takes, Symbols)
  PROVE  /\ G[Shorter(0)] = 0 /\ G[Shorter(1)] = 0
         /\ \A l \in 1 .. Width :
              /\ G[Shorter(l)] \in Nat /\ Have(l) \in Nat
              /\ G[Shorter(l + 1)] = G[Shorter(l)] + Have(l) * Eats(l)
<1>1. /\ Coded \in SUBSET Symbols /\ IsFiniteSet(Coded)
      /\ \A t \in Coded : length[t] \in 1 .. Width /\ length[t] \in 0 .. Width
      /\ Takes \in [Symbols -> Nat]
  BY CodedIs
<1>2. Shorter(0) = {} /\ Shorter(1) = {}
  BY <1>1, SizesIs DEF Shorter
<1>3. G[{}] = 0
  BY DEF SumsOver
<1>4. ASSUME NEW l \in 1 .. Width
      PROVE  /\ G[Shorter(l)] \in Nat /\ Have(l) \in Nat
             /\ G[Shorter(l + 1)] = G[Shorter(l)] + Have(l) * Eats(l)
  <2>1. Shorter(l) \in SUBSET Symbols /\ AsLong(l) \in SUBSET (Symbols \ Shorter(l))
    BY <1>1, SizesIs DEF Shorter, AsLong
  <2>2. Shorter(l + 1) = Shorter(l) \cup AsLong(l)
    <3>1. \A t \in Coded : length[t] < l + 1 <=> length[t] < l \/ length[t] = l
      BY <1>1, SizesIs
    <3>2. QED
      BY <3>1 DEF Shorter, AsLong
  <2>3. PICK e \in Nat : e = Eats(l)
    <3>1. l \in 0 .. Width
      BY SizesIs
    <3>2. QED
      BY <3>1, EatsIs
  <2>4. Alike(Takes, e, AsLong(l))
    BY <1>1, <2>3 DEF Alike, Takes, AsLong
  <2>5. G[Shorter(l) \cup AsLong(l)] = G[Shorter(l)] + Cardinality(AsLong(l)) * e
    BY <2>1, <2>4, SymbolsFinite, SumAlike
  <2>6. \A S \in SUBSET Symbols : G[S] \in Nat
    BY <1>1, SymbolsFinite, SumNatural
  <2>7. Have(l) \in Nat
    <3>1. IsFiniteSet(AsLong(l))
      BY <1>1, FS_Subset DEF AsLong
    <3>2. QED
      BY <3>1, FS_CardinalityType DEF Have
  <2>8. QED
    BY <2>1, <2>2, <2>3, <2>5, <2>6, <2>7 DEF Have
<1>5. QED
  BY <1>2, <1>3, <1>4

LEMMA FirstsExist ==
  ASSUME Sized
  PROVE  \E F : Firsts(F)
<1> DEFINE step == [p \in Nat \X Nat |->
                      <<p[1] + 1, 2 * (p[2] + (IF p[1] = 0 THEN 0 ELSE Have(p[1])))>>]
<1>1. \A l : Have(l) \in Nat
  <2>1. IsFiniteSet(Coded)
    BY CodedIs
  <2>2. \A l : AsLong(l) \in SUBSET Coded
    BY DEF AsLong
  <2>3. \A l : IsFiniteSet(AsLong(l))
    BY <2>1, <2>2, FS_Subset
  <2>4. QED
    BY <2>3, FS_CardinalityType DEF Have
<1>2. Width \in Nat
  BY SizesIs
<1>3. \A a \in Nat, b \in Nat :
        /\ <<a, b>> \in Nat \X Nat /\ step[<<a, b>>] \in Nat \X Nat
        /\ step[<<a, b>>] = <<a + 1, 2 * (b + (IF a = 0 THEN 0 ELSE Have(a)))>>
  <2> SUFFICES ASSUME NEW a \in Nat, NEW b \in Nat
               PROVE  /\ <<a, b>> \in Nat \X Nat /\ step[<<a, b>>] \in Nat \X Nat
                      /\ step[<<a, b>>] = <<a + 1, 2 * (b + (IF a = 0 THEN 0 ELSE Have(a)))>>
    OBVIOUS
  <2>1. <<a, b>> \in Nat \X Nat /\ <<a, b>>[1] = a /\ <<a, b>>[2] = b
    OBVIOUS
  <2>2. step[<<a, b>>] = <<<<a, b>>[1] + 1, 2 * (<<a, b>>[2] + (IF <<a, b>>[1] = 0 THEN 0 ELSE Have(<<a, b>>[1])))>>
    BY <2>1, Zenon
  <2>3. step[<<a, b>>] = <<a + 1, 2 * (b + (IF a = 0 THEN 0 ELSE Have(a)))>>
    <3> HIDE DEF step
    <3>1. QED
      BY <2>1, <2>2
  <2>4. <<a + 1, 2 * (b + (IF a = 0 THEN 0 ELSE Have(a)))>> \in Nat \X Nat
    BY <1>1
  <2>5. QED
    BY <2>1, <2>3, <2>4, Zenon
<1>4. step \in [Nat \X Nat -> Nat \X Nat]
  <2>1. \A p \in Nat \X Nat : <<p[1] + 1, 2 * (p[2] + (IF p[1] = 0 THEN 0 ELSE Have(p[1])))>> \in Nat \X Nat
    BY <1>1
  <2>2. QED
    BY <2>1
<1> HIDE DEF step
<1>5. PICK H \in [0 .. Width -> Nat \X Nat] : Climbs(H, <<0, 0>>, step, Width)
  <2>1. <<0, 0>> \in Nat \X Nat
    OBVIOUS
  <2>2. QED
    BY <1>2, <1>4, <2>1, ClimbExists
<1>6. H[0] = <<0, 0>> /\ \A l \in 1 .. Width : H[l] = step[H[l - 1]] /\ l - 1 \in 0 .. Width
  BY <1>2, <1>5 DEF Climbs
<1> DEFINE N == {l \in Nat : l <= Width => H[l][1] = l}
<1>7. 0 \in N
  BY <1>6
<1>8. ASSUME NEW l \in N PROVE l + 1 \in N
  <2> SUFFICES ASSUME l + 1 <= Width PROVE H[l + 1][1] = l + 1
    OBVIOUS
  <2>1. l \in Nat /\ l \in 0 .. Width /\ l + 1 \in 1 .. Width /\ (l + 1) - 1 = l /\ H[l][1] = l
    BY <1>2
  <2>2. PICK b \in Nat : H[l] = <<l, b>>
    <3>1. H[l] \in Nat \X Nat
      BY <2>1
    <3>2. QED
      BY <2>1, <3>1
  <2>3. H[l + 1] = step[<<l, b>>]
    BY <1>6, <2>1, <2>2
  <2>4. step[<<l, b>>] = <<l + 1, 2 * (b + (IF l = 0 THEN 0 ELSE Have(l)))>>
    BY <1>3, <2>1, <2>2
  <2>5. QED
    BY <2>3, <2>4
<1> HIDE DEF N
<1>9. N = Nat
  <2>1. N \in SUBSET Nat
    BY DEF N
  <2>2. QED
    BY <1>7, <1>8, <2>1, SetInduction
<1>10. ASSUME NEW l \in 0 .. Width PROVE H[l][1] = l
  <2>1. l \in Nat /\ l <= Width
    BY <1>2
  <2>2. l \in N
    BY <1>9, <2>1
  <2>3. QED
    BY <2>1, <2>2 DEF N
<1> DEFINE F == [l \in 0 .. Width |-> H[l][2]]
<1>11. ASSUME NEW l \in 1 .. Width
       PROVE  F[l] = 2 * (F[l - 1] + (IF l = 1 THEN 0 ELSE Have(l - 1)))
  <2>1. PICK k \in Nat : k = l - 1 /\ k \in 0 .. Width /\ l \in 0 .. Width /\ (k = 0 <=> l = 1) /\ k + 1 = l
    BY <1>2
  <2>2. PICK b \in Nat : H[k] = <<k, b>>
    <3>1. H[k] \in Nat \X Nat /\ H[k][1] = k
      BY <1>10, <2>1
    <3>2. QED
      BY <3>1
  <2>3. H[l] = <<k + 1, 2 * (b + (IF k = 0 THEN 0 ELSE Have(k)))>>
    <3>1. H[l] = step[<<k, b>>]
      BY <1>6, <2>1, <2>2
    <3>2. QED
      BY <1>3, <2>1, <2>2, <3>1
  <2>4. F[l] = 2 * (b + (IF k = 0 THEN 0 ELSE Have(k))) /\ F[k] = b
    BY <2>1, <2>2, <2>3
  <2> HIDE DEF F
  <2>5. QED
    BY <2>1, <2>4
<1>12. F[0] = 0
  BY <1>2, <1>6
<1>13. F = [l \in 0 .. Width |-> F[l]]
  OBVIOUS
<1> HIDE DEF F
<1>14. Firsts(F)
  <2>1. \A l \in 0 .. Width :
          F[l] = IF l = 0 THEN 0 ELSE 2 * (F[l - 1] + (IF l = 1 THEN 0 ELSE Have(l - 1)))
    <3> TAKE l \in 0 .. Width
    <3>1. l = 0 \/ l \in 1 .. Width
      BY <1>2
    <3>2. QED
      BY <1>11, <1>12, <3>1
  <2>2. QED
    BY <1>13, <2>1 DEF Firsts
<1>15. QED
  BY <1>14

\* The first code of a length is what the shorter ones take up, in units of the length.
LEMMA FirstsAre ==
  ASSUME Sized, NEW G, SumsOver(G, Takes, Symbols), NEW F, Firsts(F), NEW m \in 0 .. Width
  PROVE  F[m] \in Nat /\ F[m] * Eats(m) = G[Shorter(m)]
<1> DEFINE N == {l \in Nat : l <= Width => F[l] \in Nat /\ F[l] * Eats(l) = G[Shorter(l)]}
<1>1. Width \in Nat
  BY SizesIs
<1>2. F[0] = 0 /\ \A l \in 1 .. Width : F[l] = 2 * (F[l - 1] + (IF l = 1 THEN 0 ELSE Have(l - 1)))
  BY <1>1 DEF Firsts
<1>3. /\ G[Shorter(0)] = 0 /\ G[Shorter(1)] = 0
      /\ \A l \in 1 .. Width :
           /\ G[Shorter(l)] \in Nat /\ Have(l) \in Nat
           /\ G[Shorter(l + 1)] = G[Shorter(l)] + Have(l) * Eats(l)
  BY ShorterNext
<1>4. \A l \in 0 .. Width : Eats(l) \in Nat /\ (l # 0 => Eats(l - 1) = 2 * Eats(l))
  BY EatsIs
<1>5. 0 \in N
  <2>1. PICK e \in Nat : e = Eats(0)
    BY <1>1, <1>4
  <2>2. 0 * e = 0
    OBVIOUS
  <2>3. QED
    BY <1>2, <1>3, <2>1, <2>2
<1>6. ASSUME NEW l \in N PROVE l + 1 \in N
  <2> SUFFICES ASSUME l + 1 <= Width
               PROVE  F[l + 1] \in Nat /\ F[l + 1] * Eats(l + 1) = G[Shorter(l + 1)]
    OBVIOUS
  <2>1. l \in Nat /\ l \in 0 .. Width /\ l + 1 \in 1 .. Width /\ l + 1 \in 0 .. Width /\ (l + 1) - 1 = l
    BY <1>1
  <2>2. PICK v \in Nat : v = F[l] /\ v * Eats(l) = G[Shorter(l)]
    BY <2>1
  <2>3. PICK e \in Nat : e = Eats(l + 1) /\ Eats(l) = 2 * e
    BY <1>4, <2>1
  <2>4. F[l + 1] = 2 * (v + (IF l = 0 THEN 0 ELSE Have(l)))
    <3>1. F[l + 1] = 2 * (F[l] + (IF l + 1 = 1 THEN 0 ELSE Have(l)))
      BY <1>2, <2>1
    <3>2. l + 1 = 1 <=> l = 0
      BY <2>1
    <3>3. QED
      BY <2>2, <3>1, <3>2
  <2>5. CASE l = 0
    <3>1. v = 0
      BY <1>2, <2>2, <2>5
    <3>2. F[l + 1] = 0 /\ 0 * e = 0 /\ G[Shorter(l + 1)] = 0
      BY <1>3, <2>4, <2>5, <3>1
    <3>3. QED
      BY <2>3, <3>2
  <2>6. CASE l # 0
    <3>1. l \in 1 .. Width
      BY <2>1, <2>6
    <3>2. PICK h \in Nat : h = Have(l) /\ G[Shorter(l + 1)] = G[Shorter(l)] + h * Eats(l)
      BY <1>3, <3>1
    <3>3. F[l + 1] = 2 * (v + h)
      BY <2>4, <2>6, <3>2
    <3>4. G[Shorter(l + 1)] = v * (2 * e) + h * (2 * e)
      BY <2>2, <2>3, <3>2
    <3>5. (2 * (v + h)) * e = v * (2 * e) + h * (2 * e)
      OBVIOUS
    <3>6. QED
      BY <2>3, <3>3, <3>4, <3>5
  <2>7. QED
    BY <2>5, <2>6
<1> HIDE DEF N
<1>7. N = Nat
  <2>1. N \in SUBSET Nat
    BY DEF N
  <2>2. QED
    BY <1>5, <1>6, <2>1, SetInduction
<1>8. m \in N /\ m <= Width
  BY <1>1, <1>7
<1>9. QED
  BY <1>8 DEF N

LEMMA CodesAgree ==
  ASSUME Sized
  PROVE  Code = InflateCode
<1> DEFINE first == CHOOSE F : Firsts(F)
           spot(s) == CHOOSE k \in DOMAIN ByLength : ByLength[k] = s
<1>1. /\ Coded \in SUBSET Symbols /\ IsFiniteSet(Coded) /\ \A t \in Coded : length[t] \in 0 .. Width
      /\ Takes \in [Symbols -> Int]
  BY CodedIs
<1>2. PICK G : SumsOver(G, Takes, Symbols)
  BY <1>1, SymbolsFinite, SumsExist
<1>3. Firsts(first)
  BY FirstsExist, Zenon
<1>4. Code = [s \in Coded |-> BitsOf(Symval(spot(s)) \div Eats(length[s]), length[s])]
  BY DEF Code
<1>5. InflateCode = [s \in Coded |-> BitsOf(first[length[s]] + Cardinality(AsLongBelow(s)), length[s])]
  BY DEF InflateCode, Firsts, Have, AsLong, AsLongBelow
<1> HIDE DEF first
<1>6. ASSUME NEW s \in Coded
      PROVE  Symval(spot(s)) \div Eats(length[s]) = first[length[s]] + Cardinality(AsLongBelow(s))
  <2>1. PICK turn : turn = spot(s)
    OBVIOUS
  <2>2. turn \in 1 .. Len(ByLength) /\ ByLength[turn] = s
    <3>1. ByLength \in Seq(Coded) /\ \E k \in 1 .. Len(ByLength) : ByLength[k] = s
      BY ByLengthIs DEF Sorts
    <3>2. DOMAIN ByLength = 1 .. Len(ByLength)
      BY <3>1
    <3>3. QED
      BY <2>1, <3>1, <3>2
  <2>3. Symval(turn) = G[Shorter(length[s])] + Cardinality(AsLongBelow(s)) * Eats(length[s])
    BY <1>2, <2>2, SymvalIs
  <2>4. PICK v \in Nat : v = first[length[s]] /\ v * Eats(length[s]) = G[Shorter(length[s])]
    BY <1>1, <1>2, <1>3, FirstsAre
  <2>5. PICK e \in Nat \ {0} : e = Eats(length[s])
    BY <1>1, EatsIs
  <2>6. PICK n \in Nat : n = Cardinality(AsLongBelow(s))
    <3>1. IsFiniteSet(AsLongBelow(s))
      BY <1>1, FS_Subset DEF AsLongBelow
    <3>2. QED
      BY <3>1, FS_CardinalityType
  <2>7. Symval(turn) = v * e + n * e
    BY <2>3, <2>4, <2>5, <2>6
  <2>8. v * e + n * e = (v + n) * e /\ v + n \in Int
    OBVIOUS
  <2>9. ((v + n) * e) \div e = v + n
    <3>1. PICK k \in Int : k = v + n
      BY <2>8
    <3>2. (k * e) \div e = k
      OBVIOUS
    <3>3. QED
      BY <3>1, <3>2
  <2>10. QED
    BY <2>1, <2>4, <2>5, <2>6, <2>7, <2>8, <2>9
<1> HIDE DEF spot
<1>7. QED
  BY <1>4, <1>5, <1>6

\* Exactly the symbols that occur have a code at the end, and an inflater
\* rebuilds the same code from the lengths.
THEOREM HuffmanReader == HSpec => []ReaderAgrees
<1>1. LengthInv /\ Affordable => ReaderAgrees
  BY CodedIs, CodesAgree DEF LengthInv, ReaderAgrees
<1>2. QED
  BY <1>1, HuffmanInvariant, PTL

-----------------------------------------------------------------------------
(* The tables of code lengths.                                             *)

Lengths16 == 0 .. 15

\* t is a table with nothing but zeros behind its first n lengths.
TrimmedTo(t, n) == t \in Seq(Lengths16) /\ n \in 1 .. Len(t) /\ \A x \in (n + 1) .. Len(t) : t[x] = 0

\* The literals' lengths and then the distances', each without its zeros.
TableJoined ==
  /\ TrimmedTo(lit, table_lit_length) /\ TrimmedTo(dist, table_dist_length)
  /\ tmp_table = SubSeq(lit, 1, table_lit_length) \o SubSeq(dist, 1, table_dist_length)

\* j lengths of t like the one behind place p.
Same(t, p, j) == p + j <= Len(t) /\ \A n \in (p + 1) .. (p + j) : t[n] = t[p + 1]

\* Within a run, something has been said and enough for a repeat is left.
WithinRun ==
  /\ place \in Nat /\ run \in Nat /\ said \in Nat /\ place <= Len(tmp_table)
  /\ said = run => run = 0
  /\ said # run => said >= 1 /\ run >= said + 3 /\ Same(tmp_table, place, run)

TableInv == TableJoined /\ WithinRun /\ heard = SubSeq(tmp_table, 1, place + said)

LEMMA TrimmedIs ==
  ASSUME NEW t \in Seq(Lengths16)
  PROVE  /\ Trimmed(t) \in 0 .. Len(t) /\ \A x \in (Trimmed(t) + 1) .. Len(t) : t[x] = 0
         /\ (\E n \in DOMAIN t : t[n] # 0) => Trimmed(t) # 0
<1> DEFINE S == {x \in 1 .. Len(t) : t[x] # 0}
<1>1. Trimmed(t) = IF S # {} THEN Max(S) ELSE 0
  BY DEF Trimmed, SelectLastInSeq
<1>2. Len(t) \in Nat /\ DOMAIN t = 1 .. Len(t) /\ S \in SUBSET (0 .. Len(t))
  OBVIOUS
<1>3. CASE S = {}
  <2>1. Trimmed(t) = 0
    BY <1>1, <1>3
  <2>2. \A x \in 1 .. Len(t) : t[x] = 0
    BY <1>3
  <2>3. QED
    BY <1>2, <2>1, <2>2
<1>4. CASE S # {}
  <2>1. Max(S) \in S /\ \A y \in S : y <= Max(S)
    BY <1>2, <1>4, MaxIs
  <2>2. Trimmed(t) = Max(S)
    BY <1>1, <1>4
  <2>3. PICK m : m = Trimmed(t)
    OBVIOUS
  <2>4. m \in 1 .. Len(t) /\ \A y \in S : y <= m
    BY <2>1, <2>2, <2>3
  <2>5. \A x \in (m + 1) .. Len(t) : t[x] = 0
    <3>1. SUFFICES ASSUME NEW x \in (m + 1) .. Len(t), t[x] # 0 PROVE FALSE
      OBVIOUS
    <3>2. x \in S /\ x > m /\ x \in Nat /\ m \in Nat
      BY <1>2, <2>4, <3>1
    <3>3. QED
      BY <2>4, <3>2
  <2>6. QED
    BY <2>3, <2>4, <2>5
<1>5. QED
  BY <1>3, <1>4

LEMMA RunLengthIs ==
  ASSUME NEW T, tmp_table \in Seq(T), place \in Nat, place < TableSize
  PROVE  RunLength \in Nat /\ RunLength >= 1 /\ Same(tmp_table, place, RunLength)
<1> DEFINE S == {x \in (place + 1) .. TableSize : tmp_table[x] # LengthAt(place)}
<1>1. PICK differs : differs = IF S # {} THEN Min(S) ELSE 0
  OBVIOUS
<1>2. RunLength = IF differs # 0 THEN differs - 1 - place ELSE Max({1, TableSize - 1 - place})
  BY <1>1 DEF RunLength, SelectInSubSeq
<1>3. TableSize \in Nat /\ TableSize = Len(tmp_table) /\ LengthAt(place) = tmp_table[place + 1]
  BY DEF TableSize, LengthAt
<1>4. CASE S # {}
  <2>1. S \in SUBSET Nat
    BY <1>3
  <2>2. differs \in S /\ \A y \in S : differs <= y
    BY <1>1, <1>4, <2>1, MinIs
  <2>3. differs \in (place + 2) .. TableSize
    BY <1>3, <2>2
  <2>4. RunLength = differs - 1 - place
    BY <1>2, <2>3
  <2>5. \A n \in (place + 1) .. (differs - 1) : tmp_table[n] = tmp_table[place + 1]
    <3>1. SUFFICES ASSUME NEW n \in (place + 1) .. (differs - 1), tmp_table[n] # tmp_table[place + 1]
                   PROVE  FALSE
      OBVIOUS
    <3>2. n \in S /\ n < differs
      BY <1>3, <2>3, <3>1
    <3>3. QED
      BY <1>3, <2>2, <2>3, <3>2
  <2>6. QED
    BY <1>3, <2>3, <2>4, <2>5 DEF Same
<1>5. CASE S = {}
  <2>1. RunLength = Max({1, TableSize - 1 - place})
    BY <1>1, <1>2, <1>5
  <2>2. PICK R : R = {1, TableSize - 1 - place}
    OBVIOUS
  <2>3. RunLength \in {1, TableSize - 1 - place} /\ 1 <= RunLength
    <3>1. PICK m \in Nat : m = TableSize + 1
      BY <1>3
    <3>2. R \in SUBSET (0 .. m) /\ R # {}
      BY <1>3, <2>2, <3>1
    <3>3. Max(R) \in R /\ \A y \in R : y <= Max(R)
      BY <3>2, MaxIs
    <3>4. QED
      BY <2>1, <2>2, <3>3
  <2>4. RunLength \in Nat /\ place + RunLength <= TableSize
    BY <1>3, <2>3
  <2>5. \A n \in (place + 1) .. TableSize : tmp_table[n] = tmp_table[place + 1]
    BY <1>3, <1>5
  <2>6. QED
    BY <1>3, <2>3, <2>4, <2>5 DEF Same
<1>6. QED
  BY <1>4, <1>5

\* A repeat says something, and leaves nothing or enough for one more.
LEMMA RepeatOfIs ==
  ASSUME NEW rest \in Nat, NEW most \in {6, 138}, rest >= 3
  PROVE  /\ RepeatOf(rest, most) \in 3 .. most /\ RepeatOf(rest, most) <= rest
         /\ RepeatOf(rest, most) = rest \/ rest >= RepeatOf(rest, most) + 3
BY DEF RepeatOf

\* So many times the same length.
Times(v, k) == [x \in 1 .. k |-> v]

TableWord(v, ld) == [type |-> "CW_TABLE", lit |-> v, ld |-> ld]

LEMMA FieldsAre == 2 ^ 2 = 4 /\ 2 ^ 3 = 8 /\ 2 ^ 7 = 128
<1>1. 2 ^ 1 = 2
  BY PowerOfZero, PowerOfNext
<1>2. 2 ^ 2 = 4
  BY <1>1, PowerOfNext
<1>3. 2 ^ 3 = 8
  BY <1>2, PowerOfNext
<1>4. 2 ^ 4 = 16
  BY <1>3, PowerOfNext
<1>5. 2 ^ 5 = 32
  BY <1>4, PowerOfNext
<1>6. 2 ^ 6 = 64
  BY <1>5, PowerOfNext
<1>7. 2 ^ 7 = 128
  BY <1>6, PowerOfNext
<1>8. QED
  BY <1>2, <1>3, <1>7

\* The inflater hears what is said: a length, a repeat of the one before, zeros.
LEMMA WordHeard ==
  ASSUME NEW v \in Lengths16, NEW ld \in Nat, NEW before,
         ld = 1 \/ (v # 0 /\ ld \in 3 .. 6 /\ before = v) \/ (v = 0 /\ ld \in 3 .. 138)
  PROVE  Expand(encode_codeword(TableWord(v, ld)), before) = Times(v, ld)
<1>1. encode_codeword(TableWord(v, ld)) = TableSymbol(v, ld)
  BY DEF encode_codeword, TableWord
<1>2. CASE ld = 1
  <2>1. TableSymbol(v, ld) = [code |-> v, num_extra_bits |-> 0, extra_bits |-> 0]
    BY <1>2 DEF TableSymbol, Plain, Symbol
  <2>2. Expand(TableSymbol(v, ld), before) = <<v>>
    BY <2>1 DEF Expand, Lengths16
  <2>3. <<v>> = Times(v, 1)
    BY DEF Times
  <2>4. QED
    BY <1>1, <1>2, <2>2, <2>3
<1>3. CASE ld # 1 /\ v # 0
  <2>1. ld \in 3 .. 6 /\ before = v
    BY <1>3
  <2>2. TableSymbol(v, ld) = [Field(ld - 3, 2) EXCEPT !.code = 16]
    BY <1>3 DEF TableSymbol
  <2>3. (ld - 3) % 2 ^ 2 = ld - 3
    BY <2>1, FieldsAre
  <2>4. Field(ld - 3, 2) = [code |-> 0, num_extra_bits |-> 2, extra_bits |-> ld - 3]
    BY <2>3 DEF Field, Symbol
  <2>5. TableSymbol(v, ld).code = 16 /\ TableSymbol(v, ld).extra_bits = ld - 3
    BY <2>2, <2>4
  <2>6. Expand(TableSymbol(v, ld), before) = [x \in 1 .. 3 + (ld - 3) |-> before]
    BY <2>5 DEF Expand
  <2>7. 3 + (ld - 3) = ld
    BY <2>1
  <2>8. QED
    BY <1>1, <2>1, <2>6, <2>7 DEF Times
<1>4. CASE ld # 1 /\ v = 0 /\ ld < 11
  <2>1. ld \in 3 .. 10
    BY <1>4
  <2>2. TableSymbol(v, ld) = [Field(ld - 3, 3) EXCEPT !.code = 17]
    BY <1>4 DEF TableSymbol
  <2>3. (ld - 3) % 2 ^ 3 = ld - 3
    BY <2>1, FieldsAre
  <2>4. Field(ld - 3, 3) = [code |-> 0, num_extra_bits |-> 3, extra_bits |-> ld - 3]
    BY <2>3 DEF Field, Symbol
  <2>5. TableSymbol(v, ld).code = 17 /\ TableSymbol(v, ld).extra_bits = ld - 3
    BY <2>2, <2>4
  <2>6. Expand(TableSymbol(v, ld), before) = [x \in 1 .. 3 + (ld - 3) |-> 0]
    BY <2>5 DEF Expand
  <2>7. 3 + (ld - 3) = ld
    BY <2>1
  <2>8. QED
    BY <1>1, <1>4, <2>6, <2>7 DEF Times
<1>5. CASE ld # 1 /\ v = 0 /\ ld >= 11
  <2>1. ld \in 11 .. 138
    BY <1>5
  <2>2. TableSymbol(v, ld) = [Field(ld - 11, 7) EXCEPT !.code = 18]
    BY <1>5 DEF TableSymbol
  <2>3. (ld - 11) % 2 ^ 7 = ld - 11
    BY <2>1, FieldsAre
  <2>4. Field(ld - 11, 7) = [code |-> 0, num_extra_bits |-> 7, extra_bits |-> ld - 11]
    BY <2>3 DEF Field, Symbol
  <2>5. TableSymbol(v, ld).code = 18 /\ TableSymbol(v, ld).extra_bits = ld - 11
    BY <2>2, <2>4
  <2>6. Expand(TableSymbol(v, ld), before) = [x \in 1 .. 11 + (ld - 11) |-> 0]
    BY <2>5 DEF Expand
  <2>7. 11 + (ld - 11) = ld
    BY <2>1
  <2>8. QED
    BY <1>1, <1>5, <2>6, <2>7 DEF Times
<1>6. QED
  BY <1>2, <1>3, <1>4, <1>5

\* One sequence behind another.
LEMMA OneBehindOther ==
  ASSUME NEW T, NEW a \in Seq(T), NEW b \in Seq(T), NEW q, q = a \o b
  PROVE  /\ q \in Seq(T) /\ Len(q) = Len(a) + Len(b)
         /\ \A x \in 1 .. Len(a) : q[x] = a[x]
         /\ \A x \in 1 .. Len(b) : q[Len(a) + x] = b[x]
<1>1. /\ a \o b \in Seq(T) /\ Len(a \o b) = Len(a) + Len(b)
      /\ \A x \in 1 .. Len(a) : (a \o b)[x] = a[x]
      /\ \A x \in 1 .. Len(b) : (a \o b)[Len(a) + x] = b[x]
  OBVIOUS
<1>2. QED
  BY <1>1, Zenon

LEMMA FurtherOn ==
  ASSUME NEW T, NEW t \in Seq(T), NEW p \in Nat, NEW ld \in Nat, NEW v, p + ld <= Len(t),
         \A n \in (p + 1) .. (p + ld) : t[n] = v
  PROVE  SubSeq(t, 1, p) \o Times(v, ld) = SubSeq(t, 1, p + ld)
<1> PICK U : U = T \cup {v}
  OBVIOUS
<1>1. PICK a : a = SubSeq(t, 1, p)
  OBVIOUS
<1>2. a \in Seq(T) /\ Len(a) = p /\ \A x \in 1 .. p : a[x] = t[x]
  BY <1>1
<1>3. Times(v, ld) \in Seq({v}) /\ Len(Times(v, ld)) = ld
  BY DEF Times
<1>4. \A x \in 1 .. ld : Times(v, ld)[x] = v
  BY DEF Times
<1>5. PICK b : b = Times(v, ld)
  OBVIOUS
<1>6. b \in Seq({v}) /\ Len(b) = ld /\ \A x \in 1 .. ld : b[x] = v
  BY <1>3, <1>4, <1>5
<1>7. a \in Seq(U) /\ b \in Seq(U) /\ t \in Seq(U)
  BY <1>2, <1>6
<1>8. PICK c : c = SubSeq(t, 1, p + ld)
  OBVIOUS
<1>9. c \in Seq(U) /\ Len(c) = p + ld /\ \A x \in 1 .. (p + ld) : c[x] = t[x]
  BY <1>7, <1>8
<1>10. PICK d : d = a \o b
  OBVIOUS
<1>11. /\ d \in Seq(U) /\ Len(d) = p + ld
       /\ \A x \in 1 .. p : d[x] = a[x]
       /\ \A x \in 1 .. ld : d[p + x] = b[x]
  <2>1. /\ d \in Seq(U) /\ Len(d) = Len(a) + Len(b)
        /\ \A x \in 1 .. Len(a) : d[x] = a[x]
        /\ \A x \in 1 .. Len(b) : d[Len(a) + x] = b[x]
    BY <1>7, <1>10, OneBehindOther
  <2>2. QED
    BY <1>2, <1>6, <2>1
<1>12. ASSUME NEW x \in 1 .. (p + ld)
       PROVE  d[x] = t[x]
  <2>1. CASE x <= p
    <3>1. x \in 1 .. p
      BY <2>1
    <3>2. QED
      BY <1>2, <1>11, <3>1
  <2>2. CASE x > p
    <3>1. PICK y \in 1 .. ld : x = p + y
      <4>1. x - p \in 1 .. ld /\ x = p + (x - p)
        BY <2>2
      <4>2. QED
        BY <4>1
    <3>2. x \in (p + 1) .. (p + ld)
      BY <2>2
    <3>3. QED
      BY <1>6, <1>11, <3>1, <3>2
  <2>3. QED
    BY <2>1, <2>2
<1>13. d = c
  BY <1>9, <1>11, <1>12
<1>14. QED
  BY <1>1, <1>5, <1>8, <1>10, <1>13

\* What a word adds to what the inflater has.
LEMMA SayIs ==
  ASSUME NEW ld \in Nat, Say(ld), tmp_table \in Seq(Lengths16), place \in Nat, said \in Nat,
         heard = SubSeq(tmp_table, 1, place + said), said + ld \in Nat,
         Same(tmp_table, place, said + ld),
         \/ ld = 1
         \/ LengthAt(place) # 0 /\ ld \in 3 .. 6 /\ said >= 1
         \/ LengthAt(place) = 0 /\ ld \in 3 .. 138
  PROVE  heard' = SubSeq(tmp_table, 1, place + said + ld)
<1> DEFINE v == LengthAt(place)
           before == IF heard = <<>> THEN 0 ELSE Last(heard)
<1>1. ld >= 1 /\ place + (said + ld) <= Len(tmp_table) /\ Len(tmp_table) \in Nat
  BY DEF Same
<1>2. v = tmp_table[place + 1] /\ v \in Lengths16
  BY <1>1 DEF LengthAt
<1>3. \A n \in (place + 1) .. (place + (said + ld)) : tmp_table[n] = v
  BY <1>2 DEF Same
<1>4. said >= 1 => before = v
  <2>1. SUFFICES ASSUME said >= 1 PROVE before = v
    OBVIOUS
  <2>2. PICK p \in Nat : p = place + said /\ p >= 1 /\ p <= Len(tmp_table)
    BY <1>1, <2>1
  <2>3. heard \in Seq(Lengths16) /\ Len(heard) = p /\ heard[p] = tmp_table[p]
    <3>1. PICK h : h = SubSeq(tmp_table, 1, p)
      OBVIOUS
    <3>2. h \in Seq(Lengths16) /\ Len(h) = p /\ h[p] = tmp_table[p]
      BY <2>2, <3>1
    <3>3. heard = h
      BY <2>2, <3>1
    <3>4. QED
      BY <3>2, <3>3
  <2>4. heard # <<>> /\ before = tmp_table[p]
    <3>1. Len(<<>>) = 0 /\ Len(heard) # 0
      BY <2>2, <2>3
    <3>2. heard # <<>>
      BY <3>1
    <3>3. QED
      BY <2>3, <3>2 DEF Last
  <2>5. p \in (place + 1) .. (place + (said + ld))
    BY <1>1, <2>1, <2>2
  <2>6. QED
    BY <1>3, <2>4, <2>5
<1>5. heard' = heard \o Expand(encode_codeword(TableWord(v, ld)), before)
  BY DEF Say, TableWord
<1>6. Expand(encode_codeword(TableWord(v, ld)), before) = Times(v, ld)
  <2>1. ld = 1 \/ (v # 0 /\ ld \in 3 .. 6 /\ before = v) \/ (v = 0 /\ ld \in 3 .. 138)
    BY <1>4
  <2> HIDE DEF v, before
  <2>2. QED
    BY <1>2, <2>1, WordHeard
<1>7. PICK p \in Nat : p = place + said
  OBVIOUS
<1>8. p + ld <= Len(tmp_table) /\ \A n \in (p + 1) .. (p + ld) : tmp_table[n] = v
  <2>1. p + ld = place + (said + ld)
    BY <1>7
  <2>2. \A n \in (p + 1) .. (p + ld) : n \in (place + 1) .. (place + (said + ld))
    BY <1>7
  <2> HIDE DEF v
  <2>3. QED
    BY <1>1, <1>3, <2>1, <2>2
<1> HIDE DEF v, before
<1>9. SubSeq(tmp_table, 1, p) \o Times(v, ld) = SubSeq(tmp_table, 1, p + ld)
  BY <1>8, FurtherOn
<1>10. QED
  BY <1>5, <1>6, <1>7, <1>9

LEMMA TableIs ==
  ASSUME TableJoined
  PROVE  /\ tmp_table \in Seq(Lengths16) /\ Len(tmp_table) = table_lit_length + table_dist_length
         /\ \A x \in 1 .. table_lit_length : tmp_table[x] = lit[x]
         /\ \A x \in 1 .. table_dist_length : tmp_table[table_lit_length + x] = dist[x]
<1>1. PICK a : a = SubSeq(lit, 1, table_lit_length)
  OBVIOUS
<1>2. PICK b : b = SubSeq(dist, 1, table_dist_length)
  OBVIOUS
<1>3. a \in Seq(Lengths16) /\ Len(a) = table_lit_length /\ \A x \in 1 .. Len(a) : a[x] = lit[x]
  BY <1>1 DEF TableJoined, TrimmedTo
<1>4. b \in Seq(Lengths16) /\ Len(b) = table_dist_length /\ \A x \in 1 .. Len(b) : b[x] = dist[x]
  BY <1>2 DEF TableJoined, TrimmedTo
<1>5. tmp_table = a \o b
  BY <1>1, <1>2 DEF TableJoined
<1>6. /\ tmp_table \in Seq(Lengths16) /\ Len(tmp_table) = Len(a) + Len(b)
      /\ \A x \in 1 .. Len(a) : tmp_table[x] = a[x]
      /\ \A x \in 1 .. Len(b) : tmp_table[Len(a) + x] = b[x]
  <2>1. a \in Seq(Lengths16) /\ b \in Seq(Lengths16)
    BY <1>3, <1>4
  <2>2. QED
    <3>1. PICK q : q = a \o b
      OBVIOUS
    <3>2. /\ q \in Seq(Lengths16) /\ Len(q) = Len(a) + Len(b)
          /\ \A x \in 1 .. Len(a) : q[x] = a[x]
          /\ \A x \in 1 .. Len(b) : q[Len(a) + x] = b[x]
      BY <2>1, <3>1, OneBehindOther
    <3>3. q = tmp_table
      BY <1>5, <3>1
    <3>4. QED
      BY <3>2, <3>3
<1>7. QED
  BY <1>3, <1>4, <1>6

LEMMA JoinedType == TableJoined => tmp_table \in Seq(Lengths16) /\ Len(tmp_table) \in Nat
<1>1. TableJoined => tmp_table \in Seq(Lengths16)
  BY TableIs
<1>2. QED
  BY <1>1

LEMMA TableInit == TInit => TableInv
<1> SUFFICES ASSUME TInit PROVE TableInv
  OBVIOUS
<1>1. lit \in Seq(Lengths16) /\ dist \in Seq(Lengths16) /\ dist # <<>> /\ \E n \in DOMAIN lit : lit[n] # 0
  BY TableAssumption DEF TInit, Lengths16
<1>2. TrimmedTo(lit, table_lit_length)
  <2>1. table_lit_length = Trimmed(lit) /\ Trimmed(lit) # 0 /\ Trimmed(lit) \in 0 .. Len(lit)
    BY <1>1, TrimmedIs DEF TInit
  <2>2. \A x \in (Trimmed(lit) + 1) .. Len(lit) : lit[x] = 0
    BY <1>1, TrimmedIs
  <2>3. QED
    BY <1>1, <2>1, <2>2 DEF TrimmedTo
<1>3. TrimmedTo(dist, table_dist_length)
  <2>1. table_dist_length = (IF Trimmed(dist) = 0 THEN 1 ELSE Trimmed(dist)) /\ Len(dist) \in Nat \ {0}
    BY <1>1 DEF TInit, DistLength
  <2>2. Trimmed(dist) \in 0 .. Len(dist) /\ \A x \in (Trimmed(dist) + 1) .. Len(dist) : dist[x] = 0
    BY <1>1, TrimmedIs
  <2>3. PICK m \in 0 .. Len(dist) : m = Trimmed(dist)
    BY <2>2
  <2>4. table_dist_length = (IF m = 0 THEN 1 ELSE m) /\ \A x \in (m + 1) .. Len(dist) : dist[x] = 0
    BY <2>1, <2>2, <2>3
  <2>5. QED
    BY <1>1, <2>1, <2>4 DEF TrimmedTo
<1>4. TableJoined
  BY <1>2, <1>3 DEF TInit, TableJoined
<1>5. tmp_table \in Seq(Lengths16) /\ Len(tmp_table) \in Nat
  BY <1>4, JoinedType
<1>6. WithinRun
  BY <1>5 DEF TInit, WithinRun
<1>7. heard = <<>> /\ SubSeq(tmp_table, 1, 0) = <<>> /\ place + said = 0
  BY <1>5 DEF TInit
<1>8. QED
  BY <1>4, <1>6, <1>7 DEF TableInv

LEMMA TablesStay ==
  ASSUME bothTables' = bothTables
  PROVE  tmp_table' = tmp_table /\ (TableJoined => TableJoined')
BY DEF bothTables, TableJoined

\* From one place to the next.
LEMMA NextPlace ==
  ASSUME TableJoined', tmp_table' \in Seq(Lengths16), place' \in Nat, place' <= Len(tmp_table'),
         run' = 0, said' = 0, heard' = SubSeq(tmp_table', 1, place')
  PROVE  TableInv'
<1>1. WithinRun'
  BY DEF WithinRun
<1>2. place' + said' = place'
  <2>1. PICK p \in Nat : p = place'
    OBVIOUS
  <2>2. p + 0 = p /\ said' = 0
    OBVIOUS
  <2>3. QED
    BY <2>1, <2>2
<1>3. QED
  BY <1>1, <1>2 DEF TableInv

LEMMA SayMoreKeeps ==
  ASSUME TableInv, NEW j \in Nat, NEW k \in Nat, k = said, SayMore(j, k), j >= k + 3,
         Same(tmp_table, place, j), LengthAt(place) # 0 => k >= 1
  PROVE  TableInv'
<1> DEFINE ld == RepeatOf(j - k, MostRepeat)
<1>1. MostRepeat \in {6, 138} /\ (MostRepeat = 6 <=> LengthAt(place) # 0)
  BY DEF MostRepeat
<1>2. ld \in 3 .. MostRepeat /\ ld <= j - k /\ (ld = j - k \/ j - k >= ld + 3)
  <2>1. PICK rest \in Nat : rest = j - k /\ rest >= 3
    OBVIOUS
  <2>2. QED
    BY <1>1, <2>1, RepeatOfIs, SMTT(20)
<1>3. tmp_table \in Seq(Lengths16) /\ Len(tmp_table) \in Nat /\ TableJoined /\ WithinRun
  BY JoinedType DEF TableInv
<1>4. place \in Nat /\ place + j <= Len(tmp_table)
  BY <1>3 DEF WithinRun, Same
<1>5. Say(ld) /\ bothTables' = bothTables
  BY DEF SayMore
<1>6. (k + ld = j /\ place' = place + j /\ run' = 0 /\ said' = 0)
        \/ (k + ld # j /\ run' = j /\ said' = k + ld /\ place' = place)
  BY DEF SayMore
<1>7. tmp_table' = tmp_table /\ TableJoined'
  BY <1>3, <1>5, TablesStay
<1> HIDE DEF ld
<1>8. PICK n \in Nat : n = ld /\ n >= 3 /\ k + n <= j /\ (k + n = j \/ j >= k + n + 3)
                       /\ (LengthAt(place) # 0 => n <= 6) /\ n <= 138
  BY <1>1, <1>2
<1>9. Same(tmp_table, place, k + n)
  BY <1>4, <1>8 DEF Same
<1>10. heard' = SubSeq(tmp_table, 1, place + k + n)
  <2>1. \/ LengthAt(place) # 0 /\ n \in 3 .. 6 /\ said >= 1
        \/ LengthAt(place) = 0 /\ n \in 3 .. 138
    BY <1>8
  <2>2. Say(n) /\ heard = SubSeq(tmp_table, 1, place + said) /\ said + n \in Nat
    BY <1>5, <1>8 DEF TableInv
  <2>3. QED
    BY <1>3, <1>4, <1>9, <2>1, <2>2, SayIs
<1>11. CASE k + n = j
  <2>1. place' = place + j /\ run' = 0 /\ said' = 0
    BY <1>6, <1>8, <1>11
  <2>2. place + k + n = place' /\ place' \in Nat /\ place' <= Len(tmp_table')
    BY <1>4, <1>7, <1>11, <2>1
  <2>3. heard' = SubSeq(tmp_table', 1, place')
    BY <1>7, <1>10, <2>2
  <2>4. tmp_table' \in Seq(Lengths16)
    BY <1>3, <1>7
  <2>5. QED
    BY <1>7, <2>1, <2>2, <2>3, <2>4, NextPlace
<1>12. CASE k + n # j
  <2>1. run' = j /\ said' = k + n /\ place' = place
    BY <1>6, <1>8, <1>12
  <2>2. j >= k + n + 3 /\ Same(tmp_table', place', run')
    BY <1>7, <1>8, <1>12, <2>1
  <2>3. WithinRun'
    BY <1>4, <1>7, <1>8, <2>1, <2>2 DEF WithinRun
  <2>4. place' + said' = place + k + n
    BY <1>4, <2>1
  <2>5. heard' = SubSeq(tmp_table', 1, place' + said')
    BY <1>7, <1>10, <2>4
  <2>6. QED
    BY <1>7, <2>3, <2>5 DEF TableInv
<1>13. QED
  BY <1>11, <1>12

LEMMA AtAPlace ==
  ASSUME TableInv, said = run
  PROVE  /\ said = 0 /\ run = 0 /\ place \in Nat /\ heard = SubSeq(tmp_table, 1, place)
         /\ tmp_table \in Seq(Lengths16) /\ Len(tmp_table) \in Nat /\ TableJoined
         /\ place < TableSize => RunLength \in Nat /\ RunLength >= 1 /\ Same(tmp_table, place, RunLength)
<1>1. said = 0 /\ run = 0 /\ place \in Nat /\ TableJoined /\ heard = SubSeq(tmp_table, 1, place + said)
  BY DEF TableInv, WithinRun
<1>2. place + said = place
  BY <1>1
<1>3. tmp_table \in Seq(Lengths16) /\ Len(tmp_table) \in Nat
  BY <1>1, JoinedType
<1>4. QED
  BY <1>1, <1>2, <1>3, RunLengthIs

\* One length at a place, whether or not a repeat follows.
LEMMA SayOne ==
  ASSUME TableInv, said = run, place < TableSize, Say(1)
  PROVE  heard' = SubSeq(tmp_table, 1, place + 1)
<1>1. /\ said = 0 /\ place \in Nat /\ heard = SubSeq(tmp_table, 1, place)
      /\ tmp_table \in Seq(Lengths16) /\ Len(tmp_table) \in Nat /\ TableSize = Len(tmp_table)
  BY AtAPlace DEF TableSize
<1>2. said + 1 = 1 /\ place + said = place /\ place + said + 1 = place + 1
  BY <1>1
<1>3. Same(tmp_table, place, said + 1)
  BY <1>1, <1>2 DEF Same
<1>4. said \in Nat /\ said + 1 \in Nat /\ heard = SubSeq(tmp_table, 1, place + said)
  BY <1>1, <1>2
<1>5. heard' = SubSeq(tmp_table, 1, place + said + 1)
  BY <1>1, <1>3, <1>4, SayIs
<1>6. QED
  BY <1>2, <1>5

LEMMA SayLengthKeeps == TableInv /\ SayLength => TableInv'
<1> SUFFICES ASSUME TableInv, SayLength PROVE TableInv'
  OBVIOUS
<1>1. said = run /\ place < TableSize /\ Say(1) /\ bothTables' = bothTables
  BY DEF SayLength
<1>2. /\ said = 0 /\ run = 0 /\ place \in Nat /\ tmp_table \in Seq(Lengths16) /\ Len(tmp_table) \in Nat
      /\ TableJoined /\ RunLength \in Nat /\ Same(tmp_table, place, RunLength) /\ TableSize = Len(tmp_table)
  BY <1>1, AtAPlace DEF TableSize
<1>3. heard' = SubSeq(tmp_table, 1, place + 1)
  BY <1>1, SayOne
<1>4. tmp_table' = tmp_table /\ TableJoined'
  BY <1>1, <1>2, TablesStay
<1>5. CASE RunLength >= 4
  <2>1. run' = RunLength /\ said' = 1 /\ place' = place
    BY <1>5 DEF SayLength
  <2>2. WithinRun'
    BY <1>1, <1>2, <1>4, <1>5, <2>1 DEF WithinRun
  <2>3. heard' = SubSeq(tmp_table', 1, place' + said')
    BY <1>3, <1>4, <2>1
  <2>4. QED
    BY <1>4, <2>2, <2>3 DEF TableInv
<1>6. CASE ~(RunLength >= 4)
  <2>1. place' = place + 1 /\ run' = 0 /\ said' = 0
    BY <1>2, <1>6 DEF SayLength
  <2>2. place' \in Nat /\ place' <= Len(tmp_table') /\ tmp_table' \in Seq(Lengths16)
    BY <1>1, <1>2, <1>4, <2>1
  <2>3. heard' = SubSeq(tmp_table', 1, place')
    BY <1>3, <1>4, <2>1
  <2>4. QED
    BY <1>4, <2>1, <2>2, <2>3, NextPlace
<1>7. QED
  BY <1>5, <1>6

LEMMA SayZeroKeeps == TableInv /\ SayZero => TableInv'
<1> SUFFICES ASSUME TableInv, SayZero PROVE TableInv'
  OBVIOUS
<1>1. said = run /\ place < TableSize /\ Say(1) /\ bothTables' = bothTables
  BY DEF SayZero
<1>2. /\ said = 0 /\ run = 0 /\ place \in Nat /\ tmp_table \in Seq(Lengths16) /\ Len(tmp_table) \in Nat
      /\ TableJoined /\ TableSize = Len(tmp_table)
  BY <1>1, AtAPlace DEF TableSize
<1>3. heard' = SubSeq(tmp_table, 1, place + 1)
  BY <1>1, SayOne
<1>4. tmp_table' = tmp_table /\ TableJoined'
  BY <1>1, <1>2, TablesStay
<1>5. place' = place + 1 /\ run' = 0 /\ said' = 0
  BY <1>2 DEF SayZero
<1>6. place' \in Nat /\ place' <= Len(tmp_table') /\ tmp_table' \in Seq(Lengths16)
  BY <1>1, <1>2, <1>4, <1>5
<1>7. heard' = SubSeq(tmp_table', 1, place')
  BY <1>3, <1>4, <1>5
<1>8. QED
  BY <1>4, <1>5, <1>6, <1>7, NextPlace

LEMMA SayZerosKeeps == TableInv /\ SayZeros => TableInv'
<1> SUFFICES ASSUME TableInv, SayZeros PROVE TableInv'
  OBVIOUS
<1>1. said = run /\ place < TableSize /\ LengthAt(place) = 0 /\ RunLength >= 3 /\ SayMore(RunLength, 0)
  BY DEF SayZeros, ZeroRun
<1>2. said = 0 /\ RunLength \in Nat /\ Same(tmp_table, place, RunLength)
  BY <1>1, AtAPlace
<1>3. RunLength >= 0 + 3
  BY <1>1, <1>2
<1>4. PICK j : j = RunLength
  OBVIOUS
<1>5. j \in Nat /\ j >= 0 + 3 /\ SayMore(j, 0) /\ Same(tmp_table, place, j)
  BY <1>1, <1>2, <1>3, <1>4
<1>6. QED
  BY <1>1, <1>2, <1>5, SayMoreKeeps

LEMMA RepeatKeeps == TableInv /\ Repeat => TableInv'
<1> SUFFICES ASSUME TableInv, Repeat PROVE TableInv'
  OBVIOUS
<1>1. said # run /\ SayMore(run, said)
  BY DEF Repeat
<1>2. said \in Nat /\ run \in Nat /\ said >= 1 /\ run >= said + 3 /\ Same(tmp_table, place, run)
  BY <1>1 DEF TableInv, WithinRun
<1>3. QED
  BY <1>1, <1>2, SayMoreKeeps

LEMMA TableStutter == TableInv /\ UNCHANGED tvars => TableInv'
BY DEF TableInv, TableJoined, WithinRun, tvars

\* While the words are made, the inflater has the table up to this place and what
\* is said of the run, whose rest is never too short for a repeat
\* (create_best_huffman_map, for all tables of code lengths).
THEOREM TableInvariant == TSpec => []TableInv
<1>1. TInit => TableInv
  BY TableInit
<1>2. TableInv /\ [TNext]_tvars => TableInv'
  BY SayLengthKeeps, SayZeroKeeps, SayZerosKeeps, RepeatKeeps, TableStutter DEF TNext, TTerminating
<1>3. QED
  BY <1>1, <1>2, PTL DEF TSpec

LEMMA TablesComeBack == TableInv => TablesArrive
<1> SUFFICES ASSUME TableInv PROVE TablesArrive
  OBVIOUS
<1> DEFINE part(n, m, size) == [x \in 1 .. size |-> IF x <= m THEN heard[n + x] ELSE 0]
<1>1. /\ TrimmedTo(lit, table_lit_length) /\ TrimmedTo(dist, table_dist_length) /\ WithinRun
      /\ tmp_table = SubSeq(lit, 1, table_lit_length) \o SubSeq(dist, 1, table_dist_length)
      /\ heard = SubSeq(tmp_table, 1, place + said)
  BY DEF TableInv, TableJoined
<1>2. ASSUME place = TableSize
      PROVE  part(0, table_lit_length, Len(lit)) = lit /\ part(table_lit_length, table_dist_length, Len(dist)) = dist
  <2>1. tmp_table \in Seq(Lengths16) /\ Len(tmp_table) = table_lit_length + table_dist_length
    BY TableIs DEF TableInv
  <2>2. place = Len(tmp_table) /\ place \in Nat /\ said = 0
    BY <1>1, <1>2, <2>1 DEF WithinRun, TableSize, Same
  <2>3. heard = tmp_table
    <3>1. SubSeq(tmp_table, 1, Len(tmp_table)) = tmp_table
      BY <2>1
    <3>2. place + said = Len(tmp_table)
      BY <2>2
    <3>3. QED
      BY <1>1, <3>1, <3>2
  <2>4. /\ \A x \in 1 .. table_lit_length : heard[x] = lit[x]
        /\ \A x \in 1 .. table_dist_length : heard[table_lit_length + x] = dist[x]
    BY <2>3, TableIs DEF TableInv
  <2>5. part(0, table_lit_length, Len(lit)) = lit
    <3>1. lit \in Seq(Lengths16) /\ table_lit_length \in 1 .. Len(lit)
          /\ \A x \in (table_lit_length + 1) .. Len(lit) : lit[x] = 0
      BY <1>1 DEF TrimmedTo
    <3>2. \A x \in 1 .. Len(lit) : (IF x <= table_lit_length THEN heard[0 + x] ELSE 0) = lit[x]
      BY <2>4, <3>1
    <3>3. lit = [x \in 1 .. Len(lit) |-> lit[x]]
      BY <3>1
    <3>4. QED
      BY <3>2, <3>3
  <2>6. part(table_lit_length, table_dist_length, Len(dist)) = dist
    <3>1. dist \in Seq(Lengths16) /\ table_dist_length \in 1 .. Len(dist)
          /\ \A x \in (table_dist_length + 1) .. Len(dist) : dist[x] = 0
      BY <1>1 DEF TrimmedTo
    <3>2. \A x \in 1 .. Len(dist) :
            (IF x <= table_dist_length THEN heard[table_lit_length + x] ELSE 0) = dist[x]
      BY <2>4, <3>1
    <3>3. dist = [x \in 1 .. Len(dist) |-> dist[x]]
      BY <3>1
    <3>4. QED
      BY <3>2, <3>3
  <2>7. QED
    BY <2>5, <2>6
<1>3. QED
  BY <1>1, <1>2 DEF TablesArrive

\* An inflater that reads the words of the code tables has, at the end, the lengths
\* of both codes (create_best_huffman_map, for all tables of code lengths).
THEOREM TablesReadBack == TSpec => []TablesArrive
<1>1. TableInv => TablesArrive
  BY TablesComeBack
<1>2. QED
  BY <1>1, TableInvariant, PTL
=============================================================================
