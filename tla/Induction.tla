----------------------------- MODULE Induction -----------------------------
(***************************************************************************)
(* Induction in first-order form: the hypothesis is a set instead of a     *)
(* predicate, so that the provers can apply it to any set comprehension.   *)
(* Over the naturals, over the powers of two, which are taken without an   *)
(* exponent as the numbers that doubling reaches from one, over sequences  *)
(* and over finite sets.                                                   *)
(*                                                                         *)
(* With it, what the library's folds over sequences compute: FlattenSeq    *)
(* puts sequences one behind the other, FoldLeft goes through a sequence   *)
(* step by step.  Both are defined by a recursive function; that there is  *)
(* such a function, and only one, is shown by induction over its           *)
(* arguments.  A step is given as a function, Fold; a fold over an         *)
(* operator is one of these if the operator keeps to a set.  And what is   *)
(* known of a sum over a set, however it is taken.                         *)
(***************************************************************************)
EXTENDS Integers, SequencesExt, SequenceTheorems, FiniteSetTheorems, WellFoundedInduction, TLAPS

Less == {pair \in Nat \X Nat : pair[1] < pair[2]}

LEMMA LessWellFounded == IsWellFoundedOn(Less, Nat)
BY NatLessThanWellFounded DEF OpToRel, Less

\* A set of naturals that holds zero and every successor holds them all.
LEMMA SetInduction ==
  ASSUME NEW T \in SUBSET Nat, 0 \in T, \A n \in T : n + 1 \in T
  PROVE  T = Nat
<1> SUFFICES ASSUME Nat \ T # {} PROVE FALSE
  OBVIOUS
<1>1. PICK m \in Nat \ T : \A y \in Nat \ T : ~ (<<y, m>> \in Less)
  BY LessWellFounded, WFMin
<1>2. m # 0 /\ m - 1 \in Nat /\ m = (m - 1) + 1
  <2>1. m \in Nat /\ m # 0
    OBVIOUS
  <2>2. QED
    BY <2>1
<1>3. <<m - 1, m>> \in Less
  BY <1>2 DEF Less
<1>4. m - 1 \in T
  BY <1>1, <1>2, <1>3
<1>5. QED
  BY <1>2, <1>4

-----------------------------------------------------------------------------

Closed(S) == 1 \in S /\ \A s \in S : 2 * s \in S

Powers == {p \in Nat : \A S \in SUBSET Nat : Closed(S) => p \in S}

LEMMA OneIsPower == 1 \in Powers
BY DEF Powers, Closed

LEMMA DoubledPower ==
  ASSUME NEW p \in Powers
  PROVE  2 * p \in Powers
<1>1. p \in Nat /\ 2 * p \in Nat
  BY DEF Powers
<1>2. ASSUME NEW S \in SUBSET Nat, Closed(S) PROVE 2 * p \in S
  <2>1. p \in S
    BY <1>2 DEF Powers
  <2>2. QED
    BY <1>2, <2>1 DEF Closed
<1>3. QED
  BY <1>1, <1>2 DEF Powers

\* A set that holds one and is closed under doubling holds all powers.
LEMMA PowerInduction ==
  ASSUME NEW S \in SUBSET Powers, 1 \in S, \A s \in S : 2 * s \in S
  PROVE  S = Powers
<1>1. S \in SUBSET Nat
  BY DEF Powers
<1>2. Closed(S)
  BY DEF Closed
<1>3. \A p \in Powers : p \in S
  BY <1>1, <1>2 DEF Powers
<1>4. QED
  BY <1>3

LEMMA PowersPositive == \A p \in Powers : p \in Nat /\ p >= 1
<1> DEFINE S == {p \in Powers : p >= 1}
<1>1. 1 \in S
  BY OneIsPower
<1>2. ASSUME NEW s \in S PROVE 2 * s \in S
  <2>1. s \in Nat /\ s >= 1 /\ s \in Powers
    BY DEF Powers
  <2>2. 2 * s >= 1
    BY <2>1
  <2>3. QED
    BY <2>1, <2>2, DoubledPower
<1> HIDE DEF S
<1>3. S = Powers
  <2>1. S \in SUBSET Powers
    BY DEF S
  <2>2. QED
    BY <1>1, <1>2, <2>1, PowerInduction
<1>4. QED
  BY <1>3 DEF S, Powers

\* Every power but one is twice another.
LEMMA HalfPower ==
  ASSUME NEW p \in Powers, p # 1
  PROVE  \E q \in Powers : p = 2 * q
<1> DEFINE S == {s \in Powers : s = 1 \/ \E q \in Powers : s = 2 * q}
<1>1. 1 \in S
  BY OneIsPower
<1>2. \A s \in S : 2 * s \in S
  BY DoubledPower
<1> HIDE DEF S
<1>3. S = Powers
  <2>1. S \in SUBSET Powers
    BY DEF S
  <2>2. QED
    BY <1>1, <1>2, <2>1, PowerInduction
<1>4. QED
  BY <1>3 DEF S

\* Different powers are at least a factor of two apart.
LEMMA PowersApart ==
  ASSUME NEW p \in Powers, NEW q \in Powers, p < q
  PROVE  2 * p <= q
<1> DEFINE S == {s \in Powers : \A r \in Powers : s < r => 2 * s <= r}
<1>1. 1 \in S
  <2>1. ASSUME NEW r \in Powers, 1 < r PROVE 2 * 1 <= r
    BY <2>1, PowersPositive
  <2>2. QED
    BY <2>1, OneIsPower
<1>2. ASSUME NEW s \in S PROVE 2 * s \in S
  <2>1. ASSUME NEW r \in Powers, 2 * s < r PROVE 2 * (2 * s) <= r
    <3>1. s \in Nat /\ r \in Nat /\ s >= 1
      BY PowersPositive
    <3>2. r # 1
      BY <2>1, <3>1
    <3>3. PICK h \in Powers : r = 2 * h
      BY <3>2, HalfPower
    <3>4. h \in Nat /\ s < h
      BY <2>1, <3>1, <3>3, PowersPositive
    <3>5. 2 * s <= h
      BY <3>4
    <3>6. QED
      BY <3>1, <3>3, <3>4, <3>5
  <2>2. QED
    BY <2>1, DoubledPower
<1> HIDE DEF S
<1>3. S = Powers
  <2>1. S \in SUBSET Powers
    BY DEF S
  <2>2. QED
    BY <1>1, <1>2, <2>1, PowerInduction
<1>4. QED
  BY <1>3 DEF S

\* The smaller of two powers divides the larger.
LEMMA PowersDivide ==
  ASSUME NEW p \in Powers, NEW q \in Powers, p <= q
  PROVE  \E h \in Powers : q = p * h
<1> DEFINE S == {s \in Powers : \A r \in Powers : r <= s => \E h \in Powers : s = r * h}
<1>1. 1 \in S
  <2>1. ASSUME NEW r \in Powers, r <= 1 PROVE \E h \in Powers : 1 = r * h
    <3>1. r = 1 /\ 1 * 1 = 1
      BY <2>1, PowersPositive
    <3>2. QED
      BY <3>1, OneIsPower
  <2>2. QED
    BY <2>1, OneIsPower
<1>2. ASSUME NEW s \in S PROVE 2 * s \in S
  <2>1. ASSUME NEW r \in Powers, r <= 2 * s PROVE \E h \in Powers : 2 * s = r * h
    <3>1. s \in Powers /\ s \in Nat /\ r \in Nat /\ 2 * s \in Powers
      BY PowersPositive, DoubledPower
    <3>2. CASE r = 1
      <4>1. 2 * s = 1 * (2 * s)
        BY <3>1
      <4>2. QED
        BY <3>1, <3>2, <4>1
    <3>3. CASE r # 1
      <4>1. PICK t \in Powers : r = 2 * t
        BY <3>3, HalfPower
      <4>2. t \in Nat /\ t <= s
        BY <2>1, <3>1, <4>1, PowersPositive
      <4>3. PICK h \in Powers : s = t * h
        BY <4>2
      <4>4. h \in Nat /\ 2 * s = r * h
        <5>1. h \in Nat
          BY PowersPositive
        <5>2. \A a, b \in Nat : 2 * (a * b) = (2 * a) * b
          OBVIOUS
        <5>3. QED
          BY <4>1, <4>2, <4>3, <5>1, <5>2
      <4>5. QED
        BY <4>4
    <3>4. QED
      BY <3>2, <3>3
  <2>2. QED
    BY <2>1, DoubledPower
<1> HIDE DEF S
<1>3. S = Powers
  <2>1. S \in SUBSET Powers
    BY DEF S
  <2>2. QED
    BY <1>1, <1>2, <2>1, PowerInduction
<1>4. QED
  BY <1>3 DEF S

LEMMA ProductGrows ==
  ASSUME NEW a \in Nat, NEW b \in Nat, NEW c \in Nat, a <= b
  PROVE  a * c <= b * c /\ c * a <= c * b
<1>1. PICK d \in Nat : b = a + d
  <2>1. b - a \in Nat /\ b = a + (b - a)
    OBVIOUS
  <2>2. QED
    BY <2>1
<1>2. b * c = a * c + d * c /\ c * b = c * a + c * d
  BY <1>1
<1>3. d * c \in Nat /\ c * d \in Nat /\ a * c \in Nat /\ c * a \in Nat
  OBVIOUS
<1>4. QED
  BY <1>2, <1>3

LEMMA ProductStrict ==
  ASSUME NEW a \in Nat, NEW b \in Nat, NEW c \in Nat, a < b, c >= 1
  PROVE  a * c < b * c
<1>1. a + 1 \in Nat /\ a + 1 <= b
  OBVIOUS
<1>2. (a + 1) * c <= b * c
  BY <1>1, ProductGrows
<1>3. (a + 1) * c = a * c + c
  OBVIOUS
<1>4. a * c \in Nat /\ b * c \in Nat
  OBVIOUS
<1>5. QED
  BY <1>2, <1>3, <1>4

\* Two numbers of the same number of bits whose products with powers of two
\* are equal are equal, and so are the powers.
LEMMA SameMantissa ==
  ASSUME NEW T \in Nat, NEW r \in T .. (2 * T - 1), NEW s \in T .. (2 * T - 1),
         T > 0, NEW p \in Powers, NEW q \in Powers, r * p = s * q
  PROVE  r = s /\ p = q
<1>1. ASSUME NEW a \in T .. (2 * T - 1), NEW b \in T .. (2 * T - 1),
             NEW x \in Powers, NEW y \in Powers, x < y
      PROVE  a * x < b * y
  <2>1. a \in Nat /\ b \in Nat /\ x \in Nat /\ y \in Nat /\ x >= 1
    BY PowersPositive
  <2>2. 2 * x <= y
    BY <1>1, PowersApart
  <2>3. a * x < (2 * T) * x
    BY <2>1, ProductStrict
  <2>4. (2 * T) * x = T * (2 * x)
    BY <2>1
  <2>5. T * (2 * x) <= T * y
    BY <2>1, <2>2, ProductGrows
  <2>6. T * y <= b * y
    BY <2>1, ProductGrows
  <2>7. /\ a * x \in Nat /\ (2 * T) * x \in Nat /\ T * (2 * x) \in Nat
        /\ T * y \in Nat /\ b * y \in Nat
    BY <2>1
  <2>8. QED
    BY <2>3, <2>4, <2>5, <2>6, <2>7
<1>2. p \in Nat /\ q \in Nat /\ p >= 1 /\ r \in Nat /\ s \in Nat
  BY PowersPositive
<1>3. r * p \in Nat /\ s * q \in Nat
  BY <1>2
<1>4. p = q
  <2>1. ~ (p < q)
    BY <1>1, <1>3
  <2>2. ~ (q < p)
    BY <1>1, <1>3
  <2>3. QED
    BY <1>2, <2>1, <2>2
<1>5. r = s
  <2>1. ASSUME NEW a \in Nat, NEW b \in Nat, a < b PROVE a * p < b * p
    BY <1>2, <2>1, ProductStrict
  <2>2. ~ (r < s) /\ ~ (s < r)
    BY <1>2, <1>3, <1>4, <2>1
  <2>3. QED
    BY <1>2, <2>2
<1>6. QED
  BY <1>4, <1>5

-----------------------------------------------------------------------------
(* Sequences.                                                              *)

\* Induction over sequences that grow at the end.
LEMMA SequenceInduction ==
  ASSUME NEW T, NEW P \in SUBSET Seq(T), <<>> \in P,
         \A s \in P : \A x \in T : Append(s, x) \in P
  PROVE  P = Seq(T)
<1> DEFINE N == {n \in Nat : \A s \in Seq(T) : Len(s) = n => s \in P}
<1>1. 0 \in N
  <2>1. \A s \in Seq(T) : Len(s) = 0 => s = <<>>
    OBVIOUS
  <2>2. QED
    BY <2>1
<1>2. ASSUME NEW n \in N PROVE n + 1 \in N
  <2>1. n \in Nat /\ \A s \in Seq(T) : Len(s) = n => s \in P
    OBVIOUS
  <2>2. ASSUME NEW s \in Seq(T), Len(s) = n + 1 PROVE s \in P
    <3> DEFINE f == [i \in 1 .. n |-> s[i]]
    <3>1. f \in Seq(T) /\ Len(f) = n
      BY <2>1, <2>2
    <3>2. s[n + 1] \in T /\ s = Append(f, s[n + 1])
      BY <2>1, <2>2, <3>1
    <3> HIDE DEF f
    <3>3. QED
      BY <2>1, <3>1, <3>2
  <2>3. QED
    BY <2>1, <2>2
<1> HIDE DEF N
<1>3. N = Nat
  <2>1. N \in SUBSET Nat
    BY DEF N
  <2>2. QED
    BY <1>1, <1>2, <2>1, SetInduction
<1>4. \A s \in Seq(T) : Len(s) \in N
  BY <1>3
<1>5. QED
  BY <1>4 DEF N

-----------------------------------------------------------------------------

\* F[i] is what the first i sequences of s are together, for i up to m.
UnfoldsTo(F, s, m) ==
  F = [i \in 1 .. m |-> IF i = 1 THEN s[i] ELSE F[i - 1] \o s[i]]
Unfolds(F, s) == UnfoldsTo(F, s, Len(s))

LEMMA UnfoldsExists ==
  ASSUME NEW T, NEW s \in Seq(Seq(T))
  PROVE  \E F \in [1 .. Len(s) -> Seq(T)] : Unfolds(F, s)
<1> DEFINE N == {m \in Nat : m <= Len(s) => \E F \in [1 .. m -> Seq(T)] : UnfoldsTo(F, s, m)}
<1>1. 0 \in N
  <2> DEFINE F == [i \in 1 .. 0 |-> <<>>]
  <2>1. F \in [1 .. 0 -> Seq(T)] /\ UnfoldsTo(F, s, 0)
    BY DEF UnfoldsTo
  <2>2. QED
    BY <2>1
<1>2. ASSUME NEW m \in N PROVE m + 1 \in N
  <2> SUFFICES ASSUME m + 1 <= Len(s)
               PROVE  \E G \in [1 .. m + 1 -> Seq(T)] : UnfoldsTo(G, s, m + 1)
    <3>1. m + 1 \in Nat
      OBVIOUS
    <3>2. QED
      BY <3>1, Zenon
  <2>1. m \in Nat /\ Len(s) \in Nat /\ s[m + 1] \in Seq(T)
    OBVIOUS
  <2>2. PICK F \in [1 .. m -> Seq(T)] : UnfoldsTo(F, s, m)
    <3>1. m <= Len(s)
      BY <2>1
    <3>2. QED
      BY <3>1
  <2> DEFINE G == [i \in 1 .. m + 1 |->
                     IF i <= m THEN F[i] ELSE IF i = 1 THEN s[i] ELSE F[i - 1] \o s[i]]
  <2>3. G \in [1 .. m + 1 -> Seq(T)]
    <3> SUFFICES ASSUME NEW i \in 1 .. m + 1 PROVE G[i] \in Seq(T)
      OBVIOUS
    <3>1. CASE i <= m
      BY <2>1, <2>2, <3>1
    <3>2. CASE i = m + 1
      <4>1. m = 0 \/ (i - 1 \in 1 .. m /\ F[i - 1] \in Seq(T))
        BY <2>1, <2>2, <3>2
      <4>2. QED
        BY <2>1, <3>2, <4>1
    <3>3. QED
      BY <2>1, <3>1, <3>2
  <2>4. ASSUME NEW i \in 1 .. m + 1
        PROVE  G[i] = IF i = 1 THEN s[i] ELSE G[i - 1] \o s[i]
    <3>1. i # 1 => i - 1 \in 1 .. m + 1 /\ i - 1 <= m
      BY <2>1
    <3>2. i # 1 => G[i - 1] = F[i - 1]
      BY <3>1
    <3>3. CASE i <= m
      <4>1. i \in 1 .. m /\ G[i] = F[i]
        BY <2>1, <3>3
      <4>2. F[i] = IF i = 1 THEN s[i] ELSE F[i - 1] \o s[i]
        BY <2>2, <4>1 DEF UnfoldsTo
      <4>3. QED
        BY <3>2, <4>1, <4>2
    <3>4. CASE ~(i <= m)
      BY <3>2, <3>4
    <3>5. QED
      BY <3>3, <3>4
  <2>5. DOMAIN G = 1 .. m + 1 /\ G = [i \in 1 .. m + 1 |-> G[i]]
    OBVIOUS
  <2> HIDE DEF G
  <2>6. UnfoldsTo(G, s, m + 1)
    <3>1. [i \in 1 .. m + 1 |-> G[i]]
            = [i \in 1 .. m + 1 |-> IF i = 1 THEN s[i] ELSE G[i - 1] \o s[i]]
      BY <2>4
    <3>2. QED
      BY <2>5, <3>1 DEF UnfoldsTo
  <2>7. QED
    BY <2>3, <2>6
<1> HIDE DEF N
<1>3. N = Nat
  <2>1. N \in SUBSET Nat
    BY DEF N
  <2>2. QED
    BY <1>1, <1>2, <2>1, SetInduction
<1>4. Len(s) \in Nat
  OBVIOUS
<1>5. Len(s) <= Len(s) /\ Len(s) \in N
  BY <1>3, <1>4
<1>6. QED
  BY <1>5 DEF N, Unfolds

Agree(s, t, n) == \A i \in 1 .. n : s[i] = t[i]

\* It only depends on those i sequences.
LEMMA UnfoldsOnce ==
  ASSUME NEW s, NEW t, NEW F, NEW G, Unfolds(F, s), Unfolds(G, t), Len(s) \in Nat, Len(t) \in Nat,
         NEW n \in Nat, n <= Len(s), n <= Len(t), Agree(s, t, n)
  PROVE  Agree(F, G, n)
<1> DEFINE N == {m \in Nat : m \in 1 .. n => F[m] = G[m]}
<1>1. 0 \in N
  OBVIOUS
<1>2. ASSUME NEW m \in N PROVE m + 1 \in N
  <2> SUFFICES ASSUME m + 1 \in 1 .. n PROVE F[m + 1] = G[m + 1]
    OBVIOUS
  <2>1. m \in Nat /\ m + 1 \in 1 .. Len(s) /\ m + 1 \in 1 .. Len(t) /\ (m + 1) - 1 = m
    OBVIOUS
  <2>2. /\ F[m + 1] = IF m + 1 = 1 THEN s[m + 1] ELSE F[(m + 1) - 1] \o s[m + 1]
        /\ G[m + 1] = IF m + 1 = 1 THEN t[m + 1] ELSE G[(m + 1) - 1] \o t[m + 1]
    BY <2>1 DEF Unfolds, UnfoldsTo
  <2>3. m + 1 # 1 => F[m] = G[m]
    BY <2>1
  <2>4. s[m + 1] = t[m + 1]
    BY DEF Agree
  <2>5. QED
    BY <2>1, <2>2, <2>3, <2>4
<1> HIDE DEF N
<1>3. N = Nat
  <2>1. N \in SUBSET Nat
    BY DEF N
  <2>2. QED
    BY <1>1, <1>2, <2>1, SetInduction
<1>4. \A i \in 1 .. n : i \in N
  BY <1>3
<1>5. QED
  BY <1>4 DEF N, Agree

LEMMA FlattenIs ==
  ASSUME NEW T, NEW s \in Seq(Seq(T)), s # <<>>
  PROVE  \E F : Unfolds(F, s) /\ FlattenSeq(s) = F[Len(s)]
<1> DEFINE G == CHOOSE F : Unfolds(F, s)
<1>1. Unfolds(G, s)
  BY UnfoldsExists
<1>2. Len(s) # 0
  OBVIOUS
<1>3. FlattenSeq(s) = G[Len(s)]
  BY <1>2 DEF FlattenSeq, Unfolds, UnfoldsTo
<1>4. QED
  BY <1>1, <1>3

LEMMA FlattenEmpty == FlattenSeq(<<>>) = <<>>
BY DEF FlattenSeq

LEMMA FlattenAppend ==
  ASSUME NEW T, NEW s \in Seq(Seq(T)), NEW x \in Seq(T)
  PROVE  FlattenSeq(Append(s, x)) = FlattenSeq(s) \o x
<1> DEFINE t == Append(s, x)
           n == Len(s)
<1>1. /\ t \in Seq(Seq(T)) /\ t # <<>> /\ n \in Nat /\ Len(t) = n + 1
      /\ t[n + 1] = x /\ \A i \in 1 .. n : t[i] = s[i]
  <2>1. n \in Nat
    OBVIOUS
  <2>2. QED
    BY <2>1, AppendProperties
<1> HIDE DEF t, n
<1>2. PICK G : Unfolds(G, t) /\ FlattenSeq(t) = G[n + 1]
  BY <1>1, FlattenIs
<1>3. G[n + 1] = IF n + 1 = 1 THEN t[n + 1] ELSE G[(n + 1) - 1] \o t[n + 1]
  <2>1. n + 1 \in 1 .. Len(t)
    BY <1>1
  <2>2. QED
    BY <1>2, <2>1 DEF Unfolds, UnfoldsTo
<1>4. CASE n = 0
  <2>1. s = <<>>
    BY <1>4 DEF n
  <2>2. FlattenSeq(s) \o x = x
    BY <2>1, FlattenEmpty
  <2>3. QED
    BY <1>1, <1>2, <1>3, <1>4, <2>2 DEF t
<1>5. CASE n # 0
  <2>1. s # <<>>
    BY <1>5 DEF n
  <2>2. PICK F : Unfolds(F, s) /\ FlattenSeq(s) = F[n]
    BY <2>1, FlattenIs DEF n
  <2>3. \A i \in 1 .. n : F[i] = G[i]
    <3>1. n <= Len(s) /\ n <= Len(t) /\ Len(s) \in Nat /\ Len(t) \in Nat
      BY <1>1 DEF n
    <3>2. Agree(s, t, n)
      BY <1>1 DEF Agree
    <3>3. Agree(F, G, n)
      BY <1>1, <1>2, <2>2, <3>1, <3>2, UnfoldsOnce
    <3>4. QED
      BY <3>3 DEF Agree
  <2>4. n \in 1 .. n /\ (n + 1) - 1 = n /\ n + 1 # 1
    BY <1>1, <1>5
  <2>5. QED
    BY <1>1, <1>2, <1>3, <2>2, <2>3, <2>4 DEF t
<1>6. QED
  BY <1>4, <1>5

LEMMA FlattenType ==
  ASSUME NEW T, NEW s \in Seq(Seq(T))
  PROVE  FlattenSeq(s) \in Seq(T)
<1> DEFINE P == {q \in Seq(Seq(T)) : FlattenSeq(q) \in Seq(T)}
<1>1. <<>> \in P
  <2>1. <<>> \in Seq(Seq(T)) /\ <<>> \in Seq(T)
    OBVIOUS
  <2>2. QED
    BY <2>1, FlattenEmpty
<1>2. \A q \in P : \A x \in Seq(T) : Append(q, x) \in P
  <2> SUFFICES ASSUME NEW q \in P, NEW x \in Seq(T) PROVE Append(q, x) \in P
    OBVIOUS
  <2>1. q \in Seq(Seq(T)) /\ FlattenSeq(q) \in Seq(T) /\ Append(q, x) \in Seq(Seq(T))
    OBVIOUS
  <2>2. FlattenSeq(Append(q, x)) = FlattenSeq(q) \o x
    BY <2>1, FlattenAppend
  <2>3. FlattenSeq(q) \o x \in Seq(T)
    BY <2>1
  <2>4. QED
    BY <2>1, <2>2, <2>3
<1>3. P \in SUBSET Seq(Seq(T))
  OBVIOUS
<1> HIDE DEF P
<1>4. P = Seq(Seq(T))
  BY <1>1, <1>2, <1>3, SequenceInduction
<1>5. QED
  BY <1>4 DEF P

LEMMA FlattenConcat ==
  ASSUME NEW T, NEW s \in Seq(Seq(T)), NEW t \in Seq(Seq(T))
  PROVE  FlattenSeq(s \o t) = FlattenSeq(s) \o FlattenSeq(t)
<1> DEFINE P == {q \in Seq(Seq(T)) : FlattenSeq(s \o q) = FlattenSeq(s) \o FlattenSeq(q)}
<1>1. <<>> \in P
  <2>1. s \o <<>> = s /\ FlattenSeq(s) \in Seq(T)
    BY FlattenType
  <2>2. FlattenSeq(s) \o <<>> = FlattenSeq(s)
    BY <2>1
  <2>3. QED
    BY <2>1, <2>2, FlattenEmpty
<1>2. \A q \in P : \A x \in Seq(T) : Append(q, x) \in P
  <2> SUFFICES ASSUME NEW q \in P, NEW x \in Seq(T) PROVE Append(q, x) \in P
    OBVIOUS
  <2>1. q \in Seq(Seq(T)) /\ FlattenSeq(s \o q) = FlattenSeq(s) \o FlattenSeq(q)
    OBVIOUS
  <2>2. s \o q \in Seq(Seq(T)) /\ Append(q, x) \in Seq(Seq(T)) /\ s \o Append(q, x) = Append(s \o q, x)
    BY <2>1
  <2>3. FlattenSeq(Append(s \o q, x)) = FlattenSeq(s \o q) \o x
    BY <2>2, FlattenAppend
  <2>4. FlattenSeq(Append(q, x)) = FlattenSeq(q) \o x
    BY <2>1, FlattenAppend
  <2>5. FlattenSeq(s) \in Seq(T) /\ FlattenSeq(q) \in Seq(T)
    BY <2>1, FlattenType
  <2>6. (FlattenSeq(s) \o FlattenSeq(q)) \o x = FlattenSeq(s) \o (FlattenSeq(q) \o x)
    BY <2>5, ConcatAssociative
  <2>7. FlattenSeq(s \o Append(q, x)) = FlattenSeq(s) \o FlattenSeq(Append(q, x))
    BY <2>1, <2>2, <2>3, <2>4, <2>6, Zenon
  <2>8. QED
    BY <2>2, <2>7
<1>3. P \in SUBSET Seq(Seq(T))
  OBVIOUS
<1> HIDE DEF P
<1>4. P = Seq(Seq(T))
  BY <1>1, <1>2, <1>3, SequenceInduction
<1>5. QED
  BY <1>4 DEF P

\* A sequence is taken apart from behind.
LEMMA Grow ==
  ASSUME NEW T, NEW s \in Seq(T), NEW k \in Nat, k + 1 <= Len(s)
  PROVE  SubSeq(s, 1, k + 1) = Append(SubSeq(s, 1, k), s[k + 1]) /\ SubSeq(s, 1, k) \in Seq(T)
         /\ s[k + 1] \in T
OBVIOUS

\* Every one of the sequences stands in the whole, behind those before it.
LEMMA FlattenPart ==
  ASSUME NEW T, NEW s \in Seq(Seq(T)), NEW i \in 1 .. Len(s), NEW k \in Nat, i = k + 1
  PROVE  /\ FlattenSeq(SubSeq(s, 1, k)) \in Seq(T)
         /\ FlattenSeq(SubSeq(s, i + 1, Len(s))) \in Seq(T)
         /\ FlattenSeq(SubSeq(s, 1, i)) = FlattenSeq(SubSeq(s, 1, k)) \o s[i]
         /\ FlattenSeq(s)
              = (FlattenSeq(SubSeq(s, 1, k)) \o s[i]) \o FlattenSeq(SubSeq(s, i + 1, Len(s)))
<1>1. PICK n \in Nat : n = Len(s) /\ i \in Nat
  OBVIOUS
<1>2. PICK x \in Seq(T) : x = s[i]
  OBVIOUS
<1>3. PICK p \in Seq(Seq(T)) : p = SubSeq(s, 1, k)
  <2>1. SubSeq(s, 1, k) \in Seq(Seq(T))
    BY <1>1, SubSeqProperties
  <2>2. QED
    BY <2>1, Zenon
<1>4. PICK q \in Seq(Seq(T)) : q = SubSeq(s, i + 1, n)
  <2>1. PICK j \in Nat : j = i + 1
    OBVIOUS
  <2>2. SubSeq(s, j, n) \in Seq(Seq(T))
    BY <1>1, <2>1, SubSeqProperties
  <2>3. QED
    BY <2>1, <2>2, Zenon
<1>5. SubSeq(s, 1, i) = Append(p, x)
  <2>1. SubSeq(s, 1, i) = SubSeq(s, 1, i - 1) \o << s[i] >>
    <3>1. 1 \in 1 .. Len(s) /\ i \in 1 .. Len(s)
      BY <1>1
    <3>2. QED
      BY <3>1, SubSeqRecursiveSecond
  <2>2. i - 1 = k
    OBVIOUS
  <2>3. p \o <<x>> = Append(p, x)
    OBVIOUS
  <2>4. QED
    BY <1>2, <1>3, <2>1, <2>2, <2>3
<1>6. s = SubSeq(s, 1, i) \o q
  <2>1. SubSeq(s, 1, i) \o SubSeq(s, i + 1, n) = SubSeq(s, 1, n)
    <3>1. 1 \in 1 .. Len(s) + 1 /\ i \in 1 - 1 .. Len(s) /\ n \in i .. Len(s)
      BY <1>1
    <3>2. QED
      BY <3>1, ConcatAdjacentSubSeq
  <2>2. SubSeq(s, 1, n) = s
    BY <1>1, SubSeqFull
  <2>3. QED
    BY <1>4, <2>1, <2>2
<1>7. Append(p, x) \in Seq(Seq(T))
  OBVIOUS
<1>8. FlattenSeq(Append(p, x)) = FlattenSeq(p) \o x
  BY FlattenAppend
<1>9. FlattenSeq(Append(p, x) \o q) = FlattenSeq(Append(p, x)) \o FlattenSeq(q)
  BY <1>7, FlattenConcat
<1>10. FlattenSeq(p) \in Seq(T) /\ FlattenSeq(q) \in Seq(T)
  BY FlattenType
<1>11. QED
  BY <1>1, <1>2, <1>3, <1>4, <1>5, <1>6, <1>8, <1>9, <1>10

LEMMA MiddleOf ==
  ASSUME NEW T, NEW a \in Seq(T), NEW b \in Seq(T), NEW c \in Seq(T)
  PROVE  /\ (a \o b) \o c \in Seq(T) /\ Len((a \o b) \o c) = Len(a) + Len(b) + Len(c)
         /\ \A j \in 1 .. Len(b) : ((a \o b) \o c)[Len(a) + j] = b[j]
         /\ SubSeq((a \o b) \o c, Len(a) + 1, Len(a) + Len(b)) = b
<1>1. PICK k \in Nat, l \in Nat, m \in Nat : k = Len(a) /\ l = Len(b) /\ m = Len(c)
  OBVIOUS
<1>2. PICK s \in Seq(T) : s = (a \o b) \o c
  <2>1. (a \o b) \o c \in Seq(T)
    BY ConcatProperties
  <2>2. QED
    BY <2>1, Zenon
<1>3. Len(s) = k + l + m /\ \A j \in 1 .. l : s[k + j] = b[j]
  <2>1. PICK d \in Seq(T) : d = a \o b /\ Len(d) = k + l /\ \A j \in 1 .. l : d[k + j] = b[j]
    <3>1. PICK d \in Seq(T) : d = a \o b
      BY ConcatProperties
    <3>2. Len(d) = k + l /\ \A j \in 1 .. l : d[k + j] = b[j]
      BY <1>1, <3>1
    <3>3. QED
      BY <3>1, <3>2, Zenon
  <2>2. s = d \o c
    BY <1>2, <2>1
  <2>3. \A j \in 1 .. l : k + j \in 1 .. k + l
    BY <1>1
  <2>4. QED
    BY <1>1, <2>1, <2>2, <2>3
<1>4. PICK f \in Nat, g \in Nat : f = k + 1 /\ g = k + l
  OBVIOUS
<1>5. PICK u : u = SubSeq(s, f, g)
  OBVIOUS
<1>6. \A i \in f .. g : s[i] \in T
  BY <1>3, <1>4
<1>7. /\ u \in Seq(T)
      /\ Len(u) = IF f <= g THEN g - f + 1 ELSE 0
      /\ \A i \in 1 .. g - f + 1 : u[i] = s[f + i - 1]
  BY <1>5, <1>6, SubSeqProperties
<1>8. Len(u) = l /\ \A i \in 1 .. l : u[i] = b[i]
  <2>1. g - f + 1 = l /\ \A i \in 1 .. l : f + i - 1 = k + i
    BY <1>4
  <2>2. QED
    BY <1>3, <1>4, <1>7, <2>1
<1>9. u = b
  BY <1>1, <1>7, <1>8, SeqEqual
<1>10. QED
  BY <1>1, <1>2, <1>3, <1>4, <1>5, <1>9

LEMMA Middle ==
  ASSUME NEW T, NEW a \in Seq(T), NEW b \in Seq(T), NEW c \in Seq(T), NEW s, s = (a \o b) \o c
  PROVE  /\ s \in Seq(T) /\ Len(s) = Len(a) + Len(b) + Len(c)
         /\ \A j \in 1 .. Len(b) : s[Len(a) + j] = b[j]
         /\ SubSeq(s, Len(a) + 1, Len(a) + Len(b)) = b
BY MiddleOf

-----------------------------------------------------------------------------
(* A function that is defined by its value one below.                      *)

Climbs(F, base, step, m) ==
  F = [n \in 0 .. m |-> IF n = 0 THEN base ELSE step[F[n - 1]]]

LEMMA ClimbExists ==
  ASSUME NEW T, NEW base \in T, NEW step \in [T -> T], NEW top \in Nat
  PROVE  \E F \in [0 .. top -> T] : Climbs(F, base, step, top)
<1> DEFINE N == {m \in Nat : \E F \in [0 .. m -> T] : Climbs(F, base, step, m)}
<1>1. 0 \in N
  <2> DEFINE F == [n \in 0 .. 0 |-> base]
  <2>1. F \in [0 .. 0 -> T] /\ Climbs(F, base, step, 0)
    BY DEF Climbs
  <2>2. QED
    BY <2>1
<1>2. ASSUME NEW m \in N PROVE m + 1 \in N
  <2>1. PICK F \in [0 .. m -> T] : Climbs(F, base, step, m)
    OBVIOUS
  <2>2. PICK k \in Nat : k = m + 1 /\ m \in Nat
    OBVIOUS
  <2> DEFINE G == [n \in 0 .. k |-> IF n = k THEN step[F[m]] ELSE F[n]]
  <2>3. G \in [0 .. k -> T]
    <3>1. step[F[m]] \in T /\ \A n \in 0 .. m : F[n] \in T
      BY <2>2
    <3>2. QED
      BY <2>2, <3>1
  <2>4. ASSUME NEW n \in 0 .. k PROVE G[n] = IF n = 0 THEN base ELSE step[G[n - 1]]
    <3>1. CASE n = k
      BY <2>2, <3>1
    <3>2. CASE n # k
      <4>1. n \in 0 .. m /\ G[n] = F[n] /\ (n # 0 => n - 1 \in 0 .. m /\ n - 1 # k)
        BY <2>2, <3>2
      <4>2. F[n] = IF n = 0 THEN base ELSE step[F[n - 1]]
        BY <2>1, <4>1 DEF Climbs
      <4>3. n # 0 => G[n - 1] = F[n - 1]
        BY <2>2, <4>1
      <4>4. QED
        BY <4>1, <4>2, <4>3
    <3>3. QED
      BY <3>1, <3>2
  <2>5. G = [n \in 0 .. k |-> G[n]]
    OBVIOUS
  <2> HIDE DEF G
  <2>6. Climbs(G, base, step, k)
    BY <2>4, <2>5 DEF Climbs
  <2>7. \E H \in [0 .. k -> T] : Climbs(H, base, step, k)
    BY <2>3, <2>6
  <2>8. QED
    BY <2>2, <2>7, Zenon
<1> HIDE DEF N
<1>3. N = Nat
  <2>1. N \in SUBSET Nat
    BY DEF N
  <2>2. QED
    BY <1>1, <1>2, <2>1, SetInduction
<1>4. QED
  BY <1>3 DEF N

-----------------------------------------------------------------------------
(* Greatest elements and sums.                                             *)

LEMMA MaxIs ==
  ASSUME NEW m \in Nat, NEW S \in SUBSET (0 .. m), S # {}
  PROVE  Max(S) \in S /\ \A y \in S : y <= Max(S)
<1> DEFINE N == {n \in Nat : \A R \in SUBSET (0 .. n) : R # {} => \E x \in R : \A y \in R : y <= x}
<1>1. 0 \in N
  <2> SUFFICES ASSUME NEW R \in SUBSET (0 .. 0), R # {} PROVE \E x \in R : \A y \in R : y <= x
    OBVIOUS
  <2>1. \A y \in R : y = 0
    OBVIOUS
  <2>2. PICK x : x \in R
    OBVIOUS
  <2>3. QED
    BY <2>1, <2>2
<1>2. ASSUME NEW n \in N PROVE n + 1 \in N
  <2> SUFFICES ASSUME NEW R \in SUBSET (0 .. n + 1), R # {} PROVE \E x \in R : \A y \in R : y <= x
    OBVIOUS
  <2>1. CASE n + 1 \in R
    BY <2>1
  <2>2. CASE n + 1 \notin R
    <3>1. R \in SUBSET (0 .. n)
      BY <2>2
    <3>2. QED
      BY <3>1
  <2>3. QED
    BY <2>1, <2>2
<1> HIDE DEF N
<1>3. N = Nat
  <2>1. N \in SUBSET Nat
    BY DEF N
  <2>2. QED
    BY <1>1, <1>2, <2>1, SetInduction
<1>4. \E x \in S : \A y \in S : y <= x
  BY <1>3 DEF N
<1>5. PICK x \in S : \A y \in S : x >= y
  BY <1>4
<1>6. Max(S) \in S /\ \A y \in S : Max(S) >= y
  BY <1>5 DEF Max
<1>7. QED
  BY <1>6

LEMMA MinIs ==
  ASSUME NEW S \in SUBSET Nat, S # {}
  PROVE  Min(S) \in S /\ \A y \in S : Min(S) <= y
<1>1. PICK x \in S : \A y \in S : ~ (<<y, x>> \in Less)
  BY LessWellFounded, WFMin
<1>2. ASSUME NEW y \in S PROVE x <= y
  <2> SUFFICES ASSUME y < x PROVE FALSE
    OBVIOUS
  <2>1. <<y, x>> \in Less
    BY DEF Less
  <2>2. QED
    BY <1>1, <2>1
<1>3. QED
  BY <1>2 DEF Min

-----------------------------------------------------------------------------
(* Folds.                                                                  *)

\* From base on, step stays in A.
Keeps(step, base, A, T) == base \in A /\ step \in [A \X T -> A]

\* F[S] is what the members of s at the indices in S come to.
RunTo(F, step, base, s, m) ==
  F = [S \in SUBSET (1 .. m) |->
         IF S = {} THEN base ELSE step[<<F[S \ {Max(S)}], s[Max(S)]>>]]
Run(F, step, base, s) == RunTo(F, step, base, s, Len(s))

Fold(step, base, s) == FoldLeft(LAMBDA a, x : step[<<a, x>>], base, s)

LEMMA RunExists ==
  ASSUME NEW A, NEW T, NEW base, NEW step, Keeps(step, base, A, T), NEW s \in Seq(T)
  PROVE  \E F \in [SUBSET (1 .. Len(s)) -> A] : Run(F, step, base, s)
<1> DEFINE N == {m \in Nat : m <= Len(s) =>
                   \E F \in [SUBSET (1 .. m) -> A] : RunTo(F, step, base, s, m)}
<1>1. 0 \in N
  <2> DEFINE F == [S \in SUBSET (1 .. 0) |-> base]
  <2>1. \A S \in SUBSET (1 .. 0) : S = {}
    OBVIOUS
  <2>2. F = [S \in SUBSET (1 .. 0) |->
              IF S = {} THEN base ELSE step[<<F[S \ {Max(S)}], s[Max(S)]>>]]
    BY <2>1
  <2>3. RunTo(F, step, base, s, 0)
    BY <2>2, Zenon DEF RunTo
  <2>4. F \in [SUBSET (1 .. 0) -> A]
    BY DEF Keeps
  <2> HIDE DEF F
  <2>5. QED
    BY <2>3, <2>4
<1>2. ASSUME NEW m \in N PROVE m + 1 \in N
  <2> SUFFICES ASSUME m + 1 <= Len(s)
               PROVE  \E G \in [SUBSET (1 .. m + 1) -> A] : RunTo(G, step, base, s, m + 1)
    <3>1. m + 1 \in Nat
      OBVIOUS
    <3>2. QED
      BY <3>1, Zenon
  <2>1. m \in Nat /\ Len(s) \in Nat /\ s[m + 1] \in T
    OBVIOUS
  <2>2. PICK F \in [SUBSET (1 .. m) -> A] : RunTo(F, step, base, s, m)
    <3>1. m <= Len(s)
      BY <2>1
    <3>2. QED
      BY <3>1
  <2> DEFINE G == [S \in SUBSET (1 .. m + 1) |->
                     IF m + 1 \in S THEN step[<<F[S \ {m + 1}], s[m + 1]>>] ELSE F[S]]
  <2>3. G \in [SUBSET (1 .. m + 1) -> A]
    <3> SUFFICES ASSUME NEW S \in SUBSET (1 .. m + 1)
                 PROVE  (IF m + 1 \in S THEN step[<<F[S \ {m + 1}], s[m + 1]>>] ELSE F[S]) \in A
      OBVIOUS
    <3>1. S \ {m + 1} \in SUBSET (1 .. m) /\ (m + 1 \notin S => S \in SUBSET (1 .. m))
      BY <2>1
    <3>2. F[S \ {m + 1}] \in A /\ (m + 1 \notin S => F[S] \in A)
      BY <3>1
    <3>3. step[<<F[S \ {m + 1}], s[m + 1]>>] \in A
      BY <2>1, <3>2 DEF Keeps
    <3>4. QED
      BY <3>2, <3>3
  <2>4. ASSUME NEW S \in SUBSET (1 .. m + 1)
        PROVE  G[S] = IF S = {} THEN base ELSE step[<<G[S \ {Max(S)}], s[Max(S)]>>]
    <3>1. CASE S = {}
      BY <2>2, <3>1 DEF RunTo
    <3>2. CASE S # {}
      <4>1. Max(S) \in S /\ \A y \in S : y <= Max(S)
        <5>1. S \in SUBSET (0 .. m + 1) /\ m + 1 \in Nat
          BY <2>1
        <5>2. QED
          BY <3>2, <5>1, MaxIs
      <4>2. PICK x \in S : x = Max(S)
        BY <4>1
      <4>3. CASE m + 1 \in S
        <5>1. x = m + 1
          BY <2>1, <4>1, <4>2, <4>3
        <5>2. S \ {m + 1} \in SUBSET (1 .. m + 1) /\ m + 1 \notin S \ {m + 1}
          OBVIOUS
        <5>3. G[S \ {m + 1}] = F[S \ {m + 1}]
          BY <5>2
        <5>4. G[S] = step[<<F[S \ {m + 1}], s[m + 1]>>]
          BY <4>3
        <5> HIDE DEF G
        <5>5. QED
          BY <3>2, <4>2, <5>1, <5>3, <5>4
      <4>4. CASE m + 1 \notin S
        <5>1. S \in SUBSET (1 .. m)
          BY <2>1, <4>4
        <5>2. S \ {x} \in SUBSET (1 .. m + 1) /\ m + 1 \notin S \ {x}
          BY <4>4
        <5>3. G[S] = F[S] /\ G[S \ {x}] = F[S \ {x}]
          BY <4>4, <5>2
        <5>4. F[S] = step[<<F[S \ {Max(S)}], s[Max(S)]>>]
          BY <2>2, <3>2, <5>1 DEF RunTo
        <5> HIDE DEF G
        <5>5. QED
          BY <3>2, <4>2, <5>3, <5>4
      <4>5. QED
        BY <4>3, <4>4
    <3>3. QED
      BY <3>1, <3>2
  <2>5. G = [S \in SUBSET (1 .. m + 1) |-> G[S]]
    OBVIOUS
  <2> HIDE DEF G
  <2>6. [S \in SUBSET (1 .. m + 1) |-> G[S]]
          = [S \in SUBSET (1 .. m + 1) |->
               IF S = {} THEN base ELSE step[<<G[S \ {Max(S)}], s[Max(S)]>>]]
    BY <2>4
  <2>7. RunTo(G, step, base, s, m + 1)
    BY <2>5, <2>6 DEF RunTo
  <2>8. QED
    BY <2>3, <2>7
<1> HIDE DEF N
<1>3. N = Nat
  <2>1. N \in SUBSET Nat
    BY DEF N
  <2>2. QED
    BY <1>1, <1>2, <2>1, SetInduction
<1>4. Len(s) \in Nat
  OBVIOUS
<1>5. Len(s) <= Len(s) /\ Len(s) \in N
  BY <1>3, <1>4
<1>6. QED
  BY <1>5 DEF N, Run

LEMMA FoldIs ==
  ASSUME NEW A, NEW T, NEW base, NEW step, Keeps(step, base, A, T), NEW s \in Seq(T)
  PROVE  \E F : Run(F, step, base, s) /\ Fold(step, base, s) = F[1 .. Len(s)]
<1> DEFINE G == CHOOSE F : Run(F, step, base, s)
<1>1. Run(G, step, base, s)
  BY RunExists
<1>2. DOMAIN s = 1 .. Len(s)
  OBVIOUS
<1>3. Fold(step, base, s) = G[1 .. Len(s)]
  BY <1>2 DEF Fold, FoldLeft, MapThenFoldSet, Run, RunTo
<1>4. QED
  BY <1>1, <1>3

\* The greatest of the first k + 1 indices is the next one.
LEMMA LastIndex ==
  ASSUME NEW m \in Nat, NEW k \in Nat, k + 1 <= m
  PROVE  /\ 1 .. k + 1 \in SUBSET (1 .. m) /\ 1 .. k + 1 # {}
         /\ Max(1 .. k + 1) = k + 1 /\ (1 .. k + 1) \ {k + 1} = 1 .. k
<1>1. 1 .. k + 1 \in SUBSET (1 .. m) /\ 1 .. k + 1 # {} /\ 1 .. k + 1 \in SUBSET (0 .. m)
  OBVIOUS
<1>2. Max(1 .. k + 1) \in 1 .. k + 1 /\ \A y \in 1 .. k + 1 : y <= Max(1 .. k + 1)
  BY <1>1, MaxIs
<1>3. Max(1 .. k + 1) = k + 1
  <2>1. k + 1 \in 1 .. k + 1
    OBVIOUS
  <2>2. k + 1 <= Max(1 .. k + 1)
    BY <1>2, <2>1
  <2>3. QED
    BY <1>2, <2>2
<1>4. (1 .. k + 1) \ {k + 1} = 1 .. k
  OBVIOUS
<1>5. QED
  BY <1>1, <1>3, <1>4

\* The next result is one step more.
LEMMA RunNext ==
  ASSUME NEW F, NEW step, NEW base, NEW s, Len(s) \in Nat, Run(F, step, base, s)
  PROVE  /\ F[1 .. 0] = base
         /\ \A k \in Nat : k + 1 <= Len(s) => F[1 .. k + 1] = step[<<F[1 .. k], s[k + 1]>>]
<1>1. F[1 .. 0] = base
  <2>1. {} \in SUBSET (1 .. Len(s)) /\ 1 .. 0 = {}
    OBVIOUS
  <2>2. QED
    BY <2>1 DEF Run, RunTo
<1>2. ASSUME NEW k \in Nat, k + 1 <= Len(s)
      PROVE  F[1 .. k + 1] = step[<<F[1 .. k], s[k + 1]>>]
  <2>1. /\ 1 .. k + 1 \in SUBSET (1 .. Len(s)) /\ 1 .. k + 1 # {}
        /\ Max(1 .. k + 1) = k + 1 /\ (1 .. k + 1) \ {k + 1} = 1 .. k
    BY <1>2, LastIndex
  <2>2. F[1 .. k + 1] = step[<<F[(1 .. k + 1) \ {Max(1 .. k + 1)}], s[Max(1 .. k + 1)]>>]
    BY <2>1 DEF Run, RunTo
  <2>3. QED
    BY <2>1, <2>2
<1>3. QED
  BY <1>1, <1>2

LEMMA FoldEmpty ==
  ASSUME NEW A, NEW T, NEW base, NEW step, Keeps(step, base, A, T)
  PROVE  Fold(step, base, <<>>) = base
<1>1. PICK s \in Seq(T) : s = <<>> /\ Len(s) = 0
  <2>1. <<>> \in Seq(T) /\ Len(<<>>) = 0
    OBVIOUS
  <2>2. QED
    BY <2>1, Zenon
<1>2. PICK F : Run(F, step, base, s) /\ Fold(step, base, s) = F[1 .. Len(s)]
  BY FoldIs
<1>3. F[1 .. 0] = base
  BY <1>1, <1>2, RunNext
<1>4. QED
  BY <1>1, <1>2, <1>3

LEMMA FoldAppend ==
  ASSUME NEW A, NEW T, NEW base, NEW step, Keeps(step, base, A, T), NEW s \in Seq(T), NEW x \in T
  PROVE  Fold(step, base, Append(s, x)) = step[<<Fold(step, base, s), x>>]
<1> DEFINE n == Len(s)
<1>1. PICK t \in Seq(T) :
        /\ t = Append(s, x) /\ n \in Nat /\ Len(t) = n + 1
        /\ t[n + 1] = x /\ \A i \in 1 .. n : t[i] = s[i]
  <2>1. n \in Nat
    OBVIOUS
  <2>2. Append(s, x) \in Seq(T)
    OBVIOUS
  <2>3. /\ Len(Append(s, x)) = n + 1 /\ Append(s, x)[n + 1] = x
        /\ \A i \in 1 .. n : Append(s, x)[i] = s[i]
    OBVIOUS
  <2>4. QED
    BY <2>1, <2>2, <2>3, Zenon
<1>2. PICK F : Run(F, step, base, s) /\ Fold(step, base, s) = F[1 .. n]
  BY FoldIs
<1>3. PICK G : Run(G, step, base, t) /\ Fold(step, base, t) = G[1 .. Len(t)]
  BY FoldIs
<1>4. /\ F[1 .. 0] = base
      /\ \A k \in Nat : k + 1 <= n => F[1 .. k + 1] = step[<<F[1 .. k], s[k + 1]>>]
  BY <1>1, <1>2, RunNext
<1>5. /\ G[1 .. 0] = base
      /\ \A k \in Nat : k + 1 <= n + 1 => G[1 .. k + 1] = step[<<G[1 .. k], t[k + 1]>>]
  <2>1. Len(t) \in Nat
    OBVIOUS
  <2>2. Run(G, step, base, t)
    BY <1>3
  <2>3. /\ G[1 .. 0] = base
        /\ \A k \in Nat : k + 1 <= Len(t) => G[1 .. k + 1] = step[<<G[1 .. k], t[k + 1]>>]
    BY <2>1, <2>2, RunNext
  <2>4. QED
    BY <1>1, <2>3, Zenon
<1> HIDE DEF n
<1> DEFINE N == {k \in Nat : k <= n => F[1 .. k] = G[1 .. k]}
<1>6. 0 \in N
  BY <1>4, <1>5
<1>7. ASSUME NEW k \in N PROVE k + 1 \in N
  <2> SUFFICES ASSUME k + 1 <= n PROVE F[1 .. k + 1] = G[1 .. k + 1]
    OBVIOUS
  <2>1. k \in Nat /\ k <= n /\ k + 1 <= n + 1 /\ k + 1 \in 1 .. n
    BY <1>1
  <2>2. F[1 .. k + 1] = step[<<F[1 .. k], s[k + 1]>>] /\ G[1 .. k + 1] = step[<<G[1 .. k], t[k + 1]>>]
    BY <1>4, <1>5, <2>1
  <2>3. F[1 .. k] = G[1 .. k] /\ s[k + 1] = t[k + 1]
    BY <1>1, <2>1
  <2>4. QED
    BY <2>2, <2>3
<1> HIDE DEF N
<1>8. N = Nat
  <2>1. N \in SUBSET Nat
    BY DEF N
  <2>2. QED
    BY <1>6, <1>7, <2>1, SetInduction
<1>9. F[1 .. n] = G[1 .. n]
  BY <1>1, <1>8 DEF N
<1>10. G[1 .. n + 1] = step[<<G[1 .. n], t[n + 1]>>]
  <2>1. n + 1 <= n + 1
    BY <1>1
  <2>2. QED
    BY <1>1, <1>5, <2>1
<1>11. QED
  BY <1>1, <1>2, <1>3, <1>9, <1>10

LEMMA FoldType ==
  ASSUME NEW A, NEW T, NEW base, NEW step, Keeps(step, base, A, T), NEW s \in Seq(T)
  PROVE  Fold(step, base, s) \in A
<1> DEFINE P == {q \in Seq(T) : Fold(step, base, q) \in A}
<1>1. <<>> \in P
  <2>1. Fold(step, base, <<>>) = base
    BY FoldEmpty
  <2>2. QED
    BY <2>1 DEF Keeps
<1>2. ASSUME NEW q \in P, NEW x \in T PROVE Append(q, x) \in P
  <2>1. q \in Seq(T) /\ Fold(step, base, q) \in A /\ Append(q, x) \in Seq(T)
    OBVIOUS
  <2>2. Fold(step, base, Append(q, x)) = step[<<Fold(step, base, q), x>>]
    BY <2>1, FoldAppend
  <2>3. step[<<Fold(step, base, q), x>>] \in A
    BY <2>1 DEF Keeps
  <2>4. QED
    BY <2>1, <2>2, <2>3
<1>3. P \in SUBSET Seq(T)
  OBVIOUS
<1> HIDE DEF P
<1>4. P = Seq(T)
  BY <1>1, <1>2, <1>3, SequenceInduction
<1>5. QED
  BY <1>4 DEF P

\* A recursive function that takes the same steps as long as it is in A.
Unrolls(G, step, base, A, s) ==
  /\ G[{}] = base
  /\ \A S \in SUBSET (1 .. Len(s)) :
       S # {} /\ G[S \ {Max(S)}] \in A => G[S] = step[<<G[S \ {Max(S)}], s[Max(S)]>>]

LEMMA UnrollsIs ==
  ASSUME NEW A, NEW T, NEW base, NEW step, Keeps(step, base, A, T), NEW s \in Seq(T),
         NEW G, Unrolls(G, step, base, A, s)
  PROVE  G[1 .. Len(s)] = Fold(step, base, s)
<1> DEFINE n == Len(s)
<1>1. n \in Nat /\ \A i \in 1 .. n : s[i] \in T
  OBVIOUS
<1>2. PICK F : Run(F, step, base, s) /\ Fold(step, base, s) = F[1 .. n]
  BY FoldIs
<1>3. /\ F[1 .. 0] = base
      /\ \A k \in Nat : k + 1 <= n => F[1 .. k + 1] = step[<<F[1 .. k], s[k + 1]>>]
  BY <1>1, <1>2, RunNext
<1> DEFINE N == {k \in Nat : k <= n => F[1 .. k] = G[1 .. k] /\ F[1 .. k] \in A}
<1>4. 0 \in N
  <2>1. 1 .. 0 = {}
    OBVIOUS
  <2>2. QED
    BY <1>3, <2>1 DEF Unrolls, Keeps
<1>5. ASSUME NEW k \in N PROVE k + 1 \in N
  <2> SUFFICES ASSUME k + 1 <= n PROVE F[1 .. k + 1] = G[1 .. k + 1] /\ F[1 .. k + 1] \in A
    OBVIOUS
  <2>1. k \in Nat /\ k <= n /\ s[k + 1] \in T /\ F[1 .. k] = G[1 .. k] /\ F[1 .. k] \in A
    BY <1>1
  <2>2. F[1 .. k + 1] = step[<<F[1 .. k], s[k + 1]>>]
    BY <1>3, <2>1
  <2>3. /\ 1 .. k + 1 \in SUBSET (1 .. n) /\ 1 .. k + 1 # {}
        /\ Max(1 .. k + 1) = k + 1 /\ (1 .. k + 1) \ {k + 1} = 1 .. k
    BY <1>1, <2>1, LastIndex
  <2>4. G[1 .. k + 1] = step[<<G[1 .. k], s[k + 1]>>]
    BY <2>1, <2>3 DEF Unrolls
  <2>5. step[<<F[1 .. k], s[k + 1]>>] \in A
    BY <2>1 DEF Keeps
  <2>6. QED
    BY <2>1, <2>2, <2>4, <2>5
<1> HIDE DEF N
<1>6. N = Nat
  <2>1. N \in SUBSET Nat
    BY DEF N
  <2>2. QED
    BY <1>4, <1>5, <2>1, SetInduction
<1>7. n <= n /\ n \in N
  BY <1>1, <1>6
<1>8. QED
  BY <1>2, <1>7 DEF N

\* An index that is the greatest of some is one.
LEMMA GreatestIndex ==
  ASSUME NEW n \in Nat, NEW S \in SUBSET (1 .. n), S # {}
  PROVE  Max(S) \in 1 .. n
<1>1. S \in SUBSET (0 .. n)
  OBVIOUS
<1>2. QED
  BY <1>1, MaxIs

-----------------------------------------------------------------------------
(* Sums.                                                                   *)

Total(s) == FoldLeft(LAMBDA a, b : a + b, 0, s)

Adding == [p \in Int \X Int |-> p[1] + p[2]]

LEMMA AddingKeeps == Keeps(Adding, 0, Int, Int)
BY DEF Keeps, Adding

LEMMA TotalIsFold ==
  ASSUME NEW s \in Seq(Int)
  PROVE  Total(s) = Fold(Adding, 0, s)
<1> DEFINE n == Len(s)
           Sums(F) == F = [S \in SUBSET (1 .. n) |->
                             IF S = {} THEN 0 ELSE F[S \ {Max(S)}] + s[Max(S)]]
           G == CHOOSE F : Sums(F)
<1>1. n \in Nat /\ DOMAIN s = 1 .. n /\ \A i \in 1 .. n : s[i] \in Int
  OBVIOUS
<1>2. Total(s) = G[1 .. n]
  BY <1>1 DEF Total, FoldLeft, MapThenFoldSet
<1>3. ASSUME NEW F, NEW S \in SUBSET (1 .. n), S # {}, F[S \ {Max(S)}] \in Int
      PROVE  Adding[<<F[S \ {Max(S)}], s[Max(S)]>>] = F[S \ {Max(S)}] + s[Max(S)]
  <2>1. s[Max(S)] \in Int
    BY <1>1, <1>3, GreatestIndex
  <2>2. QED
    BY <1>3, <2>1 DEF Adding
<1>4. Sums(G)
  <2>1. PICK H \in [SUBSET (1 .. n) -> Int] : Run(H, Adding, 0, s)
    BY AddingKeeps, RunExists
  <2>2. \A S \in SUBSET (1 .. n) : H[S \ {Max(S)}] \in Int
    OBVIOUS
  <2>3. Sums(H)
    BY <1>3, <2>1, <2>2 DEF Run, RunTo
  <2>4. QED
    BY <2>3
<1>5. Unrolls(G, Adding, 0, Int, s)
  <2>1. G[{}] = 0
    BY <1>4
  <2>2. \A S \in SUBSET (1 .. n) : S # {} => G[S] = G[S \ {Max(S)}] + s[Max(S)]
    BY <1>4
  <2> HIDE DEF G
  <2>3. QED
    BY <1>3, <2>1, <2>2 DEF Unrolls
<1> HIDE DEF G
<1>6. QED
  BY <1>2, <1>5, AddingKeeps, UnrollsIs

LEMMA TotalEmpty == Total(<<>>) = 0
<1>1. <<>> \in Seq(Int)
  OBVIOUS
<1>2. Total(<<>>) = Fold(Adding, 0, <<>>)
  BY <1>1, TotalIsFold
<1>3. Fold(Adding, 0, <<>>) = 0
  BY AddingKeeps, FoldEmpty
<1>4. QED
  BY <1>2, <1>3

LEMMA TotalAppend ==
  ASSUME NEW s \in Seq(Int), NEW x \in Int
  PROVE  Total(Append(s, x)) = Total(s) + x
<1>1. Append(s, x) \in Seq(Int)
  OBVIOUS
<1>2. Total(Append(s, x)) = Fold(Adding, 0, Append(s, x)) /\ Total(s) = Fold(Adding, 0, s)
  BY <1>1, TotalIsFold
<1>3. Fold(Adding, 0, Append(s, x)) = Adding[<<Fold(Adding, 0, s), x>>]
  BY AddingKeeps, FoldAppend
<1>4. Fold(Adding, 0, s) \in Int
  BY AddingKeeps, FoldType
<1>5. QED
  BY <1>2, <1>3, <1>4 DEF Adding

-----------------------------------------------------------------------------
(* Sums over sets.                                                         *)

\* A set of subsets that holds the empty one and every larger one holds them all.
LEMMA SubsetInduction ==
  ASSUME NEW D, IsFiniteSet(D), NEW T \in SUBSET (SUBSET D), {} \in T,
         \A S \in T : \A x \in D \ S : S \cup {x} \in T
  PROVE  T = SUBSET D
<1> DEFINE N == {n \in Nat : \A S \in SUBSET D : Cardinality(S) = n => S \in T}
<1>1. \A S \in SUBSET D : IsFiniteSet(S) /\ Cardinality(S) \in Nat
  BY FS_Subset, FS_CardinalityType
<1>2. 0 \in N
  BY <1>1, FS_EmptySet
<1>3. ASSUME NEW n \in N PROVE n + 1 \in N
  <2> SUFFICES ASSUME NEW S \in SUBSET D, Cardinality(S) = n + 1 PROVE S \in T
    OBVIOUS
  <2>1. n \in Nat /\ n + 1 # 0
    OBVIOUS
  <2>2. S # {}
    BY <2>1, FS_EmptySet
  <2>3. PICK x : x \in S
    BY <2>2
  <2>4. Cardinality(S \ {x}) = n
    BY <1>1, <2>1, <2>3, FS_RemoveElement, SMTT(20)
  <2>5. S \ {x} \in SUBSET D /\ x \in D \ (S \ {x}) /\ S = (S \ {x}) \cup {x}
    BY <2>3
  <2>6. S \ {x} \in T
    BY <2>4, <2>5
  <2>7. QED
    BY <2>5, <2>6, Zenon
<1> HIDE DEF N
<1>4. N = Nat
  <2>1. N \in SUBSET Nat
    BY DEF N
  <2>2. QED
    BY <1>2, <1>3, <2>1, SetInduction
<1>5. \A S \in SUBSET D : S \in T
  BY <1>1, <1>4 DEF N
<1>6. QED
  BY <1>5

\* F[S] is the sum of f over S.
SumsOver(F, f, D) ==
  /\ F \in [SUBSET D -> Int] /\ F[{}] = 0
  /\ \A S \in SUBSET D : \A x \in S : F[S] = f[x] + F[S \ {x}]

LEMMA SumsExist ==
  ASSUME NEW D, IsFiniteSet(D), NEW f \in [D -> Int]
  PROVE  \E F : SumsOver(F, f, D)
<1> DEFINE T == {E \in SUBSET D : \E F : SumsOver(F, f, E)}
<1>1. {} \in T
  <2> DEFINE F == [S \in SUBSET {} |-> 0]
  <2>1. SumsOver(F, f, {})
    BY DEF SumsOver
  <2>2. QED
    BY <2>1
<1>2. ASSUME NEW E \in T, NEW y \in D \ E PROVE E \cup {y} \in T
  <2>1. PICK F : SumsOver(F, f, E)
    OBVIOUS
  <2> DEFINE G == [S \in SUBSET (E \cup {y}) |-> IF y \in S THEN f[y] + F[S \ {y}] ELSE F[S]]
  <2>2. \A S \in SUBSET (E \cup {y}) :
          /\ S \ {y} \in SUBSET E /\ F[S \ {y}] \in Int
          /\ y \notin S => S \in SUBSET E /\ S \ {y} = S
    <3>1. \A S \in SUBSET (E \cup {y}) : S \ {y} \in SUBSET E
      OBVIOUS
    <3>2. F \in [SUBSET E -> Int]
      BY <2>1 DEF SumsOver
    <3>3. \A S \in SUBSET (E \cup {y}) : y \notin S => S \in SUBSET E /\ S \ {y} = S
      OBVIOUS
    <3>4. QED
      BY <3>1, <3>2, <3>3
  <2>3. \A x \in D : f[x] \in Int
    OBVIOUS
  <2>4. G \in [SUBSET (E \cup {y}) -> Int] /\ G[{}] = 0
    <3>1. ASSUME NEW S \in SUBSET (E \cup {y})
          PROVE  (IF y \in S THEN f[y] + F[S \ {y}] ELSE F[S]) \in Int
      <4>1. F[S \ {y}] \in Int /\ f[y] \in Int
        BY <2>2, <2>3
      <4>2. y \notin S => F[S] \in Int
        BY <2>2
      <4>3. QED
        BY <4>1, <4>2
    <3>2. G \in [SUBSET (E \cup {y}) -> Int]
      BY <3>1
    <3>3. G[{}] = 0
      BY <2>1 DEF SumsOver
    <3>4. QED
      BY <3>2, <3>3
  <2>5. ASSUME NEW S \in SUBSET (E \cup {y}), NEW x \in S PROVE G[S] = f[x] + G[S \ {x}]
    <3>1. S \ {x} \in SUBSET (E \cup {y})
      OBVIOUS
    <3>2. CASE x = y
      <4>1. G[S] = f[y] + F[S \ {y}] /\ G[S \ {x}] = F[S \ {y}]
        BY <3>1, <3>2
      <4>2. QED
        BY <3>2, <4>1
    <3>3. CASE x # y /\ y \notin S
      <4>1. G[S] = F[S] /\ G[S \ {x}] = F[S \ {x}]
        BY <3>1, <3>3
      <4>2. F[S] = f[x] + F[S \ {x}]
        BY <2>1, <2>2, <3>3 DEF SumsOver
      <4>3. QED
        BY <4>1, <4>2
    <3>4. CASE x # y /\ y \in S
      <4>1. PICK R : R = S \ {y} /\ R \in SUBSET E /\ x \in R
        <5>1. x \in S \ {y} /\ S \ {y} \in SUBSET E
          BY <2>2, <3>4
        <5>2. QED
          BY <5>1
      <4>2. G[S] = f[y] + F[R] /\ G[S \ {x}] = f[y] + F[R \ {x}]
        <5>1. (S \ {x}) \ {y} = R \ {x} /\ y \in S \ {x}
          BY <3>4, <4>1
        <5>2. QED
          BY <3>1, <3>4, <4>1, <5>1
      <4>3. F[R] = f[x] + F[R \ {x}]
        BY <2>1, <4>1 DEF SumsOver
      <4>4. F[R \ {x}] \in Int /\ f[x] \in Int /\ f[y] \in Int
        <5>1. R \ {x} \in SUBSET E /\ x \in D
          BY <4>1
        <5>2. QED
          BY <2>1, <2>3, <5>1 DEF SumsOver
      <4>5. QED
        BY <4>2, <4>3, <4>4
    <3>5. QED
      BY <3>2, <3>3, <3>4
  <2> HIDE DEF G
  <2>6. SumsOver(G, f, E \cup {y})
    BY <2>4, <2>5 DEF SumsOver
  <2>7. QED
    BY <2>6
<1>3. T \in SUBSET (SUBSET D)
  OBVIOUS
<1> HIDE DEF T
<1>4. T = SUBSET D
  BY <1>1, <1>2, <1>3, SubsetInduction
<1>5. D \in T
  BY <1>4
<1>6. QED
  BY <1>5 DEF T

LEMMA SumParts ==
  ASSUME NEW D, NEW f, NEW F, SumsOver(F, f, D)
  PROVE  /\ \A S \in SUBSET D : F[S] \in Int
         /\ \A S \in SUBSET D : \A x \in S : F[S] = f[x] + F[S \ {x}] /\ S \ {x} \in SUBSET D
         /\ \A S \in SUBSET D : \A x \in D \ S :
              F[S \cup {x}] = f[x] + F[S] /\ S \cup {x} \in SUBSET D
<1>1. \A S \in SUBSET D : F[S] \in Int
  BY DEF SumsOver
<1>2. \A S \in SUBSET D : \A x \in S : F[S] = f[x] + F[S \ {x}] /\ S \ {x} \in SUBSET D
  BY DEF SumsOver
<1>3. ASSUME NEW S \in SUBSET D, NEW x \in D \ S
      PROVE  F[S \cup {x}] = f[x] + F[S] /\ S \cup {x} \in SUBSET D
  <2>1. S \cup {x} \in SUBSET D /\ x \in S \cup {x}
    OBVIOUS
  <2>2. (S \cup {x}) \ {x} = S
    OBVIOUS
  <2>3. F[S \cup {x}] = f[x] + F[(S \cup {x}) \ {x}]
    BY <1>2, <2>1
  <2>4. QED
    BY <2>1, <2>2, <2>3
<1>4. QED
  BY <1>1, <1>2, <1>3

\* Numbers that are not negative have sums that are not.
LEMMA SumNatural ==
  ASSUME NEW D, IsFiniteSet(D), NEW f \in [D -> Nat], NEW F, SumsOver(F, f, D)
  PROVE  \A S \in SUBSET D : F[S] \in Nat
<1> DEFINE T == {S \in SUBSET D : F[S] \in Nat}
<1>1. {} \in T
  BY DEF SumsOver
<1>2. ASSUME NEW S \in T, NEW x \in D \ S PROVE S \cup {x} \in T
  <2>1. S \in SUBSET D /\ F[S] \in Nat /\ f[x] \in Nat
    OBVIOUS
  <2>2. F[S \cup {x}] = f[x] + F[S] /\ S \cup {x} \in SUBSET D
    BY <2>1, SumParts
  <2>3. QED
    BY <2>1, <2>2
<1>3. T \in SUBSET (SUBSET D)
  OBVIOUS
<1> HIDE DEF T
<1>4. T = SUBSET D
  BY <1>1, <1>2, <1>3, SubsetInduction
<1>5. QED
  BY <1>4 DEF T

=============================================================================
