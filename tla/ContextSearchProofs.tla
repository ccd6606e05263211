------------------------ MODULE ContextSearchProofs ------------------------
(***************************************************************************)
(* Proofs about ContextSearch, and so about the headers of BlockHeader, for *)
(* any number of models, any weights, sizes and number of blocks; and about *)
(* DispatchLoop, the loop that the search runs in.                          *)
(***************************************************************************)
EXTENDS ContextSearch, DispatchLoop, Induction, FiniteSetTheorems, TLAPS

\* A model with its weight.
Entries == [model : Numbers, weight : Nat \ {0}]

\* What can be written down as a header.
Sets == {models \in SUBSET Entries : Distinct(models) /\ models # {}}

LEMMA ModelIs == \A n, w : Model(n, w).model = n /\ Model(n, w).weight = w
BY DEF Model

LEMMA EntryIs ==
  /\ \A n \in Numbers, w \in Nat \ {0} : Model(n, w) \in Entries
  /\ \A m \in Entries : m.model \in Numbers /\ m.weight \in Nat \ {0}
                        /\ m = Model(m.model, m.weight)
BY DEF Model, Entries

-----------------------------------------------------------------------------
(* The search.                                                             *)

\* The edits of IterateModels.
LEMMA CandidateSet ==
  ASSUME NEW models \in SUBSET Entries, Distinct(models), NEW candidate \in Candidates(models)
  PROVE  candidate \in Sets
<1>1. Weights \subseteq Nat \ {0}
  BY SearchAssumption
<1>2. CASE candidate \in Added(models)
  <2>1. PICK n \in Free(models), w \in Weights : candidate = models \cup {Model(n, w)}
    BY <1>2 DEF Added
  <2>2. Model(n, w) \in Entries /\ \A m \in models : m.model # n
    BY <1>1, EntryIs DEF Free, Used
  <2>3. QED
    BY <2>1, <2>2, ModelIs DEF Sets, Distinct
<1>3. CASE candidate \in Reweighted(models)
  <2>1. PICK m \in models, w \in Weights :
          candidate = (models \ {m}) \cup {Model(m.model, w)}
    BY <1>3 DEF Reweighted
  <2>2. Model(m.model, w) \in Entries /\ \A k \in models \ {m} : k.model # m.model
    BY <1>1, EntryIs DEF Distinct
  <2>3. QED
    BY <2>1, <2>2, ModelIs DEF Sets, Distinct
<1>4. CASE candidate \in Removed(models)
  <2>1. PICK m \in models : candidate = models \ {m} /\ Cardinality(models) # 1
    BY <1>4 DEF Removed
  <2>2. models # {m}
    BY <2>1, FS_Singleton
  <2>3. QED
    BY <2>1, <2>2 DEF Sets, Distinct
<1>5. CASE candidate \in Swapped(models)
  <2>1. PICK m \in models, n \in Free(models) :
          candidate = (models \ {m}) \cup {Model(n, m.weight)}
    BY <1>5 DEF Swapped
  <2>2. Model(n, m.weight) \in Entries /\ \A k \in models : k.model # n
    BY EntryIs DEF Free, Used
  <2>3. QED
    BY <2>1, <2>2, ModelIs DEF Sets, Distinct
<1>6. QED
  BY <1>2, <1>3, <1>4, <1>5 DEF Candidates

LEMMA SeededSet ==
  ASSUME best \in Sets, NEW weights \in SeedWeights, Seed(weights)
  PROVE  test' \in Sets
<1>1. PICK numbers \in [DOMAIN weights -> Free(best)] :
        /\ \A i, j \in DOMAIN weights : i # j => numbers[i] # numbers[j]
        /\ test' = best \cup {Model(numbers[i], weights[i]) : i \in DOMAIN weights}
  BY DEF Seed
<1>2. weights \in Seq(Nat \ {0})
  BY SearchAssumption
<1>3. \A i \in DOMAIN weights :
        /\ numbers[i] \in Numbers /\ weights[i] \in Nat \ {0}
        /\ \A m \in best : m.model # numbers[i]
  BY <1>2 DEF Free, Used
<1>4. \A i \in DOMAIN weights : Model(numbers[i], weights[i]) \in Entries
  BY <1>3, EntryIs
<1>5. Distinct(test')
  <2> SUFFICES ASSUME NEW a \in test', NEW b \in test', a.model = b.model PROVE a = b
    BY DEF Distinct
  <2>1. CASE a \in best /\ b \in best
    BY <2>1 DEF Sets, Distinct
  <2>2. CASE a \notin best /\ b \notin best
    BY <1>1, <2>2, ModelIs
  <2>3. CASE a \in best /\ b \notin best
    BY <1>1, <1>3, <2>3, ModelIs
  <2>4. CASE a \notin best /\ b \in best
    BY <1>1, <1>3, <2>4, ModelIs
  <2>5. QED
    BY <2>1, <2>2, <2>3, <2>4
<1>6. QED
  BY <1>1, <1>4, <1>5 DEF Sets

HeaderOf(h) == \E size \in Sizes, models \in Sets : h = Header(size, models)

\* No set the search looks at is empty but at the start, and every header was
\* made from one of them.
SearchInv ==
  /\ test \in Sets \cup {{}} /\ best \in Sets \cup {{}}
  /\ tried => test # {}
  /\ headers = [i \in DOMAIN headers |-> headers[i]] /\ Len(headers) \in Nat
  /\ DOMAIN headers = 1 .. Len(headers)
  /\ \A i \in DOMAIN headers : HeaderOf(headers[i])
  /\ packed => headers # <<>>
  /\ ~Multi => Len(headers) <= 1

LEMMA AnySet == \A models \in Sets \cup {{}} : models \in SUBSET Entries /\ Distinct(models)
BY DEF Sets, Distinct

LEMMA SearchInit == Init => SearchInv
BY DEF Init, SearchInv

LEMMA HeaderAdded ==
  ASSUME SearchInv, Searching, NEW h, HeaderOf(h), headers' = Append(headers, h),
         test' \in Sets \cup {{}}, best' \in Sets \cup {{}}, tried' => test' # {}, packed' = packed
  PROVE  SearchInv'
<1>1. PICK n \in Nat : n = Len(headers) /\ headers = [i \in 1 .. n |-> headers[i]]
  BY DEF SearchInv
<1>2. /\ Len(headers') = n + 1 /\ DOMAIN headers' = 1 .. n + 1
      /\ headers' = [i \in 1 .. n + 1 |-> IF i = n + 1 THEN h ELSE headers[i]]
  BY <1>1
<1>3. \A i \in 1 .. n + 1 : HeaderOf(headers'[i])
  <2> SUFFICES ASSUME NEW i \in 1 .. n + 1 PROVE HeaderOf(headers'[i])
    OBVIOUS
  <2>1. CASE i = n + 1
    BY <1>2, <2>1
  <2>2. CASE i # n + 1
    <3>1. i \in DOMAIN headers /\ headers'[i] = headers[i]
      BY <1>1, <1>2, <2>2
    <3>2. QED
      BY <3>1 DEF SearchInv
  <2>3. QED
    BY <2>1, <2>2
<1>4. ~Multi => n + 1 <= 1
  BY <1>1 DEF Searching
<1>5. ~packed
  BY DEF Searching
<1>6. QED
  BY <1>2, <1>3, <1>4, <1>5 DEF SearchInv, HeaderOf

LEMMA SearchStep == SearchInv /\ [Next]_vars => SearchInv'
<1> SUFFICES ASSUME SearchInv, [Next]_vars PROVE SearchInv'
  OBVIOUS
<1>1. CASE Improve
  <2>1. test' \in Sets
    BY <1>1, AnySet, CandidateSet DEF Improve, SearchInv
  <2>2. QED
    BY <1>1, <2>1 DEF SearchInv, Improve, Sets, HeaderOf
<1>2. CASE Settle
  BY <1>2 DEF SearchInv, Settle, HeaderOf
<1>3. ASSUME NEW weights \in SeedWeights, Seed(weights) PROVE SearchInv'
  <2>1. best \in Sets
    BY <1>3 DEF Seed, SearchInv
  <2>2. test' \in Sets /\ test' # {}
    BY <1>3, <2>1, SeededSet DEF Sets
  <2>3. QED
    BY <1>3, <2>1, <2>2 DEF SearchInv, Seed, HeaderOf
<1>4. ASSUME NEW size \in Sizes, FinishBlock(size) PROVE SearchInv'
  <2>1. best \in Sets /\ HeaderOf(Header(size, best))
    BY <1>4 DEF FinishBlock, SearchInv, HeaderOf
  <2>2. QED
    BY <1>4, <2>1, HeaderAdded DEF FinishBlock, SearchInv
<1>5. ASSUME NEW size \in Sizes, ShortBlock(size) PROVE SearchInv'
  <2>1. Model(0, 1) \in Entries
    BY EntryIs, ModelAssumption DEF Numbers
  <2>2. {Model(0, 1)} \in Sets
    BY <2>1 DEF Sets, Distinct
  <2>3. HeaderOf(Header(size, {Model(0, 1)}))
    BY <2>2 DEF HeaderOf
  <2>4. QED
    BY <1>5, <2>3, HeaderAdded DEF ShortBlock, SearchInv
<1>6. CASE Pack
  BY <1>6 DEF SearchInv, Pack, HeaderOf
<1>7. CASE UNCHANGED vars
  BY <1>7 DEF SearchInv, vars, HeaderOf
<1>8. QED
  BY <1>1, <1>2, <1>3, <1>4, <1>5, <1>6, <1>7 DEF Next, Terminating

LEMMA SearchAlways == Spec => []SearchInv
BY SearchInit, SearchStep, PTL DEF Spec

\* Whatever path the search takes, what it looks at and what it settles on can be
\* written down as a header: no set is empty and none holds a model twice.
THEOREM AlwaysEncodable == Spec => []Encodable
<1>1. SearchInv => Encodable
  BY AnySet DEF SearchInv, Encodable
<1>2. QED
  BY <1>1, SearchAlways, PTL

-----------------------------------------------------------------------------
(* Sorting.                                                                *)

\* A set of models that are all different is finite, since their numbers are.
LEMMA SetsAreFinite ==
  ASSUME NEW models \in Sets
  PROVE  IsFiniteSet(models) /\ Cardinality(models) \in Nat \ {0}
<1> DEFINE f == [m \in models |-> m.model]
<1>1. IsFiniteSet(Numbers)
  BY FS_Interval, ModelAssumption DEF Numbers
<1>2. f \in Injection(models, Numbers)
  <2>1. \A m \in models : f[m] \in Numbers
    BY EntryIs DEF Sets
  <2>2. \A a, b \in models : f[a] = f[b] => a = b
    BY DEF Sets, Distinct
  <2>3. QED
    BY <2>1, <2>2 DEF Injection, IsInjective
<1> HIDE DEF f
<1>3. IsFiniteSet(models)
  BY <1>1, <1>2, FS_Injection
<1>4. models # {}
  BY DEF Sets
<1>5. QED
  BY <1>3, <1>4, FS_CardinalityType, FS_EmptySet

LEMMA BeforeIs ==
  /\ \A a \in Entries : ~Before(a, a)
  /\ \A a, b, c \in Entries : Before(a, b) /\ Before(b, c) => Before(a, c)
  /\ \A a, b \in Entries : a # b => Before(a, b) \/ Before(b, a)
<1>1. \A a \in Entries : a.weight \in Int /\ a.model \in Int
  BY EntryIs DEF Numbers
<1>2. \A a, b \in Entries : a.weight = b.weight /\ a.model = b.model => a = b
  BY EntryIs
<1>3. QED
  BY <1>1, <1>2 DEF Before

\* How many of the models are before m.
Rank(models, m) == Cardinality({k \in models : Before(k, m)})

LEMMA Ranks ==
  ASSUME NEW models \in Sets
  PROVE  /\ \A m \in models : Rank(models, m) \in 0 .. Cardinality(models) - 1
         /\ \A a, b \in models : Before(a, b) <=> Rank(models, a) < Rank(models, b)
<1>1. models \in SUBSET Entries /\ IsFiniteSet(models) /\ Cardinality(models) \in Nat
  BY SetsAreFinite DEF Sets
<1>2. ASSUME NEW m \in models
      PROVE  Rank(models, m) \in 0 .. Cardinality(models) - 1
  <2> DEFINE S == {k \in models : Before(k, m)}
  <2>1. S \in SUBSET models /\ m \notin S
    BY <1>1, BeforeIs
  <2> HIDE DEF S
  <2>2. IsFiniteSet(S) /\ Cardinality(S) \in Nat
    BY <1>1, <2>1, FS_Subset, FS_CardinalityType
  <2>3. Cardinality(S) <= Cardinality(models) /\ Cardinality(S) # Cardinality(models)
    BY <1>1, <2>1, FS_Subset
  <2>4. Cardinality(S) \in 0 .. Cardinality(models) - 1
    BY <1>1, <2>2, <2>3
  <2>5. QED
    BY <2>4 DEF Rank, S
<1>3. ASSUME NEW a \in models, NEW b \in models, Before(a, b)
      PROVE  Rank(models, a) < Rank(models, b)
  <2> DEFINE R == {k \in models : Before(k, a)}
             S == {k \in models : Before(k, b)}
  <2>1. R \in SUBSET S /\ a \in S /\ a \notin R
    BY <1>1, <1>3, BeforeIs
  <2>2. IsFiniteSet(S)
    BY <1>1, FS_Subset
  <2> HIDE DEF R, S
  <2>3. Cardinality(R) <= Cardinality(S) /\ Cardinality(S) # Cardinality(R)
    BY <2>1, <2>2, FS_Subset
  <2>4. Cardinality(R) \in Nat /\ Cardinality(S) \in Nat
    BY <2>1, <2>2, FS_Subset, FS_CardinalityType
  <2>5. Cardinality(R) < Cardinality(S)
    BY <2>3, <2>4
  <2>6. QED
    BY <2>5 DEF Rank, R, S
<1>4. ASSUME NEW a \in models, NEW b \in models, Rank(models, a) < Rank(models, b)
      PROVE  Before(a, b)
  <2>1. Rank(models, a) \in Int /\ Rank(models, b) \in Int
    BY <1>2
  <2>2. ~(Before(b, a)) /\ a # b
    <3>1. ~(Rank(models, b) < Rank(models, a)) /\ Rank(models, a) # Rank(models, b)
      BY <1>4, <2>1
    <3>2. QED
      BY <1>3, <3>1
  <2>3. QED
    BY <1>1, <2>2, BeforeIs
<1>5. QED
  BY <1>2, <1>3, <1>4

\* Every place is taken.
LEMMA PlacesTaken ==
  ASSUME NEW models \in Sets, NEW i \in 1 .. Cardinality(models)
  PROVE  \E m \in models : Rank(models, m) = i - 1
<1> DEFINE n == Cardinality(models)
           f == [m \in models |-> Rank(models, m)]
<1>1. models \in SUBSET Entries /\ IsFiniteSet(models) /\ n \in Nat
  BY SetsAreFinite DEF Sets
<1>2. f \in Injection(models, 0 .. n - 1)
  <2>1. \A m \in models : f[m] \in 0 .. n - 1
    BY Ranks
  <2>2. ASSUME NEW a \in models, NEW b \in models, f[a] = f[b] PROVE a = b
    <3>1. f[a] \in Int /\ f[b] \in Int
      BY <2>1
    <3>2. ~(Rank(models, a) < Rank(models, b)) /\ ~(Rank(models, b) < Rank(models, a))
      BY <2>2, <3>1
    <3>3. QED
      BY <1>1, <3>2, Ranks, BeforeIs
  <2>3. QED
    BY <2>1, <2>2 DEF Injection, IsInjective
<1>3. IsFiniteSet(0 .. n - 1) /\ Cardinality(0 .. n - 1) = n
  <2>1. PICK b \in Int : b = n - 1
    BY <1>1
  <2>2. IsFiniteSet(0 .. b) /\ Cardinality(0 .. b) = IF 0 > b THEN 0 ELSE b - 0 + 1
    BY FS_Interval
  <2>3. QED
    BY <1>1, <2>1, <2>2
<1> HIDE DEF f
<1>4. f \in Surjection(models, 0 .. n - 1)
  BY <1>1, <1>2, <1>3, FS_Injection
<1>5. i - 1 \in 0 .. n - 1
  BY <1>1
<1>6. PICK m \in models : f[m] = i - 1
  BY <1>4, <1>5 DEF Surjection
<1>7. QED
  BY <1>6 DEF f

\* order goes from the heaviest model to the lightest.
Falling(order) ==
  \A i, j \in DOMAIN order : i < j => Before(order[i], order[j]) /\ order[i].model # order[j].model

LEMMA SortedIs ==
  ASSUME NEW models \in Sets
  PROVE  Sorted(models) \in Seq(Entries) /\ Sorted(models) # <<>> /\ Falling(Sorted(models))
<1>1. PICK n \in Nat \ {0} : n = Cardinality(models)
  BY SetsAreFinite
<1>2. PICK s : s = Sorted(models)
  OBVIOUS
<1>3. s = [i \in 1 .. n |-> CHOOSE m \in models : Rank(models, m) = i - 1]
  BY <1>1, <1>2 DEF Sorted, Rank
<1>4. \A i \in 1 .. n : s[i] \in models /\ Rank(models, s[i]) = i - 1
  BY <1>1, <1>3, PlacesTaken
<1>5. models \in SUBSET Entries
  BY DEF Sets
<1>6. s \in [1 .. n -> Entries]
  BY <1>3, <1>4, <1>5
<1>7. ASSUME NEW i \in 1 .. n, NEW j \in 1 .. n, i < j
      PROVE  Before(s[i], s[j]) /\ s[i].model # s[j].model
  <2>1. Rank(models, s[i]) < Rank(models, s[j])
    BY <1>4, <1>7
  <2>2. Before(s[i], s[j])
    BY <1>4, <2>1, Ranks
  <2>3. s[i] # s[j]
    BY <1>4, <1>5, <2>2, BeforeIs
  <2>4. QED
    BY <1>4, <2>2, <2>3 DEF Sets, Distinct
<1>8. s \in Seq(Entries) /\ s # <<>> /\ DOMAIN s = 1 .. n
  BY <1>6
<1>9. QED
  BY <1>2, <1>7, <1>8 DEF Falling

-----------------------------------------------------------------------------
(* Decoding a header byte by byte.                                         *)

Weighted == [model : Nat, weight : Nat]
Read == [model : Nat, models : Seq(Weighted)]
Nothing == [model |-> NoModel, models |-> <<>>]

LEMMA WeightedIs ==
  /\ \A n, w \in Nat : Model(n, w) \in Weighted
  /\ \A m \in Weighted : /\ m.model \in Nat /\ m.weight \in Nat /\ m = Model(m.model, m.weight)
                        /\ [m EXCEPT !.weight = @ + 1] = Model(m.model, m.weight + 1)
BY DEF Weighted, Model

Decoded(bytes) == FoldLeft(DecodeStep, Nothing, bytes)

Doubled(models, r) == [i \in DOMAIN models |-> Model(models[i].model, models[i].weight + r)]

LEMMA DoubledType ==
  ASSUME NEW models \in Seq(Weighted), NEW r \in Nat
  PROVE  Doubled(models, r) \in Seq(Weighted) /\ Len(Doubled(models, r)) = Len(models)
<1>1. PICK n \in Nat : n = Len(models) /\ DOMAIN models = 1 .. n
  OBVIOUS
<1>2. \A i \in 1 .. n : Model(models[i].model, models[i].weight + r) \in Weighted
  <2> SUFFICES ASSUME NEW i \in 1 .. n PROVE Model(models[i].model, models[i].weight + r) \in Weighted
    OBVIOUS
  <2>1. PICK m \in Weighted : m = models[i]
    BY <1>1
  <2>2. PICK w0 \in Nat : w0 = m.weight
    BY WeightedIs
  <2>3. PICK w \in Nat : w = w0 + r
    OBVIOUS
  <2>4. m.model \in Nat /\ Model(m.model, w) \in Weighted
    BY WeightedIs
  <2>5. QED
    BY <2>1, <2>2, <2>3, <2>4
<1>3. Doubled(models, r) \in [1 .. n -> Weighted]
  BY <1>1, <1>2 DEF Doubled
<1>4. QED
  BY <1>1, <1>3

LEMMA DoubledTwice ==
  ASSUME NEW models \in Seq(Weighted), NEW r \in Nat
  PROVE  Doubled(Doubled(models, r), 1) = Doubled(models, r + 1)
<1>1. \A i \in DOMAIN models : (models[i].weight + r) + 1 = models[i].weight + (r + 1)
  <2> SUFFICES ASSUME NEW i \in DOMAIN models
               PROVE  (models[i].weight + r) + 1 = models[i].weight + (r + 1)
    OBVIOUS
  <2>1. PICK m \in Weighted : m = models[i]
    OBVIOUS
  <2>2. PICK w \in Nat : w = m.weight
    BY WeightedIs
  <2>3. (w + r) + 1 = w + (r + 1)
    OBVIOUS
  <2>4. QED
    BY <2>1, <2>2, <2>3
<1>2. QED
  BY <1>1, ModelIs DEF Doubled

Rooted(models) == [i \in DOMAIN models |-> [models[i] EXCEPT !.weight = @ + 1]]

LEMMA RootedIs ==
  ASSUME NEW models \in Seq(Weighted)
  PROVE  Rooted(models) = Doubled(models, 1)
<1>1. \A i \in DOMAIN models :
        [models[i] EXCEPT !.weight = @ + 1] = Model(models[i].model, models[i].weight + 1)
  <2> SUFFICES ASSUME NEW i \in DOMAIN models
               PROVE  [models[i] EXCEPT !.weight = @ + 1]
                        = Model(models[i].model, models[i].weight + 1)
    OBVIOUS
  <2>1. PICK m \in Weighted : m = models[i]
    OBVIOUS
  <2>2. QED
    BY <2>1, WeightedIs
<1>2. QED
  BY <1>1 DEF Rooted, Doubled

\* A byte that is no smaller than the one before doubles; one that is another is
\* a model.
LEMMA DecodeStepIs ==
  ASSUME NEW acc \in Read, NEW byte \in Nat
  PROVE  LET ready == IF byte >= acc.model THEN Doubled(acc.models, 1) ELSE acc.models
         IN  /\ DecodeStep(acc, byte).model = byte
             /\ DecodeStep(acc, byte).models =
                  IF byte = acc.model THEN ready ELSE Append(ready, Model(byte, 0))
             /\ DecodeStep(acc, byte) \in Read
<1> DEFINE ready == IF byte >= acc.model THEN Doubled(acc.models, 1) ELSE acc.models
<1>1. acc.models \in Seq(Weighted)
  BY DEF Read
<1>2. [i \in DOMAIN acc.models |-> [acc.models[i] EXCEPT !.weight = @ + 1]] = Doubled(acc.models, 1)
  BY <1>1, RootedIs DEF Rooted
<1>3. DecodeStep(acc, byte) =
        [model |-> byte,
         models |-> IF byte = acc.model THEN ready ELSE Append(ready, Model(byte, 0))]
  BY <1>2 DEF DecodeStep
<1>4. ready \in Seq(Weighted) /\ Model(byte, 0) \in Weighted
  <2>1. Doubled(acc.models, 1) \in Seq(Weighted)
    BY <1>1, DoubledType
  <2>2. QED
    BY <1>1, <2>1 DEF Weighted, Model
<1> HIDE DEF ready
<1>5. DecodeStep(acc, byte) \in Read
  BY <1>3, <1>4 DEF Read
<1>6. QED
  BY <1>3, <1>5 DEF ready

Decoding == [p \in Read \X Nat |-> DecodeStep(p[1], p[2])]

LEMMA DecodingKeeps == Keeps(Decoding, Nothing, Read, Nat)
<1>1. Nothing \in Read
  <2>1. <<>> \in Seq(Weighted) /\ NoModel \in Nat
    BY ModelAssumption DEF NoModel
  <2>2. QED
    BY <2>1 DEF Nothing, Read
<1>2. \A p \in Read \X Nat : DecodeStep(p[1], p[2]) \in Read
  BY DecodeStepIs
<1>3. QED
  BY <1>1, <1>2 DEF Keeps, Decoding

LEMMA DecodedIsFold ==
  ASSUME NEW s \in Seq(Nat)
  PROVE  Decoded(s) = Fold(Decoding, Nothing, s)
<1> DEFINE n == Len(s)
           Steps(F) == F = [S \in SUBSET (1 .. n) |->
                              IF S = {} THEN Nothing ELSE DecodeStep(F[S \ {Max(S)}], s[Max(S)])]
           G == CHOOSE F : Steps(F)
<1>1. n \in Nat /\ DOMAIN s = 1 .. n /\ \A i \in 1 .. n : s[i] \in Nat
  OBVIOUS
<1>2. Decoded(s) = G[1 .. n]
  BY <1>1 DEF Decoded, FoldLeft, MapThenFoldSet
<1>3. ASSUME NEW F, NEW S \in SUBSET (1 .. n), S # {}, F[S \ {Max(S)}] \in Read
      PROVE  Decoding[<<F[S \ {Max(S)}], s[Max(S)]>>] = DecodeStep(F[S \ {Max(S)}], s[Max(S)])
  <2>1. s[Max(S)] \in Nat
    BY <1>1, <1>3, GreatestIndex
  <2>2. QED
    BY <1>3, <2>1 DEF Decoding
<1>4. Steps(G)
  <2>1. PICK H \in [SUBSET (1 .. n) -> Read] : Run(H, Decoding, Nothing, s)
    BY DecodingKeeps, RunExists
  <2>2. \A S \in SUBSET (1 .. n) : H[S \ {Max(S)}] \in Read
    OBVIOUS
  <2>3. Steps(H)
    BY <1>3, <2>1, <2>2 DEF Run, RunTo
  <2>4. QED
    BY <2>3
<1>5. Unrolls(G, Decoding, Nothing, Read, s)
  <2>1. G[{}] = Nothing
    BY <1>4
  <2>2. \A S \in SUBSET (1 .. n) : S # {} => G[S] = DecodeStep(G[S \ {Max(S)}], s[Max(S)])
    BY <1>4
  <2> HIDE DEF G
  <2>3. QED
    BY <1>3, <2>1, <2>2 DEF Unrolls
<1> HIDE DEF G
<1>6. QED
  BY <1>2, <1>5, DecodingKeeps, UnrollsIs

LEMMA DecodedEmpty == Decoded(<<>>) = Nothing
<1>1. <<>> \in Seq(Nat)
  OBVIOUS
<1>2. Decoded(<<>>) = Fold(Decoding, Nothing, <<>>)
  BY <1>1, DecodedIsFold
<1>3. Fold(Decoding, Nothing, <<>>) = Nothing
  BY DecodingKeeps, FoldEmpty
<1>4. QED
  BY <1>2, <1>3

LEMMA DecodedAppend ==
  ASSUME NEW s \in Seq(Nat), NEW x \in Nat
  PROVE  /\ Decoded(s) \in Read
         /\ Decoded(Append(s, x)) = DecodeStep(Decoded(s), x)
<1>1. Append(s, x) \in Seq(Nat)
  OBVIOUS
<1>2. Decoded(Append(s, x)) = Fold(Decoding, Nothing, Append(s, x)) /\ Decoded(s) = Fold(Decoding, Nothing, s)
  BY <1>1, DecodedIsFold
<1>3. Fold(Decoding, Nothing, Append(s, x)) = Decoding[<<Fold(Decoding, Nothing, s), x>>]
  BY DecodingKeeps, FoldAppend
<1>4. Fold(Decoding, Nothing, s) \in Read
  BY DecodingKeeps, FoldType
<1>5. Decoding[<<Fold(Decoding, Nothing, s), x>>] = DecodeStep(Fold(Decoding, Nothing, s), x)
  BY <1>4 DEF Decoding
<1>6. QED
  BY <1>2, <1>3, <1>4, <1>5

\* A model that is repeated doubles as often.
Copies(r, x) == [i \in 1 .. r |-> x]

LEMMA CopiesIs ==
  ASSUME NEW s \in Seq(Nat), NEW x \in Nat, NEW r \in Nat
  PROVE  /\ Copies(r, x) \in Seq(Nat) /\ s \o Copies(r, x) \in Seq(Nat)
         /\ s \o Copies(0, x) = s
         /\ s \o Copies(r + 1, x) = Append(s \o Copies(r, x), x)
<1>1. \A k \in Nat : Copies(k, x) \in [1 .. k -> Nat]
  BY DEF Copies
<1>2. PICK c \in Seq(Nat) : c = Copies(r, x) /\ Len(c) = r /\ \A i \in 1 .. r : c[i] = x
  <2>1. PICK c : c = Copies(r, x)
    OBVIOUS
  <2>2. c \in [1 .. r -> Nat] /\ \A i \in 1 .. r : c[i] = x
    BY <1>1, <2>1 DEF Copies
  <2>3. c \in Seq(Nat) /\ Len(c) = r
    BY <2>2
  <2>4. QED
    BY <2>1, <2>2, <2>3
<1>3. Copies(r + 1, x) = Append(c, x)
  <2>1. Append(c, x) = [i \in 1 .. r + 1 |-> x]
    <3>1. DOMAIN Append(c, x) = 1 .. r + 1 /\ \A i \in 1 .. r + 1 : Append(c, x)[i] = x
      BY <1>2
    <3>2. PICK d \in Seq(Nat) : d = Append(c, x)
      <4>1. Append(c, x) \in Seq(Nat)
        BY <1>2
      <4>2. QED
        BY <4>1, Zenon
    <3>3. d = [i \in DOMAIN d |-> d[i]]
      OBVIOUS
    <3>4. QED
      BY <3>1, <3>2, <3>3
  <2>2. QED
    BY <2>1 DEF Copies
<1>4. s \o Append(c, x) = Append(s \o c, x)
  <2>1. Append(c, x) = c \o <<x>> /\ <<x>> \in Seq(Nat)
    OBVIOUS
  <2>2. s \o (c \o <<x>>) = (s \o c) \o <<x>>
    BY <2>1, ConcatAssociative
  <2>3. s \o c \in Seq(Nat)
    OBVIOUS
  <2>4. (s \o c) \o <<x>> = Append(s \o c, x)
    BY <2>3
  <2>5. QED
    BY <2>1, <2>2, <2>4
<1>5. s \o Copies(0, x) = s
  <2>1. Copies(0, x) = <<>>
    BY <1>1
  <2>2. QED
    BY <2>1
<1>6. s \o c \in Seq(Nat)
  OBVIOUS
<1>7. QED
  BY <1>2, <1>3, <1>4, <1>5, <1>6, Zenon

LEMMA OneMore ==
  ASSUME NEW s \in Seq(Nat), NEW x \in Nat, NEW r \in Nat
  PROVE  s \o Copies(r + 1, x) = Append(s \o Copies(r, x), x)
BY CopiesIs

LEMMA RepeatsDouble ==
  ASSUME NEW s \in Seq(Nat), NEW r \in Nat, NEW x \in Nat, Decoded(s).model = x
  PROVE  /\ Decoded(s \o Copies(r, x)).model = x
         /\ Decoded(s \o Copies(r, x)).models = Doubled(Decoded(s).models, r)
<1> DEFINE N == {k \in Nat : /\ Decoded(s \o Copies(k, x)).model = x
                             /\ Decoded(s \o Copies(k, x)).models = Doubled(Decoded(s).models, k)}
<1>1. PICK ms \in Seq(Weighted) : ms = Decoded(s).models
  BY DecodedAppend DEF Read
<1>2. 0 \in N
  <2>1. Doubled(ms, 0) = ms
    <3>1. \A i \in DOMAIN ms : Model(ms[i].model, ms[i].weight + 0) = ms[i]
      <4> SUFFICES ASSUME NEW i \in DOMAIN ms PROVE Model(ms[i].model, ms[i].weight + 0) = ms[i]
        OBVIOUS
      <4>1. PICK m \in Weighted : m = ms[i]
        OBVIOUS
      <4>2. PICK w \in Nat : w = m.weight /\ m = Model(m.model, w)
        BY WeightedIs
      <4>3. w + 0 = w
        OBVIOUS
      <4>4. QED
        BY <4>1, <4>2, <4>3
    <3>2. ms = [i \in DOMAIN ms |-> ms[i]]
      OBVIOUS
    <3>3. QED
      BY <3>1, <3>2 DEF Doubled
  <2>2. s \o Copies(0, x) = s
    <3>1. s \o Copies(0, x) = s
      BY CopiesIs, Zenon
    <3>2. QED
      BY <3>1
  <2>3. QED
    BY <1>1, <2>1, <2>2
<1>3. ASSUME NEW k \in N PROVE k + 1 \in N
  <2>1. k \in Nat
    OBVIOUS
  <2>2. PICK t \in Seq(Nat) : t = s \o Copies(k, x) /\ s \o Copies(k + 1, x) = Append(t, x)
    <3>1. s \o Copies(k, x) \in Seq(Nat)
      BY <2>1, CopiesIs, Zenon
    <3>2. s \o Copies(k + 1, x) = Append(s \o Copies(k, x), x)
      BY <2>1, OneMore
    <3>3. QED
      BY <3>1, <3>2, Zenon
  <2>3. Decoded(t).model = x /\ Decoded(t).models = Doubled(ms, k) /\ Decoded(t) \in Read
    BY <1>1, <2>2, DecodedAppend
  <2>4. DecodeStep(Decoded(t), x).model = x /\ DecodeStep(Decoded(t), x).models = Doubled(Doubled(ms, k), 1)
    <3>1. PICK acc \in Read : acc = Decoded(t)
      BY <2>3
    <3>2. acc.model = x /\ acc.models = Doubled(ms, k) /\ x >= acc.model
      BY <2>3, <3>1
    <3>3. QED
      BY <3>1, <3>2, DecodeStepIs
  <2>5. Doubled(Doubled(ms, k), 1) = Doubled(ms, k + 1)
    BY <2>1, DoubledTwice
  <2>6. Decoded(Append(t, x)) = DecodeStep(Decoded(t), x)
    BY DecodedAppend
  <2>7. /\ Decoded(s \o Copies(k + 1, x)).model = x
        /\ Decoded(s \o Copies(k + 1, x)).models = Doubled(Decoded(s).models, k + 1)
    BY <1>1, <2>2, <2>4, <2>5, <2>6
  <2>8. k + 1 \in Nat
    BY <2>1
  <2>9. QED
    BY <2>7, <2>8, Zenon
<1> HIDE DEF N
<1>4. N = Nat
  <2>1. N \in SUBSET Nat
    BY DEF N
  <2>2. QED
    BY <1>2, <1>3, <2>1, SetInduction
<1>5. QED
  BY <1>4 DEF N

-----------------------------------------------------------------------------
(* Encoding a header model by model.                                       *)

Written == [weight : Nat, model : Nat, bytes : Seq(Nat)]
Start(w) == [weight |-> w, model |-> NoModel, bytes |-> <<>>]

Encoding == [p \in Written \X Entries |-> EncodeStep(p[1], p[2])]

LEMMA EncodeStepType ==
  ASSUME NEW acc \in Written, NEW m \in Entries
  PROVE  EncodeStep(acc, m) \in Written
<1>1. PICK b \in Seq(Nat), k \in Nat : b = acc.bytes /\ k = acc.model
  BY DEF Written
<1>2. PICK n \in Nat, w \in Nat : n = m.model /\ w = m.weight
  BY EntryIs DEF Numbers
<1>3. PICK r \in Int : r = Repeats(acc.weight, m.weight, acc.model, m.model)
  <2>1. PICK from \in Nat : from = acc.weight
    BY DEF Written
  <2>2. Repeats(from, w, k, n) \in Int
    BY DEF Repeats
  <2>3. QED
    BY <1>1, <1>2, <2>1, <2>2, Zenon
<1>4. [i \in 1 .. r |-> k] \in Seq(Nat)
  <2>1. CASE r \in Nat
    BY <2>1
  <2>2. CASE r \notin Nat
    <3>1. 1 .. r = 1 .. 0
      BY <2>2
    <3>2. [i \in 1 .. 0 |-> k] \in Seq(Nat)
      OBVIOUS
    <3>3. QED
      BY <3>1, <3>2
  <2>3. QED
    BY <2>1, <2>2
<1>5. <<n>> \in Seq(Nat)
  OBVIOUS
<1>6. b \o [i \in 1 .. r |-> k] \o <<n>> \in Seq(Nat)
  <2>1. b \o [i \in 1 .. r |-> k] \in Seq(Nat)
    BY <1>4, ConcatProperties
  <2>2. QED
    BY <1>5, <2>1, ConcatProperties
<1>7. EncodeStep(acc, m) = [weight |-> w, model |-> n, bytes |-> b \o [i \in 1 .. r |-> k] \o <<n>>]
  BY <1>1, <1>2, <1>3 DEF EncodeStep
<1>8. QED
  BY <1>6, <1>7 DEF Written

LEMMA EncodingKeeps ==
  ASSUME NEW w \in Nat
  PROVE  Keeps(Encoding, Start(w), Written, Entries)
<1>1. Start(w) \in Written
  <2>1. <<>> \in Seq(Nat) /\ NoModel \in Nat
    BY ModelAssumption DEF NoModel
  <2>2. QED
    BY <2>1 DEF Start, Written
<1>2. \A p \in Written \X Entries : EncodeStep(p[1], p[2]) \in Written
  BY EncodeStepType
<1>3. QED
  BY <1>1, <1>2 DEF Keeps, Encoding

Encoded(w, order) == FoldLeft(EncodeStep, Start(w), order)

LEMMA EncodedIsFold ==
  ASSUME NEW w \in Nat, NEW s \in Seq(Entries)
  PROVE  Encoded(w, s) = Fold(Encoding, Start(w), s)
<1> DEFINE n == Len(s)
           Steps(F) == F = [S \in SUBSET (1 .. n) |->
                              IF S = {} THEN Start(w) ELSE EncodeStep(F[S \ {Max(S)}], s[Max(S)])]
           G == CHOOSE F : Steps(F)
<1>1. n \in Nat /\ DOMAIN s = 1 .. n /\ \A i \in 1 .. n : s[i] \in Entries
  OBVIOUS
<1>2. Encoded(w, s) = G[1 .. n]
  BY <1>1 DEF Encoded, FoldLeft, MapThenFoldSet
<1>3. ASSUME NEW F, NEW S \in SUBSET (1 .. n), S # {}, F[S \ {Max(S)}] \in Written
      PROVE  Encoding[<<F[S \ {Max(S)}], s[Max(S)]>>] = EncodeStep(F[S \ {Max(S)}], s[Max(S)])
  <2>1. s[Max(S)] \in Entries
    BY <1>1, <1>3, GreatestIndex
  <2>2. QED
    BY <1>3, <2>1 DEF Encoding
<1>4. Steps(G)
  <2>1. PICK H \in [SUBSET (1 .. n) -> Written] : Run(H, Encoding, Start(w), s)
    BY EncodingKeeps, RunExists
  <2>2. \A S \in SUBSET (1 .. n) : H[S \ {Max(S)}] \in Written
    OBVIOUS
  <2>3. Steps(H)
    BY <1>3, <2>1, <2>2 DEF Run, RunTo
  <2>4. QED
    BY <2>3
<1>5. Unrolls(G, Encoding, Start(w), Written, s)
  <2>1. G[{}] = Start(w)
    BY <1>4
  <2>2. \A S \in SUBSET (1 .. n) : S # {} => G[S] = EncodeStep(G[S \ {Max(S)}], s[Max(S)])
    BY <1>4
  <2> HIDE DEF G
  <2>3. QED
    BY <1>3, <2>1, <2>2 DEF Unrolls
<1> HIDE DEF G
<1>6. QED
  BY <1>2, <1>5, EncodingKeeps, UnrollsIs

LEMMA EncodedEmpty ==
  ASSUME NEW w \in Nat
  PROVE  Encoded(w, <<>>) = Start(w)
<1>1. <<>> \in Seq(Entries)
  OBVIOUS
<1>2. Encoded(w, <<>>) = Fold(Encoding, Start(w), <<>>)
  BY <1>1, EncodedIsFold
<1>3. Fold(Encoding, Start(w), <<>>) = Start(w)
  BY EncodingKeeps, FoldEmpty
<1>4. QED
  BY <1>2, <1>3

LEMMA EncodedAppend ==
  ASSUME NEW w \in Nat, NEW s \in Seq(Entries), NEW x \in Entries
  PROVE  /\ Encoded(w, s) \in Written
         /\ Encoded(w, Append(s, x)) = EncodeStep(Encoded(w, s), x)
<1>1. Append(s, x) \in Seq(Entries)
  OBVIOUS
<1>2. /\ Encoded(w, Append(s, x)) = Fold(Encoding, Start(w), Append(s, x))
      /\ Encoded(w, s) = Fold(Encoding, Start(w), s)
  BY <1>1, EncodedIsFold
<1>3. Fold(Encoding, Start(w), Append(s, x)) = Encoding[<<Fold(Encoding, Start(w), s), x>>]
  BY EncodingKeeps, FoldAppend
<1>4. Fold(Encoding, Start(w), s) \in Written
  BY EncodingKeeps, FoldType
<1>5. Encoding[<<Fold(Encoding, Start(w), s), x>>] = EncodeStep(Fold(Encoding, Start(w), s), x)
  BY <1>4 DEF Encoding
<1>6. QED
  BY <1>2, <1>3, <1>4, <1>5

\* The models of s, their weights counted from w.
Above(s, w) == [i \in DOMAIN s |-> Model(s[i].model, s[i].weight - w)]

\* What the bytes written for the models of s, whose last is k, tell the decoder.
Arrives(w, s, k) ==
  /\ Encoded(w, s).weight = k.weight /\ Encoded(w, s).model = k.model
  /\ Decoded(Encoded(w, s).bytes).model = k.model
  /\ Decoded(Encoded(w, s).bytes).models = Above(s, k.weight)
  /\ Encoded(w, s).bytes \in Seq(Numbers) /\ Encoded(w, s).bytes # <<>>

LEMMA NumbersOnly ==
  ASSUME NEW s \in Seq(Numbers), NEW r \in Nat, NEW x \in Numbers, NEW y \in Numbers
  PROVE  /\ s \o Copies(r, x) \in Seq(Numbers)
         /\ Append(s \o Copies(r, x), y) \in Seq(Numbers) /\ Append(s \o Copies(r, x), y) # <<>>
<1>1. PICK c \in Seq(Numbers) : c = Copies(r, x)
  <2>1. Copies(r, x) \in [1 .. r -> Numbers]
    BY DEF Copies
  <2>2. Copies(r, x) \in Seq(Numbers)
    BY <2>1
  <2>3. QED
    BY <2>2, Zenon
<1>2. PICK d \in Seq(Numbers) : d = s \o c
  <2>1. s \o c \in Seq(Numbers)
    BY ConcatProperties
  <2>2. QED
    BY <2>1, Zenon
<1>3. Append(d, y) \in Seq(Numbers) /\ Append(d, y) # <<>>
  BY AppendProperties
<1>4. QED
  BY <1>1, <1>2, <1>3

LEMMA NothingIs == Nothing \in Read /\ Nothing.model = NoModel /\ Nothing.models = <<>>
<1>1. Nothing \in Read
  BY DecodingKeeps DEF Keeps
<1>2. QED
  BY <1>1 DEF Nothing

\* A byte written behind the repeats of the one before.
LEMMA EncodeStepIs ==
  ASSUME NEW acc \in Written, NEW m \in Entries, NEW r \in Nat,
         r = Repeats(acc.weight, m.weight, acc.model, m.model)
  PROVE  /\ EncodeStep(acc, m).weight = m.weight /\ EncodeStep(acc, m).model = m.model
         /\ acc.bytes \o Copies(r, acc.model) \in Seq(Nat)
         /\ EncodeStep(acc, m).bytes = Append(acc.bytes \o Copies(r, acc.model), m.model)
<1>1. PICK b \in Seq(Nat), k \in Nat : b = acc.bytes /\ k = acc.model
  BY DEF Written
<1>2. PICK n \in Nat : n = m.model
  BY EntryIs DEF Numbers
<1>3. PICK c \in Seq(Nat) : c = b \o Copies(r, k)
  <2>1. b \o Copies(r, k) \in Seq(Nat)
    BY CopiesIs
  <2>2. QED
    BY <2>1, Zenon
<1>4. c \o <<n>> = Append(c, n)
  OBVIOUS
<1>5. EncodeStep(acc, m).bytes = b \o Copies(r, k) \o <<n>>
  BY <1>1, <1>2 DEF EncodeStep, Copies
<1>6. EncodeStep(acc, m).weight = m.weight /\ EncodeStep(acc, m).model = m.model
  BY DEF EncodeStep
<1>7. QED
  BY <1>1, <1>2, <1>3, <1>4, <1>5, <1>6, Zenon

LEMMA FirstModel ==
  ASSUME NEW x \in Entries
  PROVE  Arrives(x.weight, Append(<<>>, x), x)
<1>1. PICK n \in Nat, w \in Nat : n = x.model /\ w = x.weight /\ n < NoModel /\ NoModel \in Nat
  BY EntryIs, ModelAssumption DEF Numbers, NoModel
<1>2. PICK z \in Written : z = Start(w) /\ z.weight = w /\ z.model = NoModel /\ z.bytes = <<>>
  <2>1. Start(w) \in Written
    BY EncodingKeeps DEF Keeps
  <2>2. Start(w).weight = w /\ Start(w).model = NoModel /\ Start(w).bytes = <<>>
    BY DEF Start
  <2>3. QED
    BY <2>1, <2>2, Zenon
<1>3. Encoded(w, Append(<<>>, x)) = EncodeStep(z, x)
  <2>1. <<>> \in Seq(Entries)
    OBVIOUS
  <2>2. Encoded(w, Append(<<>>, x)) = EncodeStep(Encoded(w, <<>>), x)
    BY <2>1, EncodedAppend
  <2>3. QED
    BY <1>2, <2>2, EncodedEmpty
<1>4. PICK r \in Nat : r = 0 /\ r = Repeats(z.weight, x.weight, z.model, x.model)
  BY <1>1, <1>2 DEF Repeats
<1>5. /\ EncodeStep(z, x).weight = x.weight /\ EncodeStep(z, x).model = x.model
      /\ EncodeStep(z, x).bytes = Append(z.bytes \o Copies(r, z.model), x.model)
  BY <1>4, EncodeStepIs
<1>6. z.bytes \o Copies(r, z.model) = <<>>
  <2>1. PICK e \in Seq(Nat) : e = <<>>
    <3>1. <<>> \in Seq(Nat)
      OBVIOUS
    <3>2. QED
      BY <3>1, Zenon
  <2>2. e \o Copies(0, NoModel) = e
    BY <1>1, CopiesIs
  <2>3. QED
    BY <1>2, <1>4, <2>1, <2>2, Zenon
<1>7. /\ Decoded(Append(<<>>, n)).model = n
      /\ Decoded(Append(<<>>, n)).models = Append(<<>>, Model(n, 0))
  <2>1. <<>> \in Seq(Nat)
    OBVIOUS
  <2>2. Decoded(Append(<<>>, n)) = DecodeStep(Nothing, n)
    BY <2>1, DecodedAppend, DecodedEmpty
  <2>3. DecodeStep(Nothing, n).model = n /\ DecodeStep(Nothing, n).models = Append(<<>>, Model(n, 0))
    <3>1. PICK acc \in Read : acc = Nothing /\ acc.model = NoModel /\ acc.models = <<>>
      BY NothingIs, Zenon
    <3>2. ~(n >= acc.model) /\ n # acc.model
      BY <1>1, <3>1
    <3>3. DecodeStep(acc, n).model = n /\ DecodeStep(acc, n).models = Append(acc.models, Model(n, 0))
      BY <3>2, DecodeStepIs
    <3>4. QED
      BY <3>1, <3>3, Zenon
  <2>4. QED
    BY <2>2, <2>3
<1>8. Append(<<>>, Model(n, 0)) = Above(Append(<<>>, x), w)
  <2>1. w - w = 0
    OBVIOUS
  <2>2. QED
    BY <1>1, <2>1 DEF Above
<1>9. Append(<<>>, n) \in Seq(Numbers) /\ Append(<<>>, n) # <<>>
  <2>1. n \in Numbers
    BY <1>1, EntryIs
  <2>2. QED
    BY <2>1
<1>10. QED
  BY <1>1, <1>3, <1>5, <1>6, <1>7, <1>8, <1>9 DEF Arrives

LEMMA AboveIs ==
  ASSUME NEW s \in Seq(Entries), NEW a \in Nat, NEW b \in Nat, NEW d \in Nat, a = b + d
  PROVE  Doubled(Above(s, a), d) = Above(s, b)
<1>1. \A i \in DOMAIN s : (s[i].weight - a) + d = s[i].weight - b
  <2> SUFFICES ASSUME NEW i \in DOMAIN s PROVE (s[i].weight - a) + d = s[i].weight - b
    OBVIOUS
  <2>1. PICK m \in Entries : m = s[i]
    OBVIOUS
  <2>2. PICK w \in Nat : w = m.weight
    BY EntryIs
  <2>3. (w - a) + d = w - b
    OBVIOUS
  <2>4. QED
    BY <2>1, <2>2, <2>3
<1>2. QED
  BY <1>1, ModelIs DEF Doubled, Above

LEMMA AboveAppend ==
  ASSUME NEW s \in Seq(Entries), NEW x \in Entries, NEW w \in Nat, w = x.weight
  PROVE  Above(Append(s, x), w) = Append(Above(s, w), Model(x.model, 0))
<1>1. PICK n \in Nat : n = Len(s) /\ DOMAIN s = 1 .. n
  OBVIOUS
<1>2. PICK t : t = Append(s, x)
  OBVIOUS
<1>3. DOMAIN t = 1 .. n + 1 /\ t[n + 1] = x /\ \A i \in 1 .. n : t[i] = s[i]
  BY <1>1, <1>2
<1>4. w - w = 0
  OBVIOUS
<1>5. Above(s, w) = [i \in 1 .. n |-> Model(s[i].model, s[i].weight - w)]
  BY <1>1 DEF Above
<1>6. Above(t, w) = [i \in 1 .. n + 1 |-> Model(t[i].model, t[i].weight - w)]
  BY <1>3 DEF Above
<1>7. PICK u : u = Above(s, w)
  OBVIOUS
<1>8. Append(u, Model(x.model, 0)) = [i \in 1 .. n + 1 |-> IF i = n + 1 THEN Model(x.model, 0) ELSE u[i]]
  BY <1>5, <1>7
<1>9. \A i \in 1 .. n + 1 : Model(t[i].model, t[i].weight - w)
                             = IF i = n + 1 THEN Model(x.model, 0) ELSE u[i]
  <2> SUFFICES ASSUME NEW i \in 1 .. n + 1
               PROVE  Model(t[i].model, t[i].weight - w) = IF i = n + 1 THEN Model(x.model, 0) ELSE u[i]
    OBVIOUS
  <2>1. CASE i = n + 1
    BY <1>3, <1>4, <2>1
  <2>2. CASE i # n + 1
    <3>1. i \in 1 .. n
      BY <2>2
    <3>2. QED
      BY <1>3, <1>5, <1>7, <2>2, <3>1
  <2>3. QED
    BY <2>1, <2>2
<1>10. QED
  BY <1>2, <1>6, <1>7, <1>8, <1>9

\* The repeats and the free double together bring every model so far up by the
\* difference of the last weights.
LEMMA NextModel ==
  ASSUME NEW s \in Seq(Entries), NEW w \in Nat, NEW k \in Entries, NEW x \in Entries,
         Arrives(w, s, k), Before(k, x), k.model # x.model
  PROVE  Arrives(w, Append(s, x), x)
<1>1. PICK kw \in Nat, km \in Nat, xw \in Nat, xm \in Nat :
        kw = k.weight /\ km = k.model /\ xw = x.weight /\ xm = x.model
  BY EntryIs DEF Numbers
<1>2. PICK d \in Nat : kw = xw + d
  <2>1. kw - xw \in Nat
    BY <1>1 DEF Before
  <2>2. kw = xw + (kw - xw)
    OBVIOUS
  <2>3. QED
    BY <2>1, <2>2
<1>3. PICK r \in Nat : r = Repeats(kw, xw, km, xm) /\ (IF xm >= km THEN d = r + 1 ELSE d = r)
  <2>1. xm >= km => kw # xw /\ km < xm
    BY <1>1 DEF Before
  <2>2. CASE xm >= km
    <3>1. d - 1 \in Nat /\ d - 1 = Repeats(kw, xw, km, xm)
      BY <1>2, <2>1, <2>2 DEF Repeats
    <3>2. d = (d - 1) + 1
      OBVIOUS
    <3>3. QED
      BY <2>2, <3>1, <3>2
  <2>3. CASE ~(xm >= km)
    <3>1. d = Repeats(kw, xw, km, xm)
      BY <1>2, <2>3 DEF Repeats
    <3>2. QED
      BY <2>3, <3>1
  <2>4. QED
    BY <2>2, <2>3
<1>4. PICK e \in Written : e = Encoded(w, s)
  BY EncodedAppend
<1>5. PICK b \in Seq(Nat) : b = e.bytes
  BY DEF Written
<1>6. /\ e.weight = kw /\ e.model = km /\ Decoded(b).model = km
      /\ Decoded(b).models = Above(s, kw)
  BY <1>1, <1>4, <1>5 DEF Arrives
<1>7. PICK c \in Seq(Nat) : c = b \o Copies(r, km)
  <2>1. b \o Copies(r, km) \in Seq(Nat)
    BY CopiesIs
  <2>2. QED
    BY <2>1, Zenon
<1>8. /\ Encoded(w, Append(s, x)).weight = xw /\ Encoded(w, Append(s, x)).model = xm
      /\ Encoded(w, Append(s, x)).bytes = Append(c, xm)
  <2>1. Encoded(w, Append(s, x)) = EncodeStep(e, x)
    BY <1>4, EncodedAppend
  <2>2. r = Repeats(e.weight, x.weight, e.model, x.model)
    BY <1>1, <1>3, <1>6
  <2>3. /\ EncodeStep(e, x).weight = x.weight /\ EncodeStep(e, x).model = x.model
        /\ EncodeStep(e, x).bytes = Append(e.bytes \o Copies(r, e.model), x.model)
    BY <2>2, EncodeStepIs
  <2>4. QED
    BY <1>1, <1>5, <1>6, <1>7, <2>1, <2>3
<1>9. PICK acc \in Read : /\ acc = Decoded(c) /\ acc.model = km
                          /\ acc.models = Doubled(Above(s, kw), r)
  <2>1. Decoded(c) \in Read
    BY DecodedAppend
  <2>2. Decoded(c).model = km /\ Decoded(c).models = Doubled(Above(s, kw), r)
    BY <1>6, <1>7, RepeatsDouble
  <2>3. QED
    BY <2>1, <2>2, Zenon
<1>10. IF xm >= km THEN Doubled(acc.models, 1) = Above(s, xw) ELSE acc.models = Above(s, xw)
  <2>1. PICK ms \in Seq(Weighted) : ms = Above(s, kw)
    <3>1. Decoded(b) \in Read
      BY DecodedAppend
    <3>2. Decoded(b).models \in Seq(Weighted)
      BY <3>1 DEF Read
    <3>3. QED
      BY <1>6, <3>2
  <2>2. Doubled(ms, d) = Above(s, xw)
    BY <1>2, <2>1, AboveIs
  <2>3. Doubled(Doubled(ms, r), 1) = Doubled(ms, r + 1)
    BY DoubledTwice
  <2>4. QED
    BY <1>3, <1>9, <2>1, <2>2, <2>3
<1>11. DecodeStep(acc, xm).model = xm /\ DecodeStep(acc, xm).models = Append(Above(s, xw), Model(xm, 0))
  <2>1. xm # acc.model /\ (xm >= acc.model <=> xm >= km)
    BY <1>1, <1>9
  <2>2. /\ DecodeStep(acc, xm).model = xm
        /\ DecodeStep(acc, xm).models
             = Append(IF xm >= acc.model THEN Doubled(acc.models, 1) ELSE acc.models, Model(xm, 0))
    BY <2>1, DecodeStepIs
  <2>3. (IF xm >= acc.model THEN Doubled(acc.models, 1) ELSE acc.models) = Above(s, xw)
    BY <1>10, <2>1
  <2>4. QED
    BY <2>2, <2>3
<1>12. Decoded(Append(c, xm)) = DecodeStep(acc, xm)
  BY <1>9, DecodedAppend
<1>13. Append(Above(s, xw), Model(xm, 0)) = Above(Append(s, x), xw)
  BY <1>1, AboveAppend
<1>14. Append(c, xm) \in Seq(Numbers) /\ Append(c, xm) # <<>>
  <2>1. b \in Seq(Numbers)
    BY <1>4, <1>5 DEF Arrives
  <2>2. km \in Numbers /\ xm \in Numbers
    BY <1>1, EntryIs
  <2>3. QED
    BY <1>7, <2>1, <2>2, NumbersOnly
<1>15. QED
  BY <1>1, <1>8, <1>11, <1>12, <1>13, <1>14 DEF Arrives

LEMMA FallingPrefix ==
  ASSUME NEW s \in Seq(Entries), NEW x \in Entries, Falling(Append(s, x)), s # <<>>
  PROVE  /\ Falling(s) /\ Before(s[Len(s)], x) /\ s[Len(s)].model # x.model
         /\ s[Len(s)] \in Entries /\ Append(s, x)[1] = s[1]
<1>1. PICK n \in Nat \ {0} : n = Len(s) /\ DOMAIN s = 1 .. n
  OBVIOUS
<1>2. PICK t : t = Append(s, x)
  OBVIOUS
<1>3. /\ DOMAIN t = 1 .. n + 1 /\ t[n + 1] = x /\ \A i \in 1 .. n : t[i] = s[i]
  BY <1>1, <1>2
<1>4. \A i, j \in 1 .. n + 1 : i < j => Before(t[i], t[j]) /\ t[i].model # t[j].model
  BY <1>2, <1>3 DEF Falling
<1>5. Falling(s)
  <2> SUFFICES ASSUME NEW i \in 1 .. n, NEW j \in 1 .. n, i < j
               PROVE  Before(s[i], s[j]) /\ s[i].model # s[j].model
    BY <1>1 DEF Falling
  <2>1. i \in 1 .. n + 1 /\ j \in 1 .. n + 1
    OBVIOUS
  <2>2. QED
    BY <1>3, <1>4, <2>1
<1>6. n \in 1 .. n + 1 /\ n + 1 \in 1 .. n + 1 /\ n < n + 1 /\ n \in 1 .. n /\ 1 \in 1 .. n
  OBVIOUS
<1>7. Before(t[n], t[n + 1]) /\ t[n].model # t[n + 1].model
  BY <1>4, <1>6
<1>8. s[n] \in Entries
  BY <1>1, <1>6
<1>9. QED
  BY <1>1, <1>2, <1>3, <1>5, <1>6, <1>7, <1>8

LEMMA OrderArrives ==
  ASSUME NEW order \in Seq(Entries), order # <<>>, Falling(order)
  PROVE  Arrives(order[1].weight, order, order[Len(order)])
<1> DEFINE P == {s \in Seq(Entries) : s = <<>> \/ (Falling(s) => Arrives(s[1].weight, s, s[Len(s)]))}
<1>1. <<>> \in P
  OBVIOUS
<1>2. ASSUME NEW s \in P, NEW x \in Entries PROVE Append(s, x) \in P
  <2>1. PICK t \in Seq(Entries) : t = Append(s, x) /\ t[Len(t)] = x
    <3>1. Append(s, x) \in Seq(Entries) /\ Append(s, x)[Len(Append(s, x))] = x
      OBVIOUS
    <3>2. QED
      BY <3>1, Zenon
  <2>2. ASSUME Falling(t) PROVE Arrives(t[1].weight, t, x)
    <3>1. CASE s = <<>>
      <4>1. t[1] = x
        BY <2>1, <3>1
      <4>2. QED
        BY <2>1, <3>1, <4>1, FirstModel
    <3>2. CASE s # <<>>
      <4>1. PICK k \in Entries : /\ k = s[Len(s)] /\ Falling(s) /\ Before(k, x)
                                 /\ k.model # x.model /\ t[1] = s[1]
        BY <2>1, <2>2, <3>2, FallingPrefix
      <4>2. PICK w \in Nat : w = s[1].weight
        <5>1. s[1] \in Entries
          BY <3>2
        <5>2. QED
          BY <5>1, EntryIs
      <4>3. Arrives(w, s, k)
        BY <3>2, <4>1, <4>2
      <4>4. Arrives(w, Append(s, x), x)
        BY <4>1, <4>3, NextModel
      <4>5. QED
        BY <2>1, <4>1, <4>2, <4>4
    <3>3. QED
      BY <3>1, <3>2
  <2>3. QED
    BY <2>1, <2>2
<1>3. P \in SUBSET Seq(Entries)
  OBVIOUS
<1> HIDE DEF P
<1>4. P = Seq(Entries)
  BY <1>1, <1>2, <1>3, SequenceInduction
<1>5. QED
  BY <1>4 DEF P

\* A header ends with repeats of the last model, as many as its weight says.
LEMMA HeaderIs ==
  ASSUME NEW models \in Sets
  PROVE  \E order \in Seq(Entries), b \in Seq(Nat), kw \in Nat \ {0}, km \in Numbers :
           /\ order = Sorted(models)
           /\ EncodeModels(models) = b \o Copies(kw, km)
           /\ Decoded(b).model = km /\ Decoded(b).models = Above(order, kw)
           /\ b \in Seq(Numbers) /\ b # <<>>
<1>1. PICK order \in Seq(Entries) : order = Sorted(models) /\ order # <<>> /\ Falling(order)
  BY SortedIs
<1>2. order[1] \in Entries /\ order[Len(order)] \in Entries
  BY <1>1
<1>3. PICK w \in Nat : w = order[1].weight
  BY <1>2, EntryIs
<1>4. PICK k \in Entries, kw \in Nat \ {0}, km \in Numbers :
        k = order[Len(order)] /\ kw = k.weight /\ km = k.model
  BY <1>2, EntryIs
<1>5. Arrives(w, order, k)
  BY <1>1, <1>3, <1>4, OrderArrives
<1>6. PICK e \in Written : e = Encoded(w, order)
  BY EncodedAppend, <1>2
<1>7. PICK b \in Seq(Nat) : b = e.bytes
  BY DEF Written
<1>8. /\ e.weight = kw /\ e.model = km /\ Decoded(b).model = km /\ Decoded(b).models = Above(order, kw)
      /\ b \in Seq(Numbers) /\ b # <<>>
  BY <1>4, <1>5, <1>6, <1>7 DEF Arrives
<1>9. EncodeModels(models) = b \o Copies(kw, km)
  <2>1. e = FoldLeft(EncodeStep, [weight |-> order[1].weight, model |-> NoModel, bytes |-> <<>>], order)
    BY <1>3, <1>6 DEF Encoded, Start
  <2>2. EncodeModels(models) = e.bytes \o [i \in 1 .. e.weight |-> e.model]
    BY <1>1, <2>1 DEF EncodeModels
  <2>3. QED
    BY <1>7, <1>8, <2>2 DEF Copies
<1>10. QED
  BY <1>1, <1>8, <1>9

\* A header brings back the models and weights it was made from, heaviest first.
LEMMA HeaderReadsBack ==
  ASSUME NEW models \in Sets
  PROVE  DecodeModels(EncodeModels(models)) = Sorted(models)
<1>1. PICK order \in Seq(Entries), b \in Seq(Nat), kw \in Nat \ {0}, km \in Numbers :
        /\ order = Sorted(models) /\ EncodeModels(models) = b \o Copies(kw, km)
        /\ Decoded(b).model = km /\ Decoded(b).models = Above(order, kw)
  BY HeaderIs
<1>2. Decoded(b \o Copies(kw, km)).models = Doubled(Above(order, kw), kw)
  <2>1. km \in Nat
    BY DEF Numbers
  <2>2. QED
    BY <1>1, <2>1, RepeatsDouble
<1>3. Doubled(Above(order, kw), kw) = Above(order, 0)
  BY AboveIs
<1>4. Above(order, 0) = order
  <2>1. \A i \in DOMAIN order : Model(order[i].model, order[i].weight - 0) = order[i]
    <3> SUFFICES ASSUME NEW i \in DOMAIN order
                 PROVE  Model(order[i].model, order[i].weight - 0) = order[i]
      OBVIOUS
    <3>1. PICK m \in Entries : m = order[i]
      OBVIOUS
    <3>2. PICK v \in Nat : v = m.weight /\ m = Model(m.model, v)
      BY EntryIs
    <3>3. v - 0 = v
      OBVIOUS
    <3>4. QED
      BY <3>1, <3>2, <3>3
  <2>2. order = [i \in DOMAIN order |-> order[i]]
    OBVIOUS
  <2>3. QED
    BY <2>1, <2>2 DEF Above
<1>5. DecodeModels(EncodeModels(models)) = Decoded(b \o Copies(kw, km)).models
  BY <1>1 DEF DecodeModels, Decoded, Nothing
<1>6. QED
  BY <1>1, <1>2, <1>3, <1>4, <1>5

\* DecodeHeader gets back from the header of every set the search looks at
\* every model with its weight.
THEOREM HeadersReadBack == Spec => []HeaderRoundTrip
<1>1. SearchInv => HeaderRoundTrip
  <2> SUFFICES ASSUME SearchInv, tried PROVE DecodeModels(EncodeModels(test)) = Sorted(test)
    BY DEF HeaderRoundTrip
  <2>1. test \in Sets
    BY DEF SearchInv
  <2>2. QED
    BY <2>1, HeaderReadsBack
<1>2. QED
  BY <1>1, SearchAlways, PTL

-----------------------------------------------------------------------------
(* Reading a packed stream.                                                *)

LEMMA HeaderBytes ==
  ASSUME NEW models \in Sets
  PROVE  EncodeModels(models) \in Seq(Nat)
<1>1. PICK order \in Seq(Entries), b \in Seq(Nat), kw \in Nat \ {0}, km \in Numbers :
        EncodeModels(models) = b \o Copies(kw, km)
  BY HeaderIs
<1>2. km \in Nat
  BY DEF Numbers
<1>3. QED
  BY <1>1, <1>2, CopiesIs

\* What LoadStream needs of a stored block: its length, and that it is no end.
Marked(b) == Len(b) >= 3 /\ b[3] = Len(b) /\ (b[1] # 0 \/ b[2] # 0)

LEMMA StoredIs ==
  ASSUME NEW h, HeaderOf(h)
  PROVE  StoredBlock(h) \in Seq(Nat) /\ Marked(StoredBlock(h))
<1>1. PICK size \in Sizes, models \in Sets : h = Header(size, models)
  BY DEF HeaderOf
<1>2. PICK m \in Seq(Nat), n \in Nat : m = h.models /\ n = Len(m)
  BY <1>1, HeaderBytes DEF Header
<1>3. PICK l \in Nat \ {0} : l = LengthByte
  BY LengthAssumption
<1>4. PICK s \in Nat \ {0} : s = h.size
  BY <1>1, SearchAssumption DEF Header
<1>5. PICK a \in Nat, b \in Nat : a = LowByte(s) /\ b = High(s) /\ s = l * b + a
  <2>1. s % l \in Nat /\ s \div l \in Nat /\ s = l * (s \div l) + (s % l)
    OBVIOUS
  <2>2. QED
    BY <1>3, <2>1 DEF LowByte, High
<1>6. a # 0 \/ b # 0
  <2>1. l * 0 + 0 = 0
    OBVIOUS
  <2>2. QED
    BY <1>5, <2>1
<1>7. PICK k \in Nat : k = n + 3
  OBVIOUS
<1>8. PICK c \in Seq(Nat) : c = <<a, b, k>> \o m /\ Len(c) = n + 3 /\ c[1] = a /\ c[2] = b /\ c[3] = k
  <2>1. PICK d \in Seq(Nat) : d = <<a, b, k>> /\ Len(d) = 3 /\ d[1] = a /\ d[2] = b /\ d[3] = k
    <3>1. <<a, b, k>> \in Seq(Nat)
      OBVIOUS
    <3>2. QED
      BY <3>1
  <2>2. d \o m \in Seq(Nat) /\ Len(d \o m) = n + 3 /\ \A i \in 1 .. 3 : (d \o m)[i] = d[i]
    BY <1>2, <2>1
  <2>3. 1 \in 1 .. 3 /\ 2 \in 1 .. 3 /\ 3 \in 1 .. 3
    OBVIOUS
  <2>4. QED
    BY <2>1, <2>2, <2>3
<1>9. StoredBlock(h) = c
  BY <1>2, <1>4, <1>5, <1>7, <1>8 DEF StoredBlock
<1>10. QED
  BY <1>6, <1>7, <1>8, <1>9 DEF Marked

\* From one header to the next.
Hop(bytes, p) == IF p + 2 <= Len(bytes) /\ HeaderAt(bytes, p) THEN p + bytes[p + 2] ELSE p
Hops(F, bytes) == F = [n \in 0 .. Len(bytes) |-> IF n = 0 THEN 1 ELSE Hop(bytes, F[n - 1])]
Starts(bytes) == CHOOSE F : Hops(F, bytes)
There(bytes, n) == Starts(bytes)[n] + 2 <= Len(bytes) /\ HeaderAt(bytes, Starts(bytes)[n])
Count(bytes) == CHOOSE n \in 0 .. Len(bytes) :
                  ~There(bytes, n) /\ \A k \in 0 .. n - 1 : There(bytes, k)

LEMMA LoadStreamIs ==
  ASSUME NEW bytes, NEW multi
  PROVE  LoadStream(bytes, multi) =
           LET count == IF ~multi THEN 1 ELSE Count(bytes)
           IN  [headers |-> [n \in 1 .. count |->
                               SubSeq(bytes, Starts(bytes)[n - 1], Starts(bytes)[n] - 1)],
                rest    |-> SubSeq(bytes, Starts(bytes)[count] + (IF multi THEN 2 ELSE 0), Len(bytes))]
BY DEF LoadStream, Count, There, Starts, Hops, Hop

LEMMA HopsExist ==
  ASSUME NEW bytes \in Seq(Nat)
  PROVE  Hops(Starts(bytes), bytes)
<1> DEFINE step == [p \in Nat |-> Hop(bytes, p)]
<1>1. PICK top \in Nat : top = Len(bytes)
  OBVIOUS
<1>2. step \in [Nat -> Nat]
  <2> SUFFICES ASSUME NEW p \in Nat PROVE Hop(bytes, p) \in Nat
    OBVIOUS
  <2>1. PICK q \in Nat : q = p + 2
    OBVIOUS
  <2>2. CASE q <= top /\ HeaderAt(bytes, p)
    <3>1. bytes[q] \in Nat
      BY <1>1, <2>1, <2>2
    <3>2. p + bytes[q] \in Nat
      BY <3>1
    <3>3. QED
      BY <1>1, <2>1, <2>2, <3>2 DEF Hop
  <2>3. CASE ~(q <= top /\ HeaderAt(bytes, p))
    BY <1>1, <2>1, <2>3 DEF Hop
  <2>4. QED
    BY <2>2, <2>3
<1>3. \A p \in Nat : step[p] = Hop(bytes, p)
  OBVIOUS
<1> HIDE DEF step
<1>4. PICK F \in [0 .. top -> Nat] : Climbs(F, 1, step, top)
  BY <1>2, ClimbExists
<1>5. \A n \in 0 .. top : n # 0 => step[F[n - 1]] = Hop(bytes, F[n - 1])
  <2> SUFFICES ASSUME NEW n \in 0 .. top, n # 0 PROVE step[F[n - 1]] = Hop(bytes, F[n - 1])
    OBVIOUS
  <2>1. n - 1 \in 0 .. top
    OBVIOUS
  <2>2. F[n - 1] \in Nat
    BY <2>1
  <2>3. QED
    BY <1>3, <2>2
<1>6. F = [n \in 0 .. top |-> IF n = 0 THEN 1 ELSE Hop(bytes, F[n - 1])]
  BY <1>4, <1>5 DEF Climbs
<1>7. Hops(F, bytes)
  BY <1>1, <1>6 DEF Hops
<1>8. QED
  BY <1>7, Zenon DEF Starts

\* The bytes of the first i blocks.
Part(blocks, i) == FlattenSeq(SubSeq(blocks, 1, i))

\* The block i, with k blocks before it, stands at its place.
Stands(bytes, blocks, k, i) ==
  /\ Part(blocks, k) \in Seq(Nat)
  /\ Len(Part(blocks, i)) = Len(Part(blocks, k)) + Len(blocks[i])
  /\ Len(Part(blocks, i)) <= Len(bytes)
  /\ \A j \in 1 .. Len(blocks[i]) : bytes[Len(Part(blocks, k)) + j] = blocks[i][j]
  /\ SubSeq(bytes, Len(Part(blocks, k)) + 1, Len(Part(blocks, i))) = blocks[i]

LEMMA BeforeRest ==
  ASSUME NEW s \in Seq(Nat), NEW t \in Seq(Nat)
  PROVE  /\ s \o t \in Seq(Nat) /\ Len(s \o t) = Len(s) + Len(t)
         /\ \A j \in 1 .. Len(s) : (s \o t)[j] = s[j]
OBVIOUS

LEMMA BlockStands ==
  ASSUME NEW blocks \in Seq(Seq(Nat)), NEW rest \in Seq(Nat), NEW i \in 1 .. Len(blocks),
         NEW k \in Nat, i = k + 1, blocks[i] # <<>>
  PROVE  Stands(FlattenSeq(blocks) \o rest, blocks, k, i)
<1>0. PICK bytes : bytes = FlattenSeq(blocks) \o rest
  OBVIOUS
<1>1. PICK a \in Seq(Nat) : a = Part(blocks, k)
  <2>1. Part(blocks, k) \in Seq(Nat)
    BY FlattenPart DEF Part
  <2>2. QED
    BY <2>1, Zenon
<1>2. PICK b \in Seq(Nat) : b = blocks[i]
  OBVIOUS
<1>3. PICK c \in Seq(Nat) : c = FlattenSeq(SubSeq(blocks, i + 1, Len(blocks)))
  <2>1. FlattenSeq(SubSeq(blocks, i + 1, Len(blocks))) \in Seq(Nat)
    BY FlattenPart
  <2>2. QED
    BY <2>1, Zenon
<1>4. Part(blocks, i) = a \o b /\ FlattenSeq(blocks) = (a \o b) \o c
  BY <1>1, <1>2, <1>3, FlattenPart DEF Part
<1>5. PICK whole : whole = (a \o b) \o c
  OBVIOUS
<1>6. /\ whole \in Seq(Nat)
      /\ Len(whole) = Len(a) + Len(b) + Len(c)
      /\ \A j \in 1 .. Len(b) : whole[Len(a) + j] = b[j]
      /\ SubSeq(whole, Len(a) + 1, Len(a) + Len(b)) = b
  BY <1>5, Middle
<1>7. PICK x \in Nat, y \in Nat, z \in Nat :
        /\ x = Len(a) /\ y = Len(b) /\ z = Len(whole) /\ y > 0 /\ x + y <= z
  BY <1>2, <1>6
<1>8. /\ bytes = whole \o rest /\ z <= Len(bytes)
      /\ \A j \in 1 .. z : bytes[j] = whole[j]
  <2>1. /\ whole \o rest \in Seq(Nat) /\ Len(whole \o rest) = z + Len(rest)
        /\ \A j \in 1 .. z : (whole \o rest)[j] = whole[j]
    BY <1>6, <1>7, BeforeRest
  <2>2. bytes = whole \o rest
    BY <1>0, <1>4, <1>5
  <2>3. Len(rest) \in Nat
    BY LenProperties
  <2>4. z <= z + Len(rest)
    BY <2>3
  <2>5. QED
    BY <2>1, <2>2, <2>4
<1>9. SubSeq(bytes, x + 1, x + y) = b
  <2>1. PICK m \in 1 .. Len(whole), n \in 1 .. Len(whole) : m = x + 1 /\ n = x + y
    <3>1. x + 1 \in 1 .. Len(whole) /\ x + y \in 1 .. Len(whole)
      BY <1>7
    <3>2. QED
      BY <3>1, Zenon
  <2>2. SubSeq(whole \o rest, m, n) = SubSeq(whole, m, n)
    BY <1>6, SubSeqOfConcat1
  <2>3. QED
    BY <1>6, <1>7, <1>8, <2>1, <2>2
<1>10. \A j \in 1 .. y : bytes[x + j] = b[j]
  <2> SUFFICES ASSUME NEW j \in 1 .. y PROVE bytes[x + j] = b[j]
    OBVIOUS
  <2>1. x + j \in 1 .. z
    <3>1. x + y <= z
      BY <1>7
    <3>2. QED
      BY <3>1
  <2>2. bytes[x + j] = whole[x + j]
    BY <1>8, <2>1
  <2>3. whole[x + j] = b[j]
    BY <1>6, <1>7
  <2>4. QED
    BY <2>2, <2>3
<1>11. Len(Part(blocks, i)) = x + y
  <2>1. Len(a \o b) = Len(a) + Len(b)
    OBVIOUS
  <2>2. QED
    BY <1>4, <1>7, <2>1
<1>12. Stands(bytes, blocks, k, i)
  <2>1. x + y <= Len(bytes)
    BY <1>7, <1>8
  <2>2. QED
    BY <1>1, <1>2, <1>7, <1>9, <1>10, <1>11, <2>1 DEF Stands
<1>13. QED
  BY <1>0, <1>12

\* LoadStream comes by the start of every block.
AllMarked(blocks) == \A i \in 1 .. Len(blocks) : Marked(blocks[i])

Found(bytes, blocks, n) ==
  /\ n <= Len(bytes) /\ Starts(bytes)[n] = Len(Part(blocks, n)) + 1
  /\ n < Len(blocks) => There(bytes, n)

LEMMA HeadersFound ==
  ASSUME NEW blocks \in Seq(Seq(Nat)), AllMarked(blocks), NEW rest \in Seq(Nat),
         NEW n \in Nat, n <= Len(blocks)
  PROVE  Found(FlattenSeq(blocks) \o rest, blocks, n)
<1>0. PICK bytes \in Seq(Nat) : bytes = FlattenSeq(blocks) \o rest
  <2>1. FlattenSeq(blocks) \in Seq(Nat)
    BY FlattenType
  <2>2. FlattenSeq(blocks) \o rest \in Seq(Nat)
    BY <2>1
  <2>3. QED
    BY <2>2, Zenon
<1> DEFINE N == {m \in Nat : m <= Len(blocks) =>
                   /\ m <= Len(Part(blocks, m)) /\ Len(Part(blocks, m)) <= Len(bytes)
                   /\ Starts(bytes)[m] = Len(Part(blocks, m)) + 1}
<1>1. PICK top \in Nat, all \in Nat : top = Len(bytes) /\ all = Len(blocks)
  OBVIOUS
<1>2. Starts(bytes) = [m \in 0 .. top |-> IF m = 0 THEN 1 ELSE Hop(bytes, Starts(bytes)[m - 1])]
  BY <1>1, HopsExist DEF Hops
<1>3. 0 \in N
  <2>1. Part(blocks, 0) = <<>>
    <3>1. SubSeq(blocks, 1, 0) = <<>>
      BY SubSeqEmpty
    <3>2. QED
      BY <3>1, FlattenEmpty DEF Part
  <2>2. Starts(bytes)[0] = 1
    BY <1>2
  <2>3. Len(<<>>) = 0
    OBVIOUS
  <2>4. QED
    BY <1>1, <2>1, <2>2, <2>3
<1>4. ASSUME NEW k \in Nat, k < all, NEW p \in Nat, p = Len(Part(blocks, k)),
             Starts(bytes)[k] = p + 1, k <= p
      PROVE  There(bytes, k) /\ k + 1 \in N
  <2>1. PICK i \in 1 .. all : i = k + 1
    BY <1>4
  <2>2. PICK b \in Seq(Nat), l \in Nat : b = blocks[i] /\ l = Len(b) /\ Marked(b)
    BY <1>1 DEF AllMarked
  <2>0. Stands(bytes, blocks, k, i)
    <3>1. i \in 1 .. Len(blocks) /\ blocks[i] # <<>>
      BY <1>1, <2>2 DEF Marked
    <3>2. QED
      BY <1>0, <2>1, <3>1, BlockStands
  <2>3. PICK q \in Nat : q = Len(Part(blocks, i)) /\ q = p + l /\ q <= top
    <3>1. p + l \in Nat
      OBVIOUS
    <3>2. QED
      BY <1>1, <1>4, <2>0, <2>2, <3>1 DEF Stands
  <2>4. \A j \in 1 .. l : bytes[p + j] = b[j]
    BY <1>4, <2>0, <2>2 DEF Stands
  <2>5. l >= 3 /\ b[3] = l /\ (b[1] # 0 \/ b[2] # 0)
    BY <2>2 DEF Marked
  <2>6. bytes[p + 1] = b[1] /\ bytes[p + 2] = b[2] /\ bytes[p + 3] = b[3]
    <3>1. 1 \in 1 .. l /\ 2 \in 1 .. l /\ 3 \in 1 .. l
      BY <2>5
    <3>2. QED
      BY <2>4, <3>1
  <2>7. (p + 1) + 1 = p + 2 /\ (p + 1) + 2 = p + 3 /\ p + 3 <= top
    BY <2>3, <2>5
  <2>8. HeaderAt(bytes, p + 1)
    BY <2>5, <2>6, <2>7 DEF HeaderAt
  <2>9. There(bytes, k)
    BY <1>1, <1>4, <2>7, <2>8 DEF There
  <2>10. Hop(bytes, p + 1) = (p + 1) + l
    BY <1>1, <2>5, <2>6, <2>7, <2>8 DEF Hop
  <2>11. Starts(bytes)[i] = q + 1
    <3>1. i \in 0 .. top /\ i # 0 /\ i - 1 = k
      BY <1>4, <2>1, <2>3, <2>5
    <3>2. Starts(bytes)[i] = Hop(bytes, Starts(bytes)[k])
      BY <1>2, <3>1
    <3>3. (p + 1) + l = q + 1
      BY <2>3
    <3>4. QED
      BY <1>4, <2>10, <3>2, <3>3
  <2>12. i <= q
    BY <1>4, <2>1, <2>3, <2>5
  <2>13. i \in N
    <3>1. i \in Nat /\ i <= Len(Part(blocks, i)) /\ Len(Part(blocks, i)) <= Len(bytes)
      BY <1>1, <2>3, <2>12
    <3>2. Starts(bytes)[i] = Len(Part(blocks, i)) + 1
      BY <2>3, <2>11
    <3>3. QED
      BY <3>1, <3>2, Zenon
  <2>14. QED
    BY <2>1, <2>9, <2>13
<1>5. ASSUME NEW k \in N PROVE k + 1 \in N
  <2>1. k \in Nat
    OBVIOUS
  <2>2. CASE k < all
    <3>1. PICK p \in Nat : p = Len(Part(blocks, k)) /\ k <= p /\ Starts(bytes)[k] = p + 1
      <4>1. Part(blocks, k) \in Seq(Nat)
        <5>1. PICK i \in 1 .. Len(blocks) : i = k + 1
          BY <1>1, <2>2
        <5>2. QED
          BY <2>1, <5>1, FlattenPart DEF Part
      <4>2. Len(Part(blocks, k)) \in Nat
        BY <4>1
      <4>3. QED
        BY <1>1, <2>2, <4>2
    <3>2. QED
      BY <1>4, <2>1, <2>2, <3>1
  <2>3. CASE ~(k < all)
    <3>1. k + 1 \in Nat /\ ~(k + 1 <= Len(blocks))
      BY <1>1, <2>1, <2>3
    <3>2. QED
      BY <3>1
  <2>4. QED
    BY <2>2, <2>3
<1>6. N = Nat
  <2>1. N \in SUBSET Nat
    OBVIOUS
  <2> HIDE DEF N
  <2>2. QED
    BY <1>3, <1>5, <2>1, SetInduction
<1>7. PICK p : p = Len(Part(blocks, n)) /\ n <= p /\ p <= top /\ Starts(bytes)[n] = p + 1
  BY <1>1, <1>6
<1>8. p \in Nat
  <2>1. SubSeq(blocks, 1, n) \in Seq(Seq(Nat))
    BY SubSeqProperties
  <2>2. QED
    BY <1>7, <2>1, FlattenType DEF Part
<1>9. n < all => There(bytes, n)
  BY <1>4, <1>7, <1>8
<1>10. Found(bytes, blocks, n)
  BY <1>1, <1>7, <1>8, <1>9 DEF Found
<1>11. QED
  BY <1>0, <1>10

LEMMA Regroup ==
  ASSUME NEW a \in Seq(Nat), NEW b \in Seq(Nat), NEW c \in Seq(Nat)
  PROVE  (a \o b) \o c = a \o (b \o c) /\ b \o c \in Seq(Nat) /\ (a \o b) \o c \in Seq(Nat)
<1>1. (a \o b) \o c = a \o (b \o c)
  BY ConcatAssociative
<1>2. b \o c \in Seq(Nat) /\ a \o b \in Seq(Nat)
  OBVIOUS
<1>3. QED
  BY <1>1, <1>2

LEMMA PartIsAll ==
  ASSUME NEW blocks \in Seq(Seq(Nat))
  PROVE  Part(blocks, Len(blocks)) = FlattenSeq(blocks)
<1>1. SubSeq(blocks, 1, Len(blocks)) = blocks
  BY SubSeqFull
<1>2. QED
  BY <1>1 DEF Part

LEMMA Behind ==
  ASSUME NEW s \in Seq(Nat), NEW t \in Seq(Nat), Len(t) # 0
  PROVE  SubSeq(s \o t, Len(s) + 1, Len(s) + Len(t)) = t
<1>1. PICK n \in Nat, d \in Nat : n = Len(s) /\ d = Len(t) /\ d # 0
  OBVIOUS
<1>2. n + 1 \in n + 1 .. n + d /\ n + d \in n + 1 .. n + d
  BY <1>1
<1>3. SubSeq(s \o t, n + 1, n + d) = SubSeq(t, (n + 1) - n, (n + d) - n)
  <2>1. \A a, b \in Len(s) + 1 .. Len(s) + Len(t) :
          SubSeq(s \o t, a, b) = SubSeq(t, a - Len(s), b - Len(s))
    BY SubSeqOfConcat2, Zenon
  <2>2. QED
    BY <1>1, <1>2, <2>1, Zenon
<1>4. (n + 1) - n = 1 /\ (n + d) - n = d
  OBVIOUS
<1>5. SubSeq(t, 1, d) = t
  BY <1>1, SubSeqFull
<1>6. QED
  BY <1>1, <1>3, <1>4, <1>5

\* LoadStream stops at the two zero bytes, and what is behind them is the data.
LEMMA StreamLoads ==
  ASSUME NEW blocks \in Seq(Seq(Nat)), AllMarked(blocks),
         NEW end \in Seq(Nat), NEW data \in Seq(Nat), data # <<>>, NEW multi \in BOOLEAN,
         multi => end = <<0, 0>>, ~multi => end = <<>> /\ Len(blocks) = 1
  PROVE  LoadStream((FlattenSeq(blocks) \o end) \o data, multi) = [headers |-> blocks, rest |-> data]
<1>1. PICK all \in Seq(Nat) : all = FlattenSeq(blocks)
  <2>1. FlattenSeq(blocks) \in Seq(Nat)
    BY FlattenType
  <2>2. QED
    BY <2>1, Zenon
<1>2. PICK rest \in Seq(Nat), bytes \in Seq(Nat) :
        rest = end \o data /\ bytes = (all \o end) \o data /\ bytes = all \o rest
  <2>1. end \o data \in Seq(Nat) /\ (all \o end) \o data \in Seq(Nat)
        /\ (all \o end) \o data = all \o (end \o data)
    BY Regroup
  <2>2. QED
    BY <2>1
<1>3. PICK n \in Nat, l \in Nat, e \in Nat, d \in Nat :
        n = Len(blocks) /\ l = Len(all) /\ e = Len(end) /\ d = Len(data) /\ d # 0
  OBVIOUS
<1>4. Len(bytes) = l + e + d
  BY <1>2, <1>3
<1>4a. Len(rest) = e + d /\ \A j \in 1 .. e : rest[j] = end[j]
  BY <1>2, <1>3
<1>5. ASSUME NEW k \in Nat, k <= n
      PROVE  /\ Starts(bytes)[k] = Len(Part(blocks, k)) + 1 /\ n <= Len(bytes)
             /\ k < n => There(bytes, k)
  <2>1. bytes = FlattenSeq(blocks) \o rest
    BY <1>1, <1>2
  <2>2. k <= Len(blocks) /\ n <= Len(blocks)
    BY <1>3, <1>5
  <2>3. Found(FlattenSeq(blocks) \o rest, blocks, k) /\ Found(FlattenSeq(blocks) \o rest, blocks, n)
    BY <2>2, HeadersFound
  <2>4. QED
    BY <1>3, <2>1, <2>3 DEF Found
<1>6. Starts(bytes)[n] = l + 1 /\ n <= Len(bytes)
  BY <1>1, <1>3, <1>5, PartIsAll
<1>7. multi => Count(bytes) = n
  <2> SUFFICES ASSUME multi PROVE Count(bytes) = n
    OBVIOUS
  <2>1. rest[1] = 0 /\ rest[2] = 0 /\ Len(rest) = 2 + d
    <3>1. end = <<0, 0>>
      OBVIOUS
    <3>2. Len(end) = 2 /\ end[1] = 0 /\ end[2] = 0
      BY <3>1
    <3>3. 1 \in 1 .. e /\ 2 \in 1 .. e /\ e = 2
      BY <1>3, <3>2
    <3>4. QED
      BY <1>4a, <3>2, <3>3
  <2>2. bytes[l + 1] = 0 /\ bytes[l + 2] = 0
    <3>1. 1 \in 1 .. Len(rest) /\ 2 \in 1 .. Len(rest)
      BY <2>1
    <3>2. \A j \in 1 .. Len(rest) : (all \o rest)[l + j] = rest[j]
      BY <1>3
    <3>3. QED
      BY <1>2, <2>1, <3>1, <3>2
  <2>3. ~There(bytes, n)
    <3>1. (l + 1) + 1 = l + 2
      OBVIOUS
    <3>2. ~HeaderAt(bytes, l + 1)
      BY <2>2, <3>1 DEF HeaderAt
    <3>3. QED
      BY <1>6, <3>2 DEF There
  <2>4. \A k \in 0 .. n - 1 : There(bytes, k)
    BY <1>5
  <2>5. n \in 0 .. Len(bytes)
    BY <1>6
  <2>6. \A m \in 0 .. Len(bytes) :
          ~There(bytes, m) /\ (\A k \in 0 .. m - 1 : There(bytes, k)) => m = n
    <3> SUFFICES ASSUME NEW m \in 0 .. Len(bytes), ~There(bytes, m),
                        \A k \in 0 .. m - 1 : There(bytes, k)
                 PROVE  m = n
      OBVIOUS
    <3>1. ~(m < n)
      BY <2>4
    <3>2. ~(n < m)
      BY <2>3
    <3>3. QED
      BY <3>1, <3>2
  <2>7. QED
    BY <2>3, <2>4, <2>5, <2>6 DEF Count
<1>8. PICK u : u = [k \in 1 .. n |-> SubSeq(bytes, Starts(bytes)[k - 1], Starts(bytes)[k] - 1)]
  OBVIOUS
<1>9. u = blocks
  <2>1. ASSUME NEW i \in 1 .. n
        PROVE  SubSeq(bytes, Starts(bytes)[i - 1], Starts(bytes)[i] - 1) = blocks[i]
    <3>1. PICK k \in Nat : k = i - 1 /\ i = k + 1 /\ k <= n
      OBVIOUS
    <3>2. blocks[i] # <<>> /\ i \in 1 .. Len(blocks)
      BY <1>3 DEF AllMarked, Marked
    <3>3. Stands(bytes, blocks, k, i)
      BY <1>1, <1>2, <3>1, <3>2, BlockStands
    <3>4. Starts(bytes)[k] = Len(Part(blocks, k)) + 1 /\ Starts(bytes)[i] = Len(Part(blocks, i)) + 1
      BY <1>5, <3>1
    <3>5. PICK p \in Nat, b \in Seq(Nat) : p = Len(Part(blocks, k)) /\ b = blocks[i]
      <4>1. Len(Part(blocks, k)) \in Nat
        BY <3>3 DEF Stands
      <4>2. blocks[i] \in Seq(Nat)
        BY <3>2
      <4>3. QED
        BY <4>1, <4>2, Zenon
    <3>6. Len(Part(blocks, i)) = p + Len(b) /\ SubSeq(bytes, p + 1, Len(Part(blocks, i))) = b
      BY <3>3, <3>5 DEF Stands
    <3>7. Starts(bytes)[i] - 1 = Len(Part(blocks, i))
      BY <3>4, <3>6
    <3>8. QED
      BY <3>1, <3>4, <3>5, <3>6, <3>7
  <2>2. blocks = [k \in 1 .. n |-> blocks[k]]
    BY <1>3
  <2>3. QED
    BY <1>8, <2>1, <2>2
<1>10. SubSeq(bytes, (l + 1) + e, Len(bytes)) = data
  <2>1. PICK s \in Seq(Nat) : s = all \o end
    <3>1. all \o end \in Seq(Nat)
      OBVIOUS
    <3>2. QED
      BY <3>1, Zenon
  <2>2. PICK f \in Nat : f = Len(s) /\ f = l + e
    <3>1. Len(all \o end) = Len(all) + Len(end)
      BY ConcatProperties
    <3>2. Len(s) = l + e /\ l + e \in Nat
      BY <1>3, <2>1, <3>1
    <3>3. QED
      BY <3>2
  <2>3. (l + 1) + e = f + 1 /\ Len(bytes) = f + d
    BY <1>4, <2>2
  <2>4. SubSeq(s \o data, Len(s) + 1, Len(s) + Len(data)) = data
    BY <1>3, Behind
  <2>5. QED
    BY <1>2, <1>3, <2>1, <2>2, <2>3, <2>4
<1>11. (IF ~multi THEN 1 ELSE Count(bytes)) = n /\ e = (IF multi THEN 2 ELSE 0)
  <2>1. Len(<<0, 0>>) = 2 /\ Len(<<>>) = 0
    OBVIOUS
  <2>2. QED
    BY <1>3, <1>7, <2>1
<1>12. LoadStream(bytes, multi) =
         [headers |-> u, rest |-> SubSeq(bytes, Starts(bytes)[n] + e, Len(bytes))]
  BY <1>8, <1>11, LoadStreamIs
<1>13. QED
  BY <1>1, <1>2, <1>6, <1>9, <1>10, <1>12

LEMMA BlocksMarked ==
  ASSUME SearchInv
  PROVE  LET blocks == [i \in DOMAIN headers |-> StoredBlock(headers[i])]
         IN  /\ blocks \in Seq(Seq(Nat)) /\ Len(blocks) = Len(headers)
             /\ AllMarked(blocks)
<1>1. PICK n \in Nat : n = Len(headers) /\ DOMAIN headers = 1 .. n
  BY DEF SearchInv
<1>2. PICK s : s = [i \in DOMAIN headers |-> StoredBlock(headers[i])]
  OBVIOUS
<1>3. \A i \in 1 .. n : s[i] \in Seq(Nat) /\ Marked(s[i])
  BY <1>1, <1>2, StoredIs DEF SearchInv
<1>4. s = [i \in 1 .. n |-> s[i]]
  BY <1>1, <1>2
<1>5. s \in Seq(Seq(Nat)) /\ Len(s) = n
  BY <1>3, <1>4
<1>6. QED
  BY <1>1, <1>2, <1>3, <1>5 DEF AllMarked

\* LoadStream finds every header and the start of the data in a packed stream,
\* whatever zero bytes lengths and data hold.
THEOREM StreamReadsBack == Spec => []StreamParses
<1>1. SearchInv => StreamParses
  <2> SUFFICES ASSUME SearchInv, packed
               PROVE  LoadStream(StoredHeaders(headers, Multi) \o Payload, Multi)
                        = [headers |-> [i \in DOMAIN headers |-> StoredBlock(headers[i])],
                           rest    |-> Payload]
    BY DEF StreamParses
  <2>1. PICK blocks \in Seq(Seq(Nat)) :
          /\ blocks = [i \in DOMAIN headers |-> StoredBlock(headers[i])]
          /\ Len(blocks) = Len(headers) /\ AllMarked(blocks)
    BY BlocksMarked
  <2>2. PICK end \in Seq(Nat) : end = (IF Multi THEN <<0, 0>> ELSE <<>>)
    <3>1. <<0, 0>> \in Seq(Nat) /\ <<>> \in Seq(Nat)
      OBVIOUS
    <3>2. QED
      BY <3>1
  <2>3. ~Multi => Len(blocks) = 1
    <3>1. Len(headers) # 0
      BY DEF SearchInv
    <3>2. QED
      BY <2>1, <3>1 DEF SearchInv
  <2>4. Payload \in Seq(Nat) /\ Payload # <<>>
    BY ModelAssumption DEF Payload
  <2>5. Multi \in BOOLEAN
    BY SearchAssumption
  <2>6. LoadStream((FlattenSeq(blocks) \o end) \o Payload, Multi) = [headers |-> blocks, rest |-> Payload]
    BY <2>1, <2>2, <2>3, <2>4, <2>5, StreamLoads
  <2>7. StoredHeaders(headers, Multi) = FlattenSeq(blocks) \o end
    BY <2>1, <2>2 DEF StoredHeaders
  <2>8. QED
    BY <2>1, <2>6, <2>7
<1>2. QED
  BY <1>1, SearchAlways, PTL

-----------------------------------------------------------------------------
(* The unpacker walks through one block.                                   *)

Rooting == [model : Int, weight : Nat]
Walked == [ch : Nat, over : BOOLEAN, models : Seq(Rooting)]

LEMMA RootedType ==
  ASSUME NEW models \in Seq(Rooting)
  PROVE  Rooted(models) \in Seq(Rooting)
<1>1. PICK n \in Nat : n = Len(models) /\ DOMAIN models = 1 .. n
  OBVIOUS
<1>2. \A i \in 1 .. n : [models[i] EXCEPT !.weight = @ + 1] \in Rooting
  <2> SUFFICES ASSUME NEW i \in 1 .. n PROVE [models[i] EXCEPT !.weight = @ + 1] \in Rooting
    OBVIOUS
  <2>1. PICK m \in Rooting : m = models[i]
    BY <1>1
  <2>2. PICK a \in Int, w \in Nat : m = [model |-> a, weight |-> w]
    BY DEF Rooting
  <2>3. [m EXCEPT !.weight = @ + 1] = [model |-> a, weight |-> w + 1]
    BY <2>2
  <2>4. QED
    BY <2>1, <2>3 DEF Rooting
<1>3. Rooted(models) \in [1 .. n -> Rooting]
  BY <1>1, <1>2 DEF Rooted
<1>4. QED
  BY <1>3

LEMMA AsmStepIs ==
  ASSUME NEW acc \in Walked, NEW byte \in Nat
  PROVE  LET ready == IF acc.ch >= byte THEN Rooted(acc.models) ELSE acc.models
         IN  /\ AsmStep(acc, byte) \in Walked
             /\ acc.over => AsmStep(acc, byte) = acc
             /\ ~acc.over /\ acc.ch = byte =>
                  /\ AsmStep(acc, byte).ch = byte /\ ~AsmStep(acc, byte).over
                  /\ AsmStep(acc, byte).models = Rooted(acc.models)
             /\ ~acc.over /\ acc.ch # byte /\ byte = 0 =>
                  AsmStep(acc, byte).over /\ AsmStep(acc, byte).models = ready
             /\ ~acc.over /\ acc.ch # byte /\ byte # 0 =>
                  /\ AsmStep(acc, byte).ch = byte /\ ~AsmStep(acc, byte).over
                  /\ AsmStep(acc, byte).models = Append(ready, Model(ByteMax - byte, 0))
<1> DEFINE ready == IF acc.ch >= byte THEN Rooted(acc.models) ELSE acc.models
           step == IF acc.over THEN acc
                   ELSE IF acc.ch = byte THEN [acc EXCEPT !.models = Rooted(acc.models)]
                   ELSE IF byte = 0 THEN [acc EXCEPT !.models = ready, !.over = TRUE]
                   ELSE [ch |-> byte, over |-> FALSE,
                         models |-> Append(ready, Model(ByteMax - byte, 0))]
<1>1. AsmStep(acc, byte) = step
  BY DEF AsmStep, Rooted
<1>2. acc.models \in Seq(Rooting) /\ acc.ch \in Nat /\ acc.over \in BOOLEAN
  BY DEF Walked
<1>3. Rooted(acc.models) \in Seq(Rooting)
  BY <1>2, RootedType
<1>4. ready \in Seq(Rooting)
  BY <1>2, <1>3
<1>5. Model(ByteMax - byte, 0) \in Rooting
  BY ModelAssumption DEF Model, Rooting
<1>6. Append(ready, Model(ByteMax - byte, 0)) \in Seq(Rooting)
  BY <1>4, <1>5
<1>7. step \in Walked
  BY <1>2, <1>3, <1>4, <1>6 DEF Walked
<1>8. QED
  BY <1>1, <1>2, <1>7 DEF Walked

Walking == [p \in Walked \X Nat |-> AsmStep(p[1], p[2])]
First(b) == [ch |-> b, over |-> FALSE, models |-> <<Model(ByteMax - b, 0)>>]
Walk(b, s) == FoldLeft(AsmStep, First(b), s)

LEMMA WalkingKeeps ==
  ASSUME NEW b \in Nat
  PROVE  Keeps(Walking, First(b), Walked, Nat)
<1>1. First(b) \in Walked
  <2>1. Model(ByteMax - b, 0) \in Rooting
    BY ModelAssumption DEF Model, Rooting
  <2>2. <<Model(ByteMax - b, 0)>> \in Seq(Rooting)
    BY <2>1
  <2>3. QED
    BY <2>2 DEF First, Walked
<1>2. \A p \in Walked \X Nat : AsmStep(p[1], p[2]) \in Walked
  BY AsmStepIs
<1>3. QED
  BY <1>1, <1>2 DEF Keeps, Walking

LEMMA WalkIsFold ==
  ASSUME NEW b \in Nat, NEW s \in Seq(Nat)
  PROVE  Walk(b, s) = Fold(Walking, First(b), s)
<1> DEFINE n == Len(s)
           Steps(F) == F = [S \in SUBSET (1 .. n) |->
                              IF S = {} THEN First(b) ELSE AsmStep(F[S \ {Max(S)}], s[Max(S)])]
           G == CHOOSE F : Steps(F)
<1>1. n \in Nat /\ DOMAIN s = 1 .. n /\ \A i \in 1 .. n : s[i] \in Nat
  OBVIOUS
<1>2. Walk(b, s) = G[1 .. n]
  BY <1>1 DEF Walk, FoldLeft, MapThenFoldSet
<1>3. ASSUME NEW F, NEW S \in SUBSET (1 .. n), S # {}, F[S \ {Max(S)}] \in Walked
      PROVE  Walking[<<F[S \ {Max(S)}], s[Max(S)]>>] = AsmStep(F[S \ {Max(S)}], s[Max(S)])
  <2>1. s[Max(S)] \in Nat
    BY <1>1, <1>3, GreatestIndex
  <2>2. QED
    BY <1>3, <2>1 DEF Walking
<1>4. Steps(G)
  <2>1. PICK H \in [SUBSET (1 .. n) -> Walked] : Run(H, Walking, First(b), s)
    BY WalkingKeeps, RunExists
  <2>2. \A S \in SUBSET (1 .. n) : H[S \ {Max(S)}] \in Walked
    OBVIOUS
  <2>3. Steps(H)
    BY <1>3, <2>1, <2>2 DEF Run, RunTo
  <2>4. QED
    BY <2>3
<1>5. Unrolls(G, Walking, First(b), Walked, s)
  <2>1. G[{}] = First(b)
    BY <1>4
  <2>2. \A S \in SUBSET (1 .. n) : S # {} => G[S] = AsmStep(G[S \ {Max(S)}], s[Max(S)])
    BY <1>4
  <2> HIDE DEF G
  <2>3. QED
    BY <1>3, <2>1, <2>2 DEF Unrolls
<1> HIDE DEF G
<1>6. QED
  BY <1>2, <1>5, WalkingKeeps, UnrollsIs

LEMMA WalkEmpty ==
  ASSUME NEW b \in Nat
  PROVE  Walk(b, <<>>) = First(b)
<1>1. <<>> \in Seq(Nat)
  OBVIOUS
<1>2. Walk(b, <<>>) = Fold(Walking, First(b), <<>>)
  BY <1>1, WalkIsFold
<1>3. Fold(Walking, First(b), <<>>) = First(b)
  BY WalkingKeeps, FoldEmpty
<1>4. QED
  BY <1>2, <1>3

LEMMA WalkAppend ==
  ASSUME NEW b \in Nat, NEW s \in Seq(Nat), NEW x \in Nat
  PROVE  /\ Walk(b, s) \in Walked
         /\ Walk(b, Append(s, x)) = AsmStep(Walk(b, s), x)
<1>1. Append(s, x) \in Seq(Nat)
  OBVIOUS
<1>2. /\ Walk(b, Append(s, x)) = Fold(Walking, First(b), Append(s, x))
      /\ Walk(b, s) = Fold(Walking, First(b), s)
  BY <1>1, WalkIsFold
<1>3. Fold(Walking, First(b), Append(s, x)) = Walking[<<Fold(Walking, First(b), s), x>>]
  BY WalkingKeeps, FoldAppend
<1>4. Fold(Walking, First(b), s) \in Walked
  BY WalkingKeeps, FoldType
<1>5. Walking[<<Fold(Walking, First(b), s), x>>] = AsmStep(Fold(Walking, First(b), s), x)
  BY <1>4 DEF Walking
<1>6. QED
  BY <1>2, <1>3, <1>4, <1>5

\* The unpacker knows what the decoder knows.
Follows(acc, read) ==
  /\ ~acc.over /\ acc.ch = ByteMax - read.model /\ acc.models = read.models
  /\ read.model \in Numbers

LEMMA ComplementIs == \A x \in Numbers : ByteMax - x \in Nat /\ ByteMax - x # 0 /\ ByteMax - (ByteMax - x) = x
BY ModelAssumption DEF Numbers

LEMMA FollowFirst ==
  ASSUME NEW x \in Numbers
  PROVE  Follows(First(ByteMax - x), DecodeStep(Nothing, x))
<1>1. ~(x >= NoModel) /\ x # NoModel /\ x \in Nat
  BY ModelAssumption DEF Numbers, NoModel
<1>2. PICK acc \in Read : acc = Nothing /\ acc.model = NoModel /\ acc.models = <<>>
  BY NothingIs, Zenon
<1>3. DecodeStep(acc, x).model = x /\ DecodeStep(acc, x).models = Append(<<>>, Model(x, 0))
  <2>1. ~(x >= acc.model) /\ x # acc.model
    BY <1>1, <1>2
  <2>2. DecodeStep(acc, x).model = x /\ DecodeStep(acc, x).models = Append(acc.models, Model(x, 0))
    BY <1>1, <2>1, DecodeStepIs
  <2>3. QED
    BY <1>2, <2>2
<1>4. Append(<<>>, Model(x, 0)) = <<Model(ByteMax - (ByteMax - x), 0)>>
  BY ComplementIs
<1>5. QED
  BY <1>2, <1>3, <1>4 DEF Follows, First

LEMMA FollowStep ==
  ASSUME NEW acc \in Walked, NEW read \in Read, Follows(acc, read), NEW x \in Numbers
  PROVE  Follows(AsmStep(acc, ByteMax - x), DecodeStep(read, x))
<1>1. PICK y \in Numbers : y = read.model
  BY DEF Follows
<1>2. PICK c \in Nat : c = ByteMax - x /\ c # 0 /\ ByteMax - c = x
  BY ComplementIs
<1>3. ~acc.over /\ acc.ch = ByteMax - y /\ acc.models = read.models /\ x \in Nat
  BY <1>1 DEF Follows, Numbers
<1>4. (acc.ch >= c <=> x >= read.model) /\ (acc.ch = c <=> x = read.model)
  BY <1>1, <1>2, <1>3, ModelAssumption DEF Numbers
<1>5. PICK ms \in Seq(Weighted) : ms = read.models
  BY DEF Read
<1>6. Rooted(acc.models) = Doubled(read.models, 1)
  BY <1>3, <1>5, RootedIs
<1>7. PICK ready : /\ ready = IF acc.ch >= c THEN Rooted(acc.models) ELSE acc.models
                   /\ ready = IF x >= read.model THEN Doubled(read.models, 1) ELSE read.models
  BY <1>3, <1>4, <1>6
<1>8. /\ DecodeStep(read, x).model = x
      /\ DecodeStep(read, x).models = IF x = read.model THEN ready ELSE Append(ready, Model(x, 0))
  <2>1. x \in Nat
    BY <1>3
  <2>2. /\ DecodeStep(read, x).model = x
        /\ DecodeStep(read, x).models =
             LET r == IF x >= read.model THEN Doubled(read.models, 1) ELSE read.models
             IN  IF x = read.model THEN r ELSE Append(r, Model(x, 0))
    BY <2>1, DecodeStepIs
  <2>3. QED
    BY <1>7, <2>2, Zenon
<1>9. CASE acc.ch = c
  <2>1. ready = Rooted(acc.models)
    <3>1. x >= read.model
      BY <1>1, <1>3, <1>4, <1>9 DEF Numbers
    <3>2. QED
      BY <1>6, <1>7, <3>1
  <2>2. /\ AsmStep(acc, c).ch = c /\ ~AsmStep(acc, c).over
        /\ AsmStep(acc, c).models = Rooted(acc.models)
    BY <1>3, <1>9, AsmStepIs
  <2>3. QED
    BY <1>2, <1>4, <1>8, <1>9, <2>1, <2>2 DEF Follows
<1>10. CASE acc.ch # c
  <2>1. /\ AsmStep(acc, c).ch = c /\ ~AsmStep(acc, c).over
        /\ AsmStep(acc, c).models
             = Append(IF acc.ch >= c THEN Rooted(acc.models) ELSE acc.models, Model(ByteMax - c, 0))
    BY <1>2, <1>3, <1>10, AsmStepIs
  <2>2. AsmStep(acc, c).models = Append(ready, Model(x, 0))
    BY <1>2, <1>7, <2>1
  <2>3. QED
    BY <1>2, <1>4, <1>8, <1>10, <2>1, <2>2 DEF Follows
<1>11. QED
  BY <1>9, <1>10

LEMMA FollowEnd ==
  ASSUME NEW acc \in Walked, NEW read \in Read, Follows(acc, read)
  PROVE  AsmStep(acc, 0).over /\ AsmStep(acc, 0).models = Doubled(read.models, 1)
<1>1. PICK y \in Numbers : y = read.model
  BY DEF Follows
<1>2. ~acc.over /\ acc.ch = ByteMax - y /\ acc.models = read.models
  BY <1>1 DEF Follows
<1>3. acc.ch # 0 /\ acc.ch >= 0
  BY <1>2, ComplementIs
<1>4. PICK ms \in Seq(Weighted) : ms = read.models
  BY DEF Read
<1>5. Rooted(acc.models) = Doubled(read.models, 1)
  BY <1>2, <1>4, RootedIs
<1>6. PICK byte \in Nat : byte = 0
  OBVIOUS
<1>7. /\ AsmStep(acc, byte).over
      /\ AsmStep(acc, byte).models = IF acc.ch >= byte THEN Rooted(acc.models) ELSE acc.models
  BY <1>2, <1>3, <1>6, AsmStepIs
<1>8. QED
  BY <1>3, <1>5, <1>6, <1>7

\* u starts with the complements of the numbers t, and then a zero.
Opens(u, t) ==
  /\ Len(u) > Len(t) /\ u[Len(t) + 1] = 0
  /\ \A i \in 1 .. Len(t) : u[i] = ByteMax - t[i]

\* Walking over a block, whatever is behind it, is decoding it; the zero doubles
\* once more.
LEMMA WalkIs ==
  ASSUME NEW t \in Seq(Numbers), t # <<>>, NEW u \in Seq(Nat), Opens(u, t)
  PROVE  AsmWalk(u) = Doubled(Decoded(t).models, 1)
<1>1. PICK m \in Nat : m = Len(t) /\ m # 0
  OBVIOUS
<1>2. PICK v \in Seq(Nat), l \in Nat :
        v = Tail(u) /\ l = Len(v) /\ l >= m /\ \A i \in 1 .. l : v[i] = u[i + 1]
  <2>1. u # <<>>
    BY <1>1 DEF Opens
  <2>2. Tail(u) \in Seq(Nat) /\ Len(Tail(u)) = Len(u) - 1
        /\ \A i \in 1 .. Len(Tail(u)) : Tail(u)[i] = u[i + 1]
    BY <2>1
  <2>3. Len(Tail(u)) >= m /\ Len(Tail(u)) \in Nat
    BY <1>1, <2>2 DEF Opens
  <2>4. QED
    BY <2>2, <2>3, Zenon
<1>3. PICK b \in Nat : b = u[1] /\ b = ByteMax - t[1] /\ t[1] \in Numbers
  <2>1. 1 \in 1 .. Len(t) /\ 1 \in 1 .. Len(u)
    BY <1>1 DEF Opens
  <2>2. u[1] = ByteMax - t[1] /\ u[1] \in Nat /\ t[1] \in Numbers
    BY <2>1 DEF Opens
  <2>3. QED
    BY <2>2, Zenon
<1>4. t \in Seq(Nat)
  <2>1. Numbers \subseteq Nat
    BY DEF Numbers
  <2>2. QED
    BY <2>1, SeqMonotonic
<1> DEFINE At(k) == Walk(b, SubSeq(v, 1, k))
           N == {k \in Nat : k <= l =>
                   /\ k < m => Follows(At(k), Decoded(SubSeq(t, 1, k + 1)))
                   /\ k >= m => At(k).over /\ At(k).models = Doubled(Decoded(t).models, 1)}
<1>5. 0 \in N
  <2>1. At(0) = First(b)
    <3>1. SubSeq(v, 1, 0) = <<>>
      BY SubSeqEmpty
    <3>2. QED
      BY <3>1, WalkEmpty
  <2>2. Decoded(SubSeq(t, 1, 0 + 1)) = DecodeStep(Nothing, t[1])
    <3>1. SubSeq(t, 1, 0 + 1) = Append(<<>>, t[1])
      <4>1. SubSeq(t, 1, 0 + 1) = Append(SubSeq(t, 1, 0), t[0 + 1])
        BY <1>1, Grow
      <4>2. SubSeq(t, 1, 0) = <<>>
        BY SubSeqEmpty
      <4>3. 0 + 1 = 1
        OBVIOUS
      <4>4. QED
        BY <4>1, <4>2, <4>3, Zenon
    <3>2. <<>> \in Seq(Nat) /\ t[1] \in Nat
      BY <1>3 DEF Numbers
    <3>3. QED
      BY <3>1, <3>2, DecodedAppend, DecodedEmpty
  <2>3. Follows(First(b), DecodeStep(Nothing, t[1]))
    BY <1>3, FollowFirst
  <2>4. ~(0 >= m)
    BY <1>1
  <2> HIDE DEF At
  <2>5. QED
    BY <2>1, <2>2, <2>3, <2>4
<1>6. ASSUME NEW k \in N PROVE k + 1 \in N
  <2>1. PICK j \in Nat : j = k + 1 /\ k \in Nat
    OBVIOUS
  <2>2. ASSUME j <= l
        PROVE  /\ j < m => Follows(At(j), Decoded(SubSeq(t, 1, j + 1)))
               /\ j >= m => At(j).over /\ At(j).models = Doubled(Decoded(t).models, 1)
    <3>1. PICK s \in Seq(Nat), x \in Nat :
            s = SubSeq(v, 1, k) /\ x = v[j] /\ SubSeq(v, 1, j) = Append(s, x)
      <4>1. k + 1 <= Len(v)
        BY <1>2, <2>1, <2>2
      <4>2. SubSeq(v, 1, k + 1) = Append(SubSeq(v, 1, k), v[k + 1]) /\ SubSeq(v, 1, k) \in Seq(Nat)
            /\ v[k + 1] \in Nat
        BY <2>1, <4>1, Grow
      <4>3. QED
        BY <2>1, <4>2
    <3>2. PICK acc \in Walked : acc = At(k) /\ At(j) = AsmStep(acc, x)
      <4>1. Walk(b, s) \in Walked /\ Walk(b, Append(s, x)) = AsmStep(Walk(b, s), x)
        BY WalkAppend
      <4>2. QED
        BY <3>1, <4>1
    <3> HIDE DEF At
    <3>3. x = u[j + 1]
      BY <1>2, <2>1, <2>2, <3>1
    <3>4. CASE j < m
      <4>1. PICK p \in Seq(Nat), y \in Numbers :
              p = SubSeq(t, 1, j) /\ y = t[j + 1] /\ SubSeq(t, 1, j + 1) = Append(p, y)
        <5>1. j + 1 <= Len(t)
          BY <1>1, <3>4
        <5>2. SubSeq(t, 1, j + 1) = Append(SubSeq(t, 1, j), t[j + 1]) /\ SubSeq(t, 1, j) \in Seq(Nat)
          BY <1>4, <5>1, Grow
        <5>3. t[j + 1] \in Numbers
          BY <5>1
        <5>4. QED
          BY <5>2, <5>3, Zenon
      <4>2. x = ByteMax - y
        <5>1. j + 1 \in 1 .. Len(t)
          BY <1>1, <3>4
        <5>2. QED
          BY <3>3, <4>1, <5>1 DEF Opens
      <4>3. y \in Nat
        BY DEF Numbers
      <4>4. PICK read \in Read : read = Decoded(p) /\ Decoded(Append(p, y)) = DecodeStep(read, y)
        BY <4>3, DecodedAppend
      <4>5. Follows(acc, read)
        <5>1. k <= l /\ k < m
          BY <2>1, <2>2, <3>4
        <5>2. Follows(At(k), Decoded(SubSeq(t, 1, k + 1)))
          BY <5>1
        <5>3. QED
          BY <2>1, <3>2, <4>1, <4>4, <5>2
      <4>6. Follows(AsmStep(acc, x), DecodeStep(read, y))
        BY <4>2, <4>5, FollowStep
      <4>7. ~(j >= m)
        BY <3>4
      <4>8. QED
        BY <3>2, <4>1, <4>4, <4>6, <4>7
    <3>5. CASE j = m
      <4>1. x = 0
        BY <1>1, <3>3, <3>5 DEF Opens
      <4>2. SubSeq(t, 1, j) = t
        BY <1>1, <3>5, SubSeqFull
      <4>3. Follows(acc, Decoded(t))
        <5>1. k <= l /\ k < m
          BY <2>1, <2>2, <3>5
        <5>2. Follows(At(k), Decoded(SubSeq(t, 1, k + 1)))
          BY <5>1
        <5>3. QED
          BY <2>1, <3>2, <4>2, <5>2
      <4>4. Decoded(t) \in Read
        BY <1>4, DecodedAppend
      <4>5. AsmStep(acc, 0).over /\ AsmStep(acc, 0).models = Doubled(Decoded(t).models, 1)
        BY <4>3, <4>4, FollowEnd
      <4>6. ~(j < m)
        BY <3>5
      <4>7. QED
        BY <3>2, <4>1, <4>5, <4>6
    <3>6. CASE j > m
      <4>1. k <= l /\ k >= m /\ ~(j < m)
        BY <2>1, <2>2, <3>6
      <4>2. acc.over /\ acc.models = Doubled(Decoded(t).models, 1)
        BY <3>2, <4>1
      <4>3. AsmStep(acc, x) = acc
        BY <4>2, AsmStepIs
      <4>4. QED
        BY <3>2, <4>1, <4>2, <4>3
    <3>7. QED
      BY <3>4, <3>5, <3>6
  <2> HIDE DEF At
  <2>3. j \in N
    BY <2>2
  <2>4. QED
    BY <2>1, <2>3
<1>7. l \in N
  <2>1. N \in SUBSET Nat
    OBVIOUS
  <2> HIDE DEF N
  <2>2. N = Nat
    BY <1>5, <1>6, <2>1, SetInduction
  <2>3. QED
    BY <2>2
<1>8. At(l).models = Doubled(Decoded(t).models, 1)
  <2> HIDE DEF At
  <2>1. l <= l /\ l >= m
    BY <1>2
  <2>2. QED
    BY <1>7, <2>1
<1>9. At(l) = Walk(b, v)
  <2>1. SubSeq(v, 1, l) = v
    BY <1>2, SubSeqFull
  <2>2. QED
    BY <2>1
<1>10. AsmWalk(u) = Walk(b, v).models
  BY <1>2, <1>3 DEF AsmWalk, Walk, First
<1>11. QED
  BY <1>8, <1>9, <1>10

-----------------------------------------------------------------------------
(* The unpacker skips from block to block.                                 *)

\* The last byte of a header repeats the one before.
LEMMA HeaderEnds ==
  ASSUME NEW h, HeaderOf(h)
  PROVE  \E t \in Seq(Numbers), x \in Numbers :
           /\ t # <<>> /\ h.models = Append(t, x)
           /\ DecodeModels(h.models) = Doubled(Decoded(t).models, 1)
<1>1. PICK size \in Sizes, models \in Sets : h = Header(size, models)
  BY DEF HeaderOf
<1>2. PICK order \in Seq(Entries), b \in Seq(Nat), kw \in Nat \ {0}, km \in Numbers :
        /\ EncodeModels(models) = b \o Copies(kw, km)
        /\ Decoded(b).model = km /\ b \in Seq(Numbers) /\ b # <<>>
  BY HeaderIs
<1>3. PICK r \in Nat, x \in Nat : kw = r + 1 /\ x = km
  <2>1. kw - 1 \in Nat /\ kw = (kw - 1) + 1 /\ km \in Nat
    BY DEF Numbers
  <2>2. QED
    BY <2>1
<1>4. PICK t \in Seq(Numbers) : t = b \o Copies(r, km) /\ t # <<>>
  <2>1. b \o Copies(r, km) \in Seq(Numbers)
    BY <1>2, NumbersOnly
  <2>2. b \o Copies(r, km) # <<>>
    <3>1. PICK c \in Seq(Numbers) : c = Copies(r, km)
      <4>1. Copies(r, km) \in [1 .. r -> Numbers]
        BY DEF Copies
      <4>2. Copies(r, km) \in Seq(Numbers)
        BY <4>1
      <4>3. QED
        BY <4>2, Zenon
    <3>2. Len(b \o c) = Len(b) + Len(c) /\ Len(b) # 0 /\ Len(b) \in Nat /\ Len(c) \in Nat
      BY <1>2
    <3>3. QED
      BY <3>1, <3>2
  <2>3. QED
    BY <2>1, <2>2, Zenon
<1>5. h.models = Append(t, km)
  <2>1. b \o Copies(r + 1, x) = Append(b \o Copies(r, x), x)
    BY CopiesIs
  <2>2. QED
    BY <1>1, <1>2, <1>3, <1>4, <2>1 DEF Header
<1>6. t \in Seq(Nat)
  <2>1. b \o Copies(r, x) \in Seq(Nat)
    BY CopiesIs
  <2>2. QED
    BY <1>3, <1>4, <2>1
<1>7. PICK read \in Read : read = Decoded(t) /\ read.model = x /\ Decoded(Append(t, x)) = DecodeStep(read, x)
  <2>1. Decoded(t) \in Read /\ Decoded(Append(t, x)) = DecodeStep(Decoded(t), x)
    BY <1>6, DecodedAppend
  <2>2. Decoded(t).model = x
    BY <1>2, <1>3, <1>4, RepeatsDouble
  <2>3. QED
    BY <2>1, <2>2, Zenon
<1>8. DecodeStep(read, x).models = Doubled(read.models, 1)
  <2>1. x = read.model /\ x >= read.model
    BY <1>7
  <2>2. QED
    BY <2>1, DecodeStepIs
<1>9. DecodeModels(h.models) = Decoded(Append(t, x)).models
  BY <1>3, <1>5 DEF DecodeModels, Decoded, Nothing
<1>10. DecodeModels(h.models) = Doubled(Decoded(t).models, 1)
  BY <1>7, <1>8, <1>9
<1>11. QED
  BY <1>4, <1>5, <1>10, Zenon

LEMMA SmallRest ==
  ASSUME NEW n \in Nat \ {0}, NEW a \in 0 .. n - 1
  PROVE  a % n = a
OBVIOUS

\* The two bytes of a length, whose upper one wraps.
LEMMA LengthWraps ==
  ASSUME NEW length \in 0 .. LengthByte * LengthByte
  PROVE  /\ High(length) % LengthByte \in Nat /\ LowByte(length) \in Nat
         /\ (High(length) % LengthByte) * LengthByte + LowByte(length)
              = length % (LengthByte * LengthByte)
<1>1. PICK l \in Nat \ {0, 1}, s \in Nat \ {0} : l = LengthByte /\ s = l * l
  <2>1. LengthByte \in Nat \ {0, 1} /\ LengthByte * LengthByte \in Nat \ {0}
    BY LengthAssumption
  <2>2. QED
    BY <2>1
<1>2. PICK n \in Nat : n = length /\ n <= s
  BY <1>1
<1>3. PICK a \in Nat, h \in Nat : a = n % l /\ h = n \div l /\ n = l * h + a /\ a < l
  <2>1. n % l \in Nat /\ n \div l \in Nat /\ n = l * (n \div l) + (n % l) /\ n % l < l
    OBVIOUS
  <2>2. QED
    BY <2>1
<1>4. PICK p \in Nat : p = l * h /\ p = h * l
  OBVIOUS
<1>5. a = LowByte(length) /\ h = High(length)
  BY <1>1, <1>2, <1>3 DEF LowByte, High
<1>6. CASE h < l
  <2>1. h % l = h
    BY <1>6, SmallRest
  <2>2. n < s
    <3>1. PICK k \in Nat : k = h + 1 /\ k <= l
      BY <1>6
    <3>2. k * l <= l * l
      BY <3>1, ProductGrows
    <3>3. k * l = h * l + l
      BY <3>1
    <3>4. QED
      BY <1>1, <1>3, <1>4, <3>2, <3>3
  <2>3. n % s = n
    BY <2>2, SmallRest
  <2>4. QED
    BY <1>1, <1>2, <1>3, <1>4, <1>5, <2>1, <2>3
<1>7. CASE ~(h < l)
  <2>1. l * l <= h * l
    BY <1>7, ProductGrows
  <2>2. n = s /\ a = 0 /\ h * l = l * l
    BY <1>1, <1>2, <1>3, <1>4, <2>1
  <2>3. h = l
    <3>1. ~(l < h)
      <4>1. l < h => l * l < h * l
        BY ProductStrict
      <4>2. l * l \in Nat
        OBVIOUS
      <4>3. QED
        BY <1>4, <2>2, <4>1, <4>2
    <3>2. QED
      BY <1>7, <3>1
  <2>4. l % l = 0 /\ s % s = 0
    OBVIOUS
  <2>5. 0 * l + 0 = 0
    OBVIOUS
  <2>6. QED
    BY <1>1, <1>2, <1>5, <2>2, <2>3, <2>4, <2>5
<1>8. QED
  BY <1>6, <1>7

AsmLength(h, i) == h.size + (IF i = 1 THEN 1 ELSE 0)
AsmBlock(h, i) ==
  <<High(AsmLength(h, i)) % LengthByte, LowByte(AsmLength(h, i))>> \o AsmModels(h.models)

\* The two bytes of a length, the complements of the numbers t, and a zero.
Framed(b, t) ==
  /\ t # <<>> /\ Len(b) = Len(t) + 3 /\ b[Len(t) + 3] = 0
  /\ \A j \in 1 .. Len(t) : b[j + 2] = ByteMax - t[j]

\* What the unpacker makes of block b is what header h says.
Tells(b, h, i) ==
  /\ \E t \in Seq(Numbers) : Framed(b, t) /\ DecodeModels(h.models) = Doubled(Decoded(t).models, 1)
  /\ b[1] * LengthByte + b[2] = AsmLength(h, i) % (LengthByte * LengthByte)
  /\ i # 1 => b[1] # 0 \/ b[2] # 0

LEMMA AsmModelsIs ==
  ASSUME NEW t \in Seq(Numbers), NEW x \in Numbers
  PROVE  /\ AsmModels(Append(t, x)) \in Seq(Nat) /\ Len(AsmModels(Append(t, x))) = Len(t) + 1
         /\ AsmModels(Append(t, x))[Len(t) + 1] = 0
         /\ \A j \in 1 .. Len(t) : AsmModels(Append(t, x))[j] = ByteMax - t[j]
<1>1. PICK n \in Nat, l \in Nat : n = Len(t) /\ l = n + 1
  OBVIOUS
<1>2. PICK u \in Seq(Numbers) : u = Append(t, x) /\ Len(u) = l /\ DOMAIN u = 1 .. l /\ \A j \in 1 .. n : u[j] = t[j]
  <2>1. Append(t, x) \in Seq(Numbers)
    OBVIOUS
  <2>2. Len(Append(t, x)) = Len(t) + 1 /\ \A j \in 1 .. Len(t) : Append(t, x)[j] = t[j]
    OBVIOUS
  <2>3. PICK u \in Seq(Numbers) : u = Append(t, x)
    BY <2>1, Zenon
  <2>4. Len(u) = l /\ \A j \in 1 .. n : u[j] = t[j]
    BY <1>1, <2>2, <2>3
  <2>5. DOMAIN u = 1 .. Len(u)
    OBVIOUS
  <2>6. QED
    BY <2>3, <2>4, <2>5
<1>3. PICK a : a = AsmModels(u)
  OBVIOUS
<1>4. a = [i \in 1 .. l |-> IF i = l THEN 0 ELSE ByteMax - u[i]]
  BY <1>2, <1>3 DEF AsmModels
<1>5. \A i \in 1 .. l : a[i] \in Nat /\ (i # l => a[i] = ByteMax - t[i])
  <2> SUFFICES ASSUME NEW i \in 1 .. l PROVE a[i] \in Nat /\ (i # l => a[i] = ByteMax - t[i])
    OBVIOUS
  <2>1. CASE i = l
    BY <1>4, <2>1
  <2>2. CASE i # l
    <3>1. i \in 1 .. n
      BY <1>1, <2>2
    <3>2. t[i] \in Numbers /\ u[i] = t[i]
      BY <1>1, <1>2, <3>1
    <3>3. QED
      BY <1>4, <2>2, <3>2, ComplementIs
  <2>3. QED
    BY <2>1, <2>2
<1>6. a \in [1 .. l -> Nat]
  BY <1>4, <1>5
<1>7. a \in Seq(Nat) /\ Len(a) = l
  BY <1>6
<1>8. a[l] = 0
  BY <1>1, <1>4
<1>9. \A j \in 1 .. n : j \in 1 .. l /\ j # l
  BY <1>1
<1>10. QED
  BY <1>1, <1>2, <1>3, <1>5, <1>7, <1>8, <1>9

LEMMA AsmBlockIs ==
  ASSUME NEW h, HeaderOf(h), NEW i \in Nat \ {0}
  PROVE  AsmBlock(h, i) \in Seq(Nat) /\ Tells(AsmBlock(h, i), h, i)
<1>1. PICK t \in Seq(Numbers), x \in Numbers :
        /\ t # <<>> /\ h.models = Append(t, x)
        /\ DecodeModels(h.models) = Doubled(Decoded(t).models, 1)
  BY HeaderEnds
<1>2. PICK a \in Seq(Nat), n \in Nat :
        /\ a = AsmModels(h.models) /\ n = Len(t) /\ Len(a) = n + 1 /\ a[n + 1] = 0
        /\ \A j \in 1 .. n : a[j] = ByteMax - t[j]
  <2>1. Len(t) \in Nat
    OBVIOUS
  <2>2. QED
    BY <1>1, <2>1, AsmModelsIs
<1>3. PICK s \in Nat \ {0} : s = LengthByte * LengthByte
  <2>1. LengthByte * LengthByte \in Nat \ {0}
    BY LengthAssumption
  <2>2. QED
    BY <2>1
<1>4. PICK size \in 1 .. s - 1 : size = h.size
  <2>1. PICK size \in Sizes : size = h.size
    BY DEF HeaderOf, Header
  <2>2. QED
    BY <1>3, <2>1, SearchAssumption
<1>5. PICK length \in 0 .. s : length = AsmLength(h, i) /\ (i # 1 => length = size)
  <2>1. size + 1 \in 0 .. s /\ size + 0 \in 0 .. s /\ size + 0 = size
    BY <1>3
  <2>2. QED
    BY <1>4, <2>1 DEF AsmLength
<1>6. PICK hi \in Nat, lo \in Nat :
        /\ hi = High(length) % LengthByte /\ lo = LowByte(length)
        /\ hi * LengthByte + lo = length % s
  BY <1>3, LengthWraps
<1>7. i # 1 => hi # 0 \/ lo # 0
  <2> SUFFICES ASSUME i # 1, hi = 0, lo = 0 PROVE FALSE
    OBVIOUS
  <2>1. length = size /\ length \in 0 .. s - 1 /\ length # 0
    BY <1>3, <1>5
  <2>2. length % s = length
    BY <2>1, SmallRest
  <2>3. 0 * LengthByte + 0 = 0
    BY LengthAssumption
  <2>4. QED
    BY <1>6, <2>1, <2>2, <2>3
<1>8. PICK b \in Seq(Nat) :
        /\ b = <<hi, lo>> \o a /\ Len(b) = n + 3 /\ b[1] = hi /\ b[2] = lo
        /\ \A j \in 1 .. n + 1 : b[j + 2] = a[j]
  <2>1. PICK d \in Seq(Nat) : d = <<hi, lo>> /\ Len(d) = 2 /\ d[1] = hi /\ d[2] = lo
    <3>1. <<hi, lo>> \in Seq(Nat)
      OBVIOUS
    <3>2. QED
      BY <3>1
  <2>2. /\ d \o a \in Seq(Nat) /\ Len(d \o a) = n + 3
        /\ \A j \in 1 .. 2 : (d \o a)[j] = d[j]
        /\ \A j \in 1 .. n + 1 : (d \o a)[j + 2] = a[j]
    BY <1>2, <2>1
  <2>3. 1 \in 1 .. 2 /\ 2 \in 1 .. 2
    OBVIOUS
  <2>4. QED
    BY <2>1, <2>2, <2>3
<1>9. AsmBlock(h, i) = b
  BY <1>2, <1>5, <1>6, <1>8 DEF AsmBlock
<1>10. Framed(b, t)
  <2>1. n + 1 \in 1 .. n + 1 /\ (n + 1) + 2 = n + 3 /\ \A j \in 1 .. n : j \in 1 .. n + 1
    OBVIOUS
  <2>2. b[n + 3] = 0
    BY <1>2, <1>8, <2>1
  <2>3. \A j \in 1 .. n : b[j + 2] = ByteMax - t[j]
    BY <1>2, <1>8, <2>1
  <2>4. QED
    BY <1>1, <1>2, <1>8, <2>2, <2>3 DEF Framed
<1>11. b[1] * LengthByte + b[2] = AsmLength(h, i) % (LengthByte * LengthByte)
  BY <1>3, <1>5, <1>6, <1>8
<1>12. i # 1 => b[1] # 0 \/ b[2] # 0
  BY <1>7, <1>8
<1>13. QED
  BY <1>1, <1>9, <1>10, <1>11, <1>12 DEF Tells

\* From one block's models to the next: over the zero and the next length.
Zero(bytes, p) == CHOOSE z \in p + 1 .. Len(bytes) :
                    bytes[z] = 0 /\ \A k \in p + 1 .. z - 1 : bytes[k] # 0
SkipsTo(F, bytes, m) == F = [n \in 1 .. m |-> IF n = 1 THEN 3 ELSE Zero(bytes, F[n - 1]) + 3]
AsmAt(bytes) == CHOOSE F : SkipsTo(F, bytes, Len(bytes))
More(bytes, n) ==
  LET z == Zero(bytes, AsmAt(bytes)[n]) IN <<bytes[z + 1], bytes[z + 2]>> # <<0, 0>>
AsmCount(bytes) == CHOOSE n \in 1 .. Len(bytes) :
                     ~More(bytes, n) /\ \A k \in 1 .. n - 1 : More(bytes, k)

LEMMA AsmStartsIs ==
  ASSUME NEW bytes
  PROVE  AsmStarts(bytes) = [n \in 1 .. AsmCount(bytes) |-> AsmAt(bytes)[n]]
BY DEF AsmStarts, AsmCount, More, AsmAt, SkipsTo, Zero

LEMMA SkipsExist ==
  ASSUME NEW bytes \in Seq(Nat)
  PROVE  SkipsTo(AsmAt(bytes), bytes, Len(bytes))
<1> DEFINE N == {m \in Nat : \E F : SkipsTo(F, bytes, m)}
<1>1. 0 \in N
  <2>1. SkipsTo([n \in 1 .. 0 |-> 0], bytes, 0)
    BY DEF SkipsTo
  <2>2. QED
    BY <2>1
<1>2. ASSUME NEW m \in N PROVE m + 1 \in N
  <2>1. m \in Nat
    OBVIOUS
  <2>2. PICK F : F = [n \in 1 .. m |-> IF n = 1 THEN 3 ELSE Zero(bytes, F[n - 1]) + 3]
    BY DEF SkipsTo
  <2>3. PICK G : G = [n \in 1 .. m + 1 |-> IF n = 1 THEN 3 ELSE Zero(bytes, F[n - 1]) + 3]
    OBVIOUS
  <2>4. \A n \in 1 .. m : G[n] = F[n]
    <3> SUFFICES ASSUME NEW n \in 1 .. m PROVE G[n] = F[n]
      OBVIOUS
    <3>1. n \in 1 .. m + 1
      BY <2>1
    <3>2. QED
      BY <2>2, <2>3, <3>1
  <2>5. \A n \in 1 .. m + 1 : n # 1 => G[n - 1] = F[n - 1]
    <3> SUFFICES ASSUME NEW n \in 1 .. m + 1, n # 1 PROVE G[n - 1] = F[n - 1]
      OBVIOUS
    <3>1. n - 1 \in 1 .. m
      BY <2>1
    <3>2. QED
      BY <2>4, <3>1
  <2>6. G = [n \in 1 .. m + 1 |-> IF n = 1 THEN 3 ELSE Zero(bytes, G[n - 1]) + 3]
    BY <2>3, <2>5
  <2>7. SkipsTo(G, bytes, m + 1) /\ m + 1 \in Nat
    BY <2>1, <2>6 DEF SkipsTo
  <2>8. QED
    BY <2>7
<1>3. Len(bytes) \in N
  <2>1. N \in SUBSET Nat
    OBVIOUS
  <2> HIDE DEF N
  <2>2. N = Nat
    BY <1>1, <1>2, <2>1, SetInduction
  <2>3. QED
    BY <2>2
<1>4. QED
  BY <1>3 DEF AsmAt

LEMMA ZeroIs ==
  ASSUME NEW bytes, NEW p \in Nat, NEW q \in p + 1 .. Len(bytes), bytes[q] = 0,
         \A k \in p + 1 .. q - 1 : bytes[k] # 0
  PROVE  Zero(bytes, p) = q
<1>1. ASSUME NEW z \in p + 1 .. Len(bytes), bytes[z] = 0, \A k \in p + 1 .. z - 1 : bytes[k] # 0
      PROVE  z = q
  <2>1. ~(z < q) /\ ~(q < z)
    BY <1>1
  <2>2. QED
    BY <2>1
<1>2. QED
  BY <1>1 DEF Zero

\* What the unpacker meets at the block i, with k blocks before it.
Met(bytes, blocks, k, i, t) ==
  /\ Len(Part(blocks, k)) \in Nat
  /\ Len(Part(blocks, k)) + 4 <= Len(Part(blocks, i)) /\ Len(Part(blocks, i)) <= Len(bytes)
  /\ bytes[Len(Part(blocks, k)) + 1] = blocks[i][1]
  /\ bytes[Len(Part(blocks, k)) + 2] = blocks[i][2]
  /\ Zero(bytes, Len(Part(blocks, k)) + 3) = Len(Part(blocks, i))
  /\ SubSeq(bytes, Len(Part(blocks, k)) + 3, Len(bytes)) \in Seq(Nat)
  /\ Opens(SubSeq(bytes, Len(Part(blocks, k)) + 3, Len(bytes)), t)

LEMMA Spot ==
  ASSUME NEW p \in Nat, NEW m \in Nat, NEW n \in p + 4 .. p + (m + 2)
  PROVE  \E j \in 1 .. m : n = p + (j + 2)
<1>1. n - (p + 2) \in 1 .. m /\ n = p + ((n - (p + 2)) + 2)
  OBVIOUS
<1>2. QED
  BY <1>1

LEMMA FromThird ==
  ASSUME NEW s \in Seq(Nat), NEW p \in Nat, p + 3 <= Len(s)
  PROVE  /\ SubSeq(s, p + 3, Len(s)) \in Seq(Nat)
         /\ Len(SubSeq(s, p + 3, Len(s))) = Len(s) - (p + 2)
         /\ \A j \in 1 .. Len(SubSeq(s, p + 3, Len(s))) :
              SubSeq(s, p + 3, Len(s))[j] = s[p + (j + 2)]
<1>1. PICK n \in Nat, a \in Nat : n = Len(s) /\ a = p + 3 /\ a <= n /\ a >= 1
  OBVIOUS
<1>2. /\ SubSeq(s, a, n) \in Seq(Nat) /\ Len(SubSeq(s, a, n)) = n - a + 1
      /\ \A j \in 1 .. n - a + 1 : SubSeq(s, a, n)[j] = s[a + j - 1]
  BY <1>1, SubSeqProperties
<1>3. n - a + 1 = n - (p + 2) /\ \A j \in 1 .. n - a + 1 : a + j - 1 = p + (j + 2)
  BY <1>1
<1>4. \A j \in 1 .. n - a + 1 : SubSeq(s, a, n)[j] = s[p + (j + 2)]
  BY <1>2, <1>3
<1>5. QED
  BY <1>1, <1>2, <1>3, <1>4

LEMMA BlockMet ==
  ASSUME NEW blocks \in Seq(Seq(Nat)), NEW rest \in Seq(Nat), NEW i \in 1 .. Len(blocks),
         NEW k \in Nat, i = k + 1, NEW t \in Seq(Numbers), Framed(blocks[i], t)
  PROVE  Met(FlattenSeq(blocks) \o rest, blocks, k, i, t)
<1>1. PICK bytes \in Seq(Nat) : bytes = FlattenSeq(blocks) \o rest
  <2>1. FlattenSeq(blocks) \in Seq(Nat)
    BY FlattenType
  <2>2. FlattenSeq(blocks) \o rest \in Seq(Nat)
    BY <2>1
  <2>3. QED
    BY <2>2, Zenon
<1>2. PICK m \in Nat, b \in Seq(Nat) :
        /\ m = Len(t) /\ m # 0 /\ b = blocks[i] /\ Len(b) = m + 3 /\ b[m + 3] = 0
        /\ \A j \in 1 .. m : b[j + 2] = ByteMax - t[j]
  <2>1. Len(t) \in Nat /\ Len(t) # 0 /\ blocks[i] \in Seq(Nat)
    BY DEF Framed
  <2>2. QED
    BY <2>1 DEF Framed
<1>3. Stands(bytes, blocks, k, i)
  <2>1. blocks[i] # <<>>
    BY <1>2
  <2>2. QED
    BY <1>1, <2>1, BlockStands
<1>4. PICK p \in Nat, q \in Nat, top \in Nat :
        /\ p = Len(Part(blocks, k)) /\ q = p + (m + 3) /\ q = Len(Part(blocks, i))
        /\ top = Len(bytes) /\ q <= top
  <2>1. Len(Part(blocks, k)) \in Nat /\ Len(bytes) \in Nat
    BY <1>3 DEF Stands
  <2>2. Len(Part(blocks, k)) + (m + 3) \in Nat
    BY <2>1
  <2>3. QED
    BY <1>2, <1>3, <2>1, <2>2 DEF Stands
<1>5. \A j \in 1 .. m + 3 : bytes[p + j] = b[j]
  BY <1>2, <1>3, <1>4 DEF Stands
<1>6. \A j \in 1 .. m : bytes[p + (j + 2)] = ByteMax - t[j] /\ bytes[p + (j + 2)] # 0
  <2> SUFFICES ASSUME NEW j \in 1 .. m
               PROVE  bytes[p + (j + 2)] = ByteMax - t[j] /\ bytes[p + (j + 2)] # 0
    OBVIOUS
  <2>1. j + 2 \in 1 .. m + 3 /\ t[j] \in Numbers
    BY <1>2
  <2>2. bytes[p + (j + 2)] = b[j + 2]
    BY <1>5, <2>1
  <2>3. b[j + 2] = ByteMax - t[j]
    BY <1>2
  <2>4. ByteMax - t[j] # 0
    BY <2>1, ComplementIs
  <2>5. QED
    BY <2>2, <2>3, <2>4
<1>7. bytes[q] = 0 /\ bytes[p + 1] = b[1] /\ bytes[p + 2] = b[2]
  <2>1. m + 3 \in 1 .. m + 3 /\ 1 \in 1 .. m + 3 /\ 2 \in 1 .. m + 3
    OBVIOUS
  <2>2. QED
    BY <1>2, <1>4, <1>5, <2>1
<1>8. Zero(bytes, p + 3) = q
  <2>1. q \in (p + 3) + 1 .. Len(bytes)
    BY <1>2, <1>4
  <2>2. ASSUME NEW n \in (p + 3) + 1 .. q - 1 PROVE bytes[n] # 0
    <3>1. PICK j \in 1 .. m : n = p + (j + 2)
      <4>1. n \in p + 4 .. p + (m + 2)
        BY <1>4
      <4>2. QED
        BY <4>1, Spot
    <3>2. QED
      BY <1>6, <3>1
  <2>3. p + 3 \in Nat
    OBVIOUS
  <2>4. QED
    BY <1>7, <2>1, <2>2, <2>3, ZeroIs
<1>9. PICK u \in Seq(Nat) : /\ u = SubSeq(bytes, p + 3, top) /\ Len(u) = top - (p + 2)
                            /\ \A j \in 1 .. Len(u) : u[j] = bytes[p + (j + 2)]
  <2>1. p + 3 <= Len(bytes)
    BY <1>2, <1>4
  <2>2. /\ SubSeq(bytes, p + 3, Len(bytes)) \in Seq(Nat)
        /\ Len(SubSeq(bytes, p + 3, Len(bytes))) = Len(bytes) - (p + 2)
        /\ \A j \in 1 .. Len(SubSeq(bytes, p + 3, Len(bytes))) :
             SubSeq(bytes, p + 3, Len(bytes))[j] = bytes[p + (j + 2)]
    BY <2>1, FromThird
  <2>3. QED
    BY <1>4, <2>2
<1>10. Opens(u, t)
  <2>0. top - (p + 2) > m
    BY <1>4
  <2>1. Len(u) > m /\ m + 1 \in 1 .. Len(u) /\ \A j \in 1 .. m : j \in 1 .. Len(u)
    BY <1>9, <2>0
  <2>2. u[m + 1] = 0
    <3>1. p + ((m + 1) + 2) = q
      BY <1>4
    <3>2. QED
      BY <1>7, <1>9, <2>1, <3>1
  <2>3. \A j \in 1 .. m : u[j] = ByteMax - t[j]
    BY <1>6, <1>9, <2>1
  <2>4. QED
    BY <1>2, <2>1, <2>2, <2>3 DEF Opens
<1>11. p + 4 <= q
  BY <1>2, <1>4
<1>12. Met(bytes, blocks, k, i, t)
  BY <1>2, <1>4, <1>7, <1>8, <1>9, <1>10, <1>11 DEF Met
<1>13. QED
  BY <1>1, <1>12

\* Every block is framed, and only the first may start with two zero bytes.
AllFramed(blocks) ==
  \A i \in 1 .. Len(blocks) : /\ \E t \in Seq(Numbers) : Framed(blocks[i], t)
                              /\ i # 1 => blocks[i][1] # 0 \/ blocks[i][2] # 0

Reached(bytes, blocks, k) ==
  k + 1 <= Len(bytes) /\ AsmAt(bytes)[k + 1] = Len(Part(blocks, k)) + 3

LEMMA BlocksReached ==
  ASSUME NEW blocks \in Seq(Seq(Nat)), AllFramed(blocks), NEW rest \in Seq(Nat),
         NEW n \in Nat, n < Len(blocks)
  PROVE  Reached(FlattenSeq(blocks) \o rest, blocks, n)
<1>1. PICK bytes \in Seq(Nat) : bytes = FlattenSeq(blocks) \o rest
  <2>1. FlattenSeq(blocks) \in Seq(Nat)
    BY FlattenType
  <2>2. FlattenSeq(blocks) \o rest \in Seq(Nat)
    BY <2>1
  <2>3. QED
    BY <2>2, Zenon
<1>2. PICK top \in Nat, all \in Nat : top = Len(bytes) /\ all = Len(blocks)
  OBVIOUS
<1>3. AsmAt(bytes) = [m \in 1 .. top |-> IF m = 1 THEN 3 ELSE Zero(bytes, AsmAt(bytes)[m - 1]) + 3]
  BY <1>2, SkipsExist DEF SkipsTo
<1>4. ASSUME NEW k \in Nat, k < all
      PROVE  \E p \in Nat, q \in Nat :
               /\ p = Len(Part(blocks, k)) /\ q = Len(Part(blocks, k + 1))
               /\ p + 4 <= q /\ q <= top /\ Zero(bytes, p + 3) = q
  <2>1. PICK i \in 1 .. Len(blocks) : i = k + 1
    BY <1>2, <1>4
  <2>2. PICK t \in Seq(Numbers) : Framed(blocks[i], t)
    BY DEF AllFramed
  <2>3. Met(bytes, blocks, k, i, t)
    BY <1>1, <2>1, <2>2, BlockMet
  <2>4. PICK p \in Nat, q \in Nat : p = Len(Part(blocks, k)) /\ q = Len(Part(blocks, i))
    <3>1. SubSeq(blocks, 1, i) \in Seq(Seq(Nat))
      BY SubSeqProperties
    <3>2. Part(blocks, i) \in Seq(Nat)
      BY <3>1, FlattenType DEF Part
    <3>3. Len(Part(blocks, i)) \in Nat
      BY <3>2
    <3>4. QED
      BY <2>3, <3>3 DEF Met
  <2>5. p + 4 <= q /\ q <= top /\ Zero(bytes, p + 3) = q
    BY <1>2, <2>3, <2>4 DEF Met
  <2>6. QED
    BY <2>1, <2>4, <2>5
<1> DEFINE N == {m \in Nat : m < all =>
                   m <= Len(Part(blocks, m)) /\ AsmAt(bytes)[m + 1] = Len(Part(blocks, m)) + 3}
<1>5. 0 \in N
  <2> SUFFICES ASSUME 0 < all
               PROVE  0 <= Len(Part(blocks, 0)) /\ AsmAt(bytes)[0 + 1] = Len(Part(blocks, 0)) + 3
    OBVIOUS
  <2>1. SubSeq(blocks, 1, 0) = <<>>
    BY SubSeqEmpty
  <2>2. Part(blocks, 0) = <<>>
    BY <2>1, FlattenEmpty DEF Part
  <2>3. Len(<<>>) = 0
    OBVIOUS
  <2>4. 1 \in 1 .. top
    <3>1. PICK p \in Nat, q \in Nat : p + 4 <= q /\ q <= top
      BY <1>4
    <3>2. QED
      BY <3>1
  <2>5. AsmAt(bytes)[1] = 3
    BY <1>3, <2>4
  <2>6. QED
    BY <2>2, <2>3, <2>5
<1>6. ASSUME NEW k \in N PROVE k + 1 \in N
  <2>1. k \in Nat /\ k + 1 \in Nat
    OBVIOUS
  <2> SUFFICES ASSUME k + 1 < all
               PROVE  /\ k + 1 <= Len(Part(blocks, k + 1))
                      /\ AsmAt(bytes)[(k + 1) + 1] = Len(Part(blocks, k + 1)) + 3
    BY <2>1
  <2>2. k < all
    BY <2>1
  <2>3. k <= Len(Part(blocks, k)) /\ AsmAt(bytes)[k + 1] = Len(Part(blocks, k)) + 3
    BY <2>2
  <2>4. PICK p \in Nat, q \in Nat : /\ p = Len(Part(blocks, k)) /\ q = Len(Part(blocks, k + 1))
                                    /\ p + 4 <= q /\ q <= top /\ Zero(bytes, p + 3) = q
    BY <1>4, <2>1, <2>2
  <2>5. PICK r \in Nat : q + 4 <= r /\ r <= top
    BY <1>4, <2>1, <2>4
  <2>6. (k + 1) + 1 \in 1 .. top /\ (k + 1) + 1 # 1 /\ ((k + 1) + 1) - 1 = k + 1 /\ k + 1 <= q
    BY <2>1, <2>3, <2>4, <2>5
  <2>7. AsmAt(bytes)[(k + 1) + 1] = Zero(bytes, AsmAt(bytes)[k + 1]) + 3
    BY <1>3, <2>6
  <2>8. QED
    BY <2>3, <2>4, <2>6, <2>7
<1>7. n \in N
  <2>1. N \in SUBSET Nat
    OBVIOUS
  <2> HIDE DEF N
  <2>2. N = Nat
    BY <1>5, <1>6, <2>1, SetInduction
  <2>3. QED
    BY <2>2
<1>8. n <= Len(Part(blocks, n)) /\ AsmAt(bytes)[n + 1] = Len(Part(blocks, n)) + 3
  BY <1>2, <1>7
<1>9. n + 1 <= top
  <2>1. PICK p \in Nat, q \in Nat : p = Len(Part(blocks, n)) /\ p + 4 <= q /\ q <= top
    BY <1>2, <1>4
  <2>2. QED
    BY <1>8, <2>1
<1>10. Reached(bytes, blocks, n)
  BY <1>2, <1>8, <1>9 DEF Reached
<1>11. QED
  BY <1>1, <1>10

\* The unpacker stops at the two zero bytes: it has met every block.
LEMMA AllMet ==
  ASSUME NEW blocks \in Seq(Seq(Nat)), AllFramed(blocks), blocks # <<>>
  PROVE  AsmCount(FlattenSeq(blocks) \o <<0, 0>>) = Len(blocks)
<1>1. PICK rest \in Seq(Nat) : rest = <<0, 0>> /\ Len(rest) = 2 /\ rest[1] = 0 /\ rest[2] = 0
  <2>1. <<0, 0>> \in Seq(Nat)
    OBVIOUS
  <2>2. QED
    BY <2>1
<1>2. PICK whole \in Seq(Nat), bytes \in Seq(Nat) :
        whole = FlattenSeq(blocks) /\ bytes = FlattenSeq(blocks) \o rest
  <2>1. FlattenSeq(blocks) \in Seq(Nat)
    BY FlattenType
  <2>2. FlattenSeq(blocks) \o rest \in Seq(Nat)
    BY <2>1
  <2>3. QED
    BY <2>1, <2>2, Zenon
<1>3. PICK all \in Nat, top \in Nat, l \in Nat :
        all = Len(blocks) /\ all # 0 /\ top = Len(bytes) /\ l = Len(whole)
  OBVIOUS
<1>4. ASSUME NEW i \in 1 .. all
      PROVE  /\ i \in 1 .. top /\ Zero(bytes, AsmAt(bytes)[i]) = Len(Part(blocks, i))
             /\ bytes[Len(Part(blocks, i - 1)) + 1] = blocks[i][1]
             /\ bytes[Len(Part(blocks, i - 1)) + 2] = blocks[i][2]
  <2>1. PICK k \in Nat : i = k + 1 /\ k = i - 1 /\ k < Len(blocks)
    <3>1. i - 1 \in Nat /\ i = (i - 1) + 1 /\ i - 1 < Len(blocks)
      BY <1>3
    <3>2. QED
      BY <3>1
  <2>2. Reached(bytes, blocks, k)
    BY <1>2, <2>1, BlocksReached
  <2>3. i \in 1 .. Len(blocks)
    BY <1>3
  <2>4. PICK t \in Seq(Numbers) : Framed(blocks[i], t)
    BY <2>3 DEF AllFramed
  <2>5. Met(bytes, blocks, k, i, t)
    BY <1>2, <2>1, <2>3, <2>4, BlockMet
  <2>6. i <= top /\ AsmAt(bytes)[i] = Len(Part(blocks, k)) + 3
    BY <1>3, <2>1, <2>2 DEF Reached
  <2>7. i \in 1 .. top
    BY <1>3, <2>6
  <2>8. QED
    BY <2>1, <2>5, <2>6, <2>7 DEF Met
<1>5. bytes[l + 1] = 0 /\ bytes[l + 2] = 0
  <2>1. \A j \in 1 .. Len(rest) : (whole \o rest)[l + j] = rest[j]
    BY <1>3
  <2>2. 1 \in 1 .. Len(rest) /\ 2 \in 1 .. Len(rest)
    BY <1>1
  <2>3. QED
    BY <1>1, <1>2, <2>1, <2>2
<1>6. ~More(bytes, all)
  <2>1. Zero(bytes, AsmAt(bytes)[all]) = l
    BY <1>2, <1>3, <1>4, PartIsAll
  <2>2. QED
    BY <1>5, <2>1 DEF More
<1>7. \A k \in 1 .. all - 1 : More(bytes, k)
  <2> SUFFICES ASSUME NEW k \in 1 .. all - 1 PROVE More(bytes, k)
    OBVIOUS
  <2>1. PICK i \in 1 .. all : i = k + 1 /\ k = i - 1 /\ i # 1
    <3>1. k + 1 \in 1 .. all /\ k = (k + 1) - 1 /\ k + 1 # 1
      OBVIOUS
    <3>2. QED
      BY <3>1
  <2>2. k \in 1 .. all
    OBVIOUS
  <2>3. Zero(bytes, AsmAt(bytes)[k]) = Len(Part(blocks, k))
    BY <1>4, <2>2
  <2>4. bytes[Len(Part(blocks, k)) + 1] = blocks[i][1] /\ bytes[Len(Part(blocks, k)) + 2] = blocks[i][2]
    BY <1>4, <2>1
  <2>5. blocks[i][1] # 0 \/ blocks[i][2] # 0
    BY <1>3, <2>1 DEF AllFramed
  <2>6. PICK z : z = Len(Part(blocks, k))
    OBVIOUS
  <2>7. <<bytes[z + 1], bytes[z + 2]>> # <<0, 0>>
    BY <2>4, <2>5, <2>6
  <2>8. QED
    BY <2>3, <2>6, <2>7 DEF More
<1>8. all \in 1 .. Len(bytes)
  <2>1. all \in 1 .. all
    BY <1>3
  <2>2. QED
    BY <1>3, <1>4, <2>1
<1>9. ASSUME NEW n \in 1 .. Len(bytes), ~More(bytes, n), \A k \in 1 .. n - 1 : More(bytes, k)
      PROVE  n = all
  <2>1. ~(n < all)
    BY <1>7, <1>9
  <2>2. ~(all < n)
    <3> SUFFICES ASSUME all < n PROVE FALSE
      OBVIOUS
    <3>1. all \in 1 .. n - 1
      BY <1>3
    <3>2. QED
      BY <1>6, <1>9, <3>1
  <2>3. QED
    BY <2>1, <2>2
<1>10. AsmCount(bytes) = all
  BY <1>6, <1>7, <1>8, <1>9 DEF AsmCount
<1>11. QED
  BY <1>1, <1>2, <1>3, <1>10

\* What a block makes of the unpacker's registers.
MadeOf(b, m) ==
  \E t \in Seq(Numbers) :
    /\ Framed(b, t)
    /\ m = [size |-> b[1] * LengthByte + b[2], models |-> Doubled(Decoded(t).models, 1)]

LEMMA BlocksWalked ==
  ASSUME NEW blocks \in Seq(Seq(Nat)), AllFramed(blocks), blocks # <<>>,
         NEW made, made = [i \in 1 .. Len(blocks) |-> made[i]],
         \A i \in 1 .. Len(blocks) : MadeOf(blocks[i], made[i])
  PROVE  AsmBlocks(FlattenSeq(blocks) \o <<0, 0>>) = made
<1>1. PICK rest \in Seq(Nat) : rest = <<0, 0>>
  <2>1. <<0, 0>> \in Seq(Nat)
    OBVIOUS
  <2>2. QED
    BY <2>1
<1>2. PICK bytes : bytes = FlattenSeq(blocks) \o rest
  OBVIOUS
<1>3. PICK all \in Nat : all = Len(blocks)
  <2>1. Len(blocks) \in Nat
    BY LenProperties
  <2>2. QED
    BY <2>1, Zenon
<1>4. AsmCount(bytes) = all
  BY <1>1, <1>2, <1>3, AllMet
<1>5. PICK start : start = [n \in 1 .. all |-> AsmAt(bytes)[n]]
  OBVIOUS
<1>6. AsmStarts(bytes) = start
  BY <1>4, <1>5, AsmStartsIs
<1>7. ASSUME NEW i \in 1 .. all
      PROVE  [size   |-> bytes[start[i] - 2] * LengthByte + bytes[start[i] - 1],
              models |-> AsmWalk(SubSeq(bytes, start[i], Len(bytes)))] = made[i]
  <2>1. PICK k \in Nat : i = k + 1 /\ k = i - 1 /\ k < Len(blocks)
    <3>1. i - 1 \in Nat /\ i = (i - 1) + 1 /\ i - 1 < Len(blocks)
      BY <1>3
    <3>2. QED
      BY <3>1
  <2>2. i \in 1 .. Len(blocks)
    BY <1>3
  <2>3. PICK t \in Seq(Numbers) :
          /\ Framed(blocks[i], t)
          /\ made[i] = [size |-> blocks[i][1] * LengthByte + blocks[i][2],
                        models |-> Doubled(Decoded(t).models, 1)]
    BY <2>2 DEF MadeOf
  <2>4. Met(bytes, blocks, k, i, t)
    BY <1>2, <2>1, <2>2, <2>3, BlockMet
  <2>5. Reached(bytes, blocks, k)
    BY <1>2, <2>1, BlocksReached
  <2>6. PICK p \in Nat : p = Len(Part(blocks, k))
    BY <2>4 DEF Met
  <2>7. start[i] = p + 3
    BY <1>5, <2>1, <2>5, <2>6 DEF Reached
  <2>8. start[i] - 2 = p + 1 /\ start[i] - 1 = p + 2
    BY <2>7
  <2>9. bytes[p + 1] = blocks[i][1] /\ bytes[p + 2] = blocks[i][2]
    BY <2>4, <2>6 DEF Met
  <2>10. PICK u \in Seq(Nat) : u = SubSeq(bytes, p + 3, Len(bytes)) /\ Opens(u, t)
    BY <2>4, <2>6 DEF Met
  <2>11. AsmWalk(u) = Doubled(Decoded(t).models, 1)
    <3>1. t # <<>>
      BY <2>3 DEF Framed
    <3>2. QED
      BY <2>10, <3>1, WalkIs
  <2>12. QED
    BY <2>3, <2>7, <2>8, <2>9, <2>10, <2>11
<1>8. AsmBlocks(bytes) = [n \in 1 .. all |->
                            [size   |-> bytes[start[n] - 2] * LengthByte + bytes[start[n] - 1],
                             models |-> AsmWalk(SubSeq(bytes, start[n], Len(bytes)))]]
  <2>1. DOMAIN start = 1 .. all
    BY <1>5
  <2>2. QED
    BY <1>6, <2>1 DEF AsmBlocks
<1>9. AsmBlocks(bytes) = [n \in 1 .. all |-> made[n]]
  BY <1>7, <1>8
<1>10. QED
  BY <1>1, <1>2, <1>3, <1>9

LEMMA BlocksTell ==
  ASSUME SearchInv, headers # <<>>
  PROVE  LET blocks == [i \in DOMAIN headers |-> AsmBlock(headers[i], i)]
             made   == [i \in DOMAIN headers |->
                          [size   |-> AsmLength(headers[i], i) % (LengthByte * LengthByte),
                           models |-> DecodeModels(headers[i].models)]]
         IN  /\ blocks \in Seq(Seq(Nat)) /\ AllFramed(blocks) /\ blocks # <<>>
             /\ made = [i \in 1 .. Len(blocks) |-> made[i]]
             /\ \A i \in 1 .. Len(blocks) : MadeOf(blocks[i], made[i])
<1>1. PICK n \in Nat : n = Len(headers) /\ DOMAIN headers = 1 .. n /\ n # 0
  BY DEF SearchInv
<1>2. PICK s : s = [i \in DOMAIN headers |-> AsmBlock(headers[i], i)]
  OBVIOUS
<1>3. PICK made : made = [i \in DOMAIN headers |->
                            [size   |-> AsmLength(headers[i], i) % (LengthByte * LengthByte),
                             models |-> DecodeModels(headers[i].models)]]
  OBVIOUS
<1>4. ASSUME NEW i \in 1 .. n
      PROVE  s[i] \in Seq(Nat) /\ Tells(s[i], headers[i], i)
  <2>1. i \in Nat \ {0} /\ HeaderOf(headers[i])
    BY <1>1 DEF SearchInv
  <2>2. QED
    BY <1>1, <1>2, <2>1, AsmBlockIs
<1>5. s = [i \in 1 .. n |-> s[i]]
  BY <1>1, <1>2
<1>6. s \in Seq(Seq(Nat)) /\ Len(s) = n
  <2>1. s \in [1 .. n -> Seq(Nat)]
    BY <1>4, <1>5
  <2>2. QED
    BY <2>1
<1>7. AllFramed(s)
  BY <1>4, <1>6 DEF AllFramed, Tells
<1>8. \A i \in 1 .. n : MadeOf(s[i], made[i])
  <2> SUFFICES ASSUME NEW i \in 1 .. n PROVE MadeOf(s[i], made[i])
    OBVIOUS
  <2>1. PICK t \in Seq(Numbers) :
          Framed(s[i], t) /\ DecodeModels(headers[i].models) = Doubled(Decoded(t).models, 1)
    BY <1>4 DEF Tells
  <2>2. s[i][1] * LengthByte + s[i][2] = AsmLength(headers[i], i) % (LengthByte * LengthByte)
    BY <1>4 DEF Tells
  <2>3. made[i] = [size |-> s[i][1] * LengthByte + s[i][2], models |-> Doubled(Decoded(t).models, 1)]
    BY <1>1, <1>3, <2>1, <2>2
  <2>4. QED
    BY <2>1, <2>3 DEF MadeOf
<1>9. made = [i \in 1 .. n |-> made[i]]
  BY <1>1, <1>3
<1>10. s # <<>>
  BY <1>1, <1>6
<1>11. QED
  BY <1>2, <1>3, <1>6, <1>7, <1>8, <1>9, <1>10

\* The unpacker, which is told no header sizes, finds every block's length and
\* models in the header CreateAsmHeader writes, and takes as many square roots
\* after every model as the packer doubled its weight.
THEOREM UnpackerFindsBlocks == Spec => []AsmStreamParses
<1>1. SearchInv => AsmStreamParses
  <2> SUFFICES ASSUME SearchInv, packed, Multi
               PROVE  AsmBlocks(AsmHeader(headers, Multi))
                        = [i \in DOMAIN headers |->
                             [size   |-> (headers[i].size + (IF i = 1 THEN 1 ELSE 0))
                                           % (LengthByte * LengthByte),
                              models |-> DecodeModels(headers[i].models)]]
    BY DEF AsmStreamParses
  <2>1. headers # <<>>
    BY DEF SearchInv
  <2>2. PICK blocks, made :
          /\ blocks = [i \in DOMAIN headers |-> AsmBlock(headers[i], i)]
          /\ made = [i \in DOMAIN headers |->
                       [size   |-> AsmLength(headers[i], i) % (LengthByte * LengthByte),
                        models |-> DecodeModels(headers[i].models)]]
    OBVIOUS
  <2>3. /\ blocks \in Seq(Seq(Nat)) /\ AllFramed(blocks) /\ blocks # <<>>
        /\ made = [i \in 1 .. Len(blocks) |-> made[i]]
        /\ \A i \in 1 .. Len(blocks) : MadeOf(blocks[i], made[i])
    BY <2>1, <2>2, BlocksTell
  <2>4. AsmBlocks(FlattenSeq(blocks) \o <<0, 0>>) = made
    BY <2>3, BlocksWalked
  <2>5. AsmHeader(headers, Multi) = FlattenSeq(blocks) \o <<0, 0>>
    BY <2>2 DEF AsmHeader, AsmBlock, AsmLength
  <2>6. QED
    BY <2>2, <2>4, <2>5 DEF AsmLength
<1>2. QED
  BY <1>1, SearchAlways, PTL

-----------------------------------------------------------------------------
(* The parallel loop of the search, for any number of threads, iterations  *)
(* and any stride, a last stride that is not full included.                *)
(*                                                                         *)
(* The invariant follows an iteration through the life of its stride: not  *)
(* called while the stride waits, called up to where its thread is while   *)
(* one is in it, called once when it is over.  Division is only needed to  *)
(* know that every iteration lies in exactly one stride.                   *)

\* Where strides start, and the start of the stride that holds iteration i.
Bases == {m * Stride : m \in Majors}
BaseOf(i) == (i \div Stride) * Stride

\* The starts of the strides no thread has taken yet.
Waiting == {m * Stride : m \in waiting}

LoopTypeOK ==
  /\ waiting \subseteq Majors
  /\ major \in [Threads -> Bases \union {None}]
  /\ minor \in [Threads -> 0 .. Stride]
  /\ inside \in [Threads -> Items \union {None}]
  /\ calls \in [Items -> Nat]
  /\ returned \in BOOLEAN

\* A thread in func is there for the iteration its counters say.
InsideWhere ==
  \A t \in Threads : inside[t] # None =>
    /\ major[t] # None
    /\ inside[t] = major[t] + minor[t]
    /\ minor[t] < Stride

\* Every stride waits, or has one thread, or is over.
OneThreadEach ==
  \A t \in Threads : major[t] # None =>
    /\ major[t] \notin Waiting
    /\ \A u \in Threads : u # t => major[u] # major[t]

\* Iteration i of thread t's stride has been begun.
Begun(t, i) == i < major[t] + minor[t] \/ inside[t] = i

CallsSoFar ==
  \A i \in Items :
    /\ BaseOf(i) \in Waiting => calls[i] = 0
    /\ \A t \in Threads : major[t] = BaseOf(i) =>
         calls[i] = IF Begun(t, i) THEN 1 ELSE 0
    /\ (BaseOf(i) \notin Waiting /\ \A t \in Threads : major[t] # BaseOf(i)) =>
         calls[i] = 1

ReturnedLate == returned => waiting = {} /\ \A t \in Threads : major[t] = None

LoopInv == LoopTypeOK /\ InsideWhere /\ OneThreadEach /\ CallsSoFar /\ ReturnedLate

-----------------------------------------------------------------------------
(* Facts about strides.                                                    *)

LEMMA LoopNumbers ==
  Iterations \in Nat /\ Stride \in Nat /\ Stride > 0
BY LoopAssumption

\* The number of strides is the quotient rounded up.
LEMMA Division ==
  ASSUME NEW n \in Nat
  PROVE  /\ n \div Stride \in Nat
         /\ (n \div Stride) * Stride <= n
         /\ n < (n \div Stride) * Stride + Stride
BY LoopNumbers, SMTT(30)

\* Different strides start in different places.
LEMMA Injective ==
  ASSUME NEW m \in Nat, NEW n \in Nat, m * Stride = n * Stride
  PROVE  m = n
<1>1. ASSUME NEW a \in Nat, NEW b \in Nat, a < b PROVE a * Stride # b * Stride
  <2>1. b - a \in Nat /\ b - a > 0 /\ b * Stride = a * Stride + (b - a) * Stride
    BY <1>1, LoopNumbers
  <2>2. (b - a) * Stride > 0
    BY <2>1, LoopNumbers
  <2>3. a * Stride \in Nat
    BY LoopNumbers
  <2>4. QED
    BY <2>1, <2>2, <2>3, LoopNumbers
<1>2. QED
  BY <1>1

\* A stride reaches up to the next one.
LEMMA Apart ==
  ASSUME NEW m \in Nat, NEW n \in Nat, m < n
  PROVE  m * Stride + Stride <= n * Stride
<1>1. n - m - 1 \in Nat /\ n * Stride = (m * Stride + Stride) + (n - m - 1) * Stride
  BY LoopNumbers
<1>2. (n - m - 1) * Stride \in Nat /\ m * Stride \in Nat
  BY <1>1, LoopNumbers
<1>3. QED
  BY <1>1, <1>2, LoopNumbers

LEMMA BasesAreLoopNumbers == Bases \subseteq Nat
BY LoopNumbers DEF Bases, Majors

\* Every iteration lies in the stride BaseOf says: the strides cover them all.
LEMMA Covered ==
  ASSUME NEW i \in Items
  PROVE  BaseOf(i) \in Bases /\ BaseOf(i) <= i /\ i < BaseOf(i) + Stride
<1> DEFINE q == i \div Stride
           r == (Iterations + Stride - 1) \div Stride
<1>1. i \in Nat /\ i < Iterations /\ Iterations + Stride - 1 \in Nat
  BY LoopNumbers DEF Items
<1>2. q \in Nat /\ q * Stride <= i /\ i < q * Stride + Stride
  BY <1>1, Division
<1>3. r \in Nat /\ Iterations + Stride - 1 < r * Stride + Stride
  BY <1>1, Division
<1>4. q < r
  <2>1. SUFFICES ASSUME r <= q PROVE FALSE
    BY <1>2, <1>3
  <2>2. r * Stride <= q * Stride
    <3>1. CASE r = q
      BY <3>1, <1>2, LoopNumbers
    <3>2. CASE r < q
      BY <3>2, <1>2, <1>3, Apart, LoopNumbers
    <3>3. QED
      BY <2>1, <3>1, <3>2, <1>2, <1>3
  <2>3. r * Stride \in Nat /\ q * Stride \in Nat
    BY <1>2, <1>3, LoopNumbers
  <2>4. QED
    BY <1>1, <1>2, <1>3, <2>2, <2>3, LoopNumbers
<1>5. q \in Majors
  BY <1>2, <1>3, <1>4 DEF Majors
<1>6. QED
  BY <1>2, <1>5 DEF Bases, BaseOf

\* And in no other: the strides do not overlap.
LEMMA OneStride ==
  ASSUME NEW i \in Items, NEW b \in Bases, b <= i, i < b + Stride
  PROVE  b = BaseOf(i)
<1>1. PICK m \in Majors : b = m * Stride
  BY DEF Bases
<1>2. PICK n \in Majors : BaseOf(i) = n * Stride
  BY Covered DEF Bases
<1>3. m \in Nat /\ n \in Nat /\ i \in Nat
  BY DEF Majors, Items
<1>4. m * Stride \in Nat /\ n * Stride \in Nat
  BY <1>3, LoopNumbers
<1>5. ~ (m < n) /\ ~ (n < m)
  BY <1>1, <1>2, <1>3, <1>4, Apart, Covered, LoopNumbers
<1>6. QED
  BY <1>1, <1>2, <1>3, <1>5

-----------------------------------------------------------------------------
(* The invariant.                                                          *)

LEMMA InitInv == LoopInit => LoopInv
<1> SUFFICES ASSUME LoopInit PROVE LoopInv
  OBVIOUS
<1>1. LoopTypeOK
  <2>1. 0 \in 0 .. Stride
    BY LoopNumbers
  <2>2. QED
    BY <2>1 DEF LoopInit, LoopTypeOK
<1>2. InsideWhere /\ OneThreadEach
  BY DEF LoopInit, InsideWhere, OneThreadEach
<1>3. CallsSoFar
  <2> SUFFICES ASSUME NEW i \in Items
               PROVE  calls[i] = 0 /\ BaseOf(i) \in Waiting /\ BaseOf(i) # None
    BY DEF LoopInit, CallsSoFar
  <2>1. BaseOf(i) \in Bases
    BY Covered
  <2>2. BaseOf(i) \in Waiting
    BY <2>1 DEF LoopInit, Bases, Waiting
  <2>3. QED
    BY <2>1, <2>2, BasesAreLoopNumbers DEF LoopInit, None
<1>4. ReturnedLate
  <2>1. ASSUME Iterations = 0 PROVE Majors = {}
    <3>1. Stride - 1 \in Nat
      BY LoopNumbers
    <3>2. (Stride - 1) \div Stride = 0
      <4> DEFINE q == (Stride - 1) \div Stride
      <4>1. q \in Nat /\ q * Stride <= Stride - 1
        BY <3>1, Division
      <4>2. ASSUME q > 0 PROVE FALSE
        BY <4>1, <4>2, Apart, LoopNumbers
      <4>3. QED
        BY <4>1, <4>2
    <3>3. Iterations + Stride - 1 = Stride - 1
      BY <2>1, LoopNumbers
    <3>4. QED
      BY <3>2, <3>3 DEF Majors
  <2>2. QED
    BY <2>1 DEF LoopInit, ReturnedLate
<1>5. QED
  BY <1>1, <1>2, <1>3, <1>4 DEF LoopInv

\* A stride that is taken leaves the others waiting.
LEMMA TakeInv ==
  ASSUME LoopInv, NEW t \in Threads, Take(t)
  PROVE  LoopInv'
<1> USE DEF LoopInv
<1>1. PICK m \in waiting : /\ waiting' = waiting \ {m}
                           /\ major' = [major EXCEPT ![t] = m * Stride]
  BY DEF Take
<1>2. /\ major[t] = None /\ minor' = [minor EXCEPT ![t] = 0]
      /\ inside' = inside /\ calls' = calls /\ returned' = returned
  BY DEF Take
<1> DEFINE b == m * Stride
<1>3. m \in Majors /\ b \in Bases /\ b \in Waiting /\ b \in Nat /\ b # None
  BY <1>1, BasesAreLoopNumbers DEF LoopTypeOK, Bases, Waiting, None
<1>4. Waiting' = Waiting \ {b}
  <2>1. ASSUME NEW n \in waiting, n # m PROVE n * Stride # b
    <3>1. n \in Nat /\ m \in Nat
      BY <2>1, <1>3 DEF LoopTypeOK, Majors
    <3>2. QED
      BY <2>1, <3>1, Injective
  <2>2. Waiting' = {n * Stride : n \in waiting'}
    BY DEF Waiting
  <2>3. QED
    BY <2>1, <2>2, <1>1 DEF Waiting
<1> HIDE DEF b
<1>5. major' = [major EXCEPT ![t] = b] /\ inside[t] = None
  BY <1>1, <1>2 DEF b, InsideWhere
<1>6. /\ major'[t] = b /\ minor'[t] = 0
      /\ \A u \in Threads : u # t => major'[u] = major[u] /\ minor'[u] = minor[u]
  BY <1>2, <1>5 DEF LoopTypeOK
<1>7. LoopTypeOK'
  BY <1>1, <1>2, <1>3, <1>5, LoopNumbers DEF LoopTypeOK
<1>8. InsideWhere'
  BY <1>2, <1>5, <1>6 DEF InsideWhere
<1>9. OneThreadEach'
  BY <1>3, <1>4, <1>6 DEF OneThreadEach
<1>10. CallsSoFar'
  <2> SUFFICES ASSUME NEW i \in Items
               PROVE  /\ BaseOf(i) \in Waiting' => calls[i] = 0
                      /\ \A u \in Threads : major'[u] = BaseOf(i) =>
                           calls[i] = IF Begun(u, i)' THEN 1 ELSE 0
                      /\ (BaseOf(i) \notin Waiting' /\ \A u \in Threads : major'[u] # BaseOf(i)) =>
                           calls[i] = 1
    BY <1>2 DEF CallsSoFar
  <2>1. BaseOf(i) \in Nat /\ BaseOf(i) <= i /\ i \in Nat
    <3>1. BaseOf(i) \in Bases /\ BaseOf(i) <= i
      BY Covered
    <3>2. BaseOf(i) \in Nat
      BY <3>1, BasesAreLoopNumbers
    <3>3. i \in Nat
      BY LoopNumbers DEF Items
    <3>4. QED
      BY <3>1, <3>2, <3>3
  <2>2. CASE BaseOf(i) = b
    <3>1. calls[i] = 0
      BY <2>2, <1>3 DEF CallsSoFar
    <3>2. \A u \in Threads : major'[u] = b => u = t
      BY <1>3, <1>6 DEF OneThreadEach
    <3>3. inside'[t] # i
      BY <1>2, <1>5, <2>1 DEF None
    <3>4. ~ Begun(t, i)'
      BY <1>3, <1>6, <2>1, <2>2, <3>3 DEF Begun
    <3>5. QED
      BY <1>4, <1>6, <2>2, <3>1, <3>2, <3>4
  <2>3. CASE BaseOf(i) # b
    <3>1. \A u \in Threads : major'[u] = BaseOf(i) => u # t /\ major[u] = BaseOf(i)
      BY <1>6, <2>3
    <3>2. \A u \in Threads : u # t => (Begun(u, i)' <=> Begun(u, i))
      BY <1>2, <1>6 DEF Begun
    <3>3. \A u \in Threads : major[u] = BaseOf(i) => u # t
      BY <1>2, <2>1 DEF None
    <3>4. QED
      BY <1>4, <1>6, <2>3, <3>1, <3>2, <3>3 DEF CallsSoFar
  <2>4. QED
    BY <2>2, <2>3
<1>11. ReturnedLate'
  BY <1>1, <1>2 DEF ReturnedLate
<1>12. QED
  BY <1>7, <1>8, <1>9, <1>10, <1>11

\* LoopNumbers the counters of a thread in a stride are made of.
LEMMA Counters ==
  ASSUME LoopTypeOK, NEW t \in Threads, major[t] # None
  PROVE  major[t] \in Bases /\ major[t] \in Nat /\ minor[t] \in Nat /\ minor[t] <= Stride
<1>1. major[t] \in Bases /\ minor[t] \in 0 .. Stride
  BY DEF LoopTypeOK
<1>2. major[t] \in Nat
  BY <1>1, BasesAreLoopNumbers
<1>3. minor[t] \in Nat /\ minor[t] <= Stride
  BY <1>1, LoopNumbers
<1>4. QED
  BY <1>1, <1>2, <1>3

\* An iteration is called once its turn has come, and for the first time.
LEMMA CallInv ==
  ASSUME LoopInv, NEW t \in Threads, Call(t)
  PROVE  LoopInv'
<1> USE DEF LoopInv
<1> DEFINE c == major[t] + minor[t]
<1>1. /\ major[t] # None /\ inside[t] = None
      /\ minor[t] < Stride /\ c < Iterations
      /\ inside' = [inside EXCEPT ![t] = c]
      /\ calls' = [calls EXCEPT ![c] = @ + 1]
      /\ waiting' = waiting /\ major' = major /\ minor' = minor /\ returned' = returned
  BY DEF Call, InStride, InRange
<1>2. major[t] \in Bases /\ major[t] \in Nat /\ minor[t] \in Nat
  BY <1>1, Counters
<1>3. c \in Items /\ c \in Nat /\ c # None
  BY <1>1, <1>2, LoopNumbers DEF Items, None
<1>4. major[t] = BaseOf(c)
  <2>1. major[t] <= c /\ c < major[t] + Stride
    BY <1>1, <1>2, LoopNumbers
  <2>2. QED
    BY <1>2, <1>3, <2>1, OneStride
<1>5. calls[c] = 0
  <2>1. ~ Begun(t, c)
    BY <1>1, <1>2, <1>3 DEF Begun
  <2>2. QED
    BY <1>3, <1>4, <2>1 DEF CallsSoFar
<1>6. /\ inside'[t] = c
      /\ \A u \in Threads : u # t => inside'[u] = inside[u]
      /\ calls'[c] = 1
      /\ \A i \in Items : i # c => calls'[i] = calls[i]
  BY <1>1, <1>3, <1>5 DEF LoopTypeOK
<1>7. Waiting' = Waiting
  BY <1>1 DEF Waiting
<1> HIDE DEF c
<1>8. LoopTypeOK'
  BY <1>1, <1>3 DEF LoopTypeOK
<1>9. InsideWhere'
  BY <1>1, <1>6 DEF InsideWhere, c
<1>10. OneThreadEach'
  BY <1>1, <1>7 DEF OneThreadEach
<1>11. CallsSoFar'
  <2> SUFFICES ASSUME NEW i \in Items
               PROVE  /\ BaseOf(i) \in Waiting => calls'[i] = 0
                      /\ \A u \in Threads : major[u] = BaseOf(i) =>
                           calls'[i] = IF Begun(u, i)' THEN 1 ELSE 0
                      /\ (BaseOf(i) \notin Waiting /\ \A u \in Threads : major[u] # BaseOf(i)) =>
                           calls'[i] = 1
    BY <1>1, <1>7 DEF CallsSoFar
  <2>1. CASE i = c
    <3>1. BaseOf(i) \notin Waiting
      BY <1>1, <1>4, <2>1 DEF OneThreadEach
    <3>2. \A u \in Threads : major[u] = BaseOf(i) => u = t
      BY <1>1, <1>4, <2>1 DEF OneThreadEach
    <3>3. Begun(t, i)'
      BY <1>6, <2>1 DEF Begun
    <3>4. QED
      BY <1>6, <2>1, <3>1, <3>2, <3>3
  <2>2. CASE i # c
    <3>1. \A u \in Threads : u # t => (Begun(u, i)' <=> Begun(u, i))
      BY <1>1, <1>6 DEF Begun
    <3>2. Begun(t, i)' <=> Begun(t, i)
      <4>1. i # None
        BY DEF Items, None
      <4>2. QED
        BY <1>1, <1>6, <2>2, <4>1 DEF Begun
    <3>3. QED
      BY <1>6, <2>2, <3>1, <3>2 DEF CallsSoFar
  <2>3. QED
    BY <2>1, <2>2
<1>12. ReturnedLate'
  BY <1>1 DEF ReturnedLate
<1>13. QED
  BY <1>8, <1>9, <1>10, <1>11, <1>12

LEMMA CallOverInv ==
  ASSUME LoopInv, NEW t \in Threads, CallOver(t)
  PROVE  LoopInv'
<1> USE DEF LoopInv
<1>1. /\ inside[t] # None
      /\ inside' = [inside EXCEPT ![t] = None]
      /\ minor' = [minor EXCEPT ![t] = @ + 1]
      /\ waiting' = waiting /\ major' = major /\ calls' = calls /\ returned' = returned
  BY DEF CallOver
<1>2. major[t] # None /\ inside[t] = major[t] + minor[t] /\ minor[t] < Stride
  BY <1>1 DEF InsideWhere
<1>3. major[t] \in Nat /\ minor[t] \in Nat
  BY <1>2, Counters
<1>4. /\ inside'[t] = None /\ minor'[t] = minor[t] + 1
      /\ \A u \in Threads : u # t => inside'[u] = inside[u] /\ minor'[u] = minor[u]
  BY <1>1 DEF LoopTypeOK
<1>5. Waiting' = Waiting
  BY <1>1 DEF Waiting
<1>6. LoopTypeOK'
  <2>1. minor[t] + 1 \in 0 .. Stride
    BY <1>2, <1>3, LoopNumbers
  <2>2. QED
    BY <1>1, <2>1 DEF LoopTypeOK
<1>7. InsideWhere'
  BY <1>1, <1>4 DEF InsideWhere
<1>8. OneThreadEach'
  BY <1>1, <1>5 DEF OneThreadEach
<1>9. CallsSoFar'
  <2>1. ASSUME NEW i \in Items, NEW u \in Threads
        PROVE  Begun(u, i)' <=> Begun(u, i)
    <3>1. CASE u # t
      BY <1>1, <1>4, <3>1 DEF Begun
    <3>2. CASE u = t
      <4>1. i \in Nat /\ i # None
        BY DEF Items, None
      <4>2. i < major[t] + (minor[t] + 1) <=> i < major[t] + minor[t] \/ i = major[t] + minor[t]
        BY <1>3, <4>1
      <4>3. QED
        BY <1>1, <1>2, <1>4, <3>2, <4>1, <4>2 DEF Begun
    <3>3. QED
      BY <3>1, <3>2
  <2>2. QED
    BY <1>1, <1>5, <2>1 DEF CallsSoFar
<1>10. ReturnedLate'
  BY <1>1 DEF ReturnedLate
<1>11. QED
  BY <1>6, <1>7, <1>8, <1>9, <1>10

\* A thread leaves its stride only when every iteration of it has been called.
LEMMA StrideOverInv ==
  ASSUME LoopInv, NEW t \in Threads, StrideOver(t)
  PROVE  LoopInv'
<1> USE DEF LoopInv
<1>1. /\ major[t] # None /\ inside[t] = None
      /\ ~ (minor[t] < Stride /\ major[t] + minor[t] < Iterations)
      /\ major' = [major EXCEPT ![t] = None]
      /\ waiting' = waiting /\ minor' = minor /\ inside' = inside
      /\ calls' = calls /\ returned' = returned
  BY DEF StrideOver, InStride, InRange
<1>2. major[t] \in Bases /\ major[t] \in Nat /\ minor[t] \in Nat /\ minor[t] <= Stride
  BY <1>1, Counters
<1>3. major'[t] = None /\ \A u \in Threads : u # t => major'[u] = major[u]
  BY <1>1 DEF LoopTypeOK
<1>4. Waiting' = Waiting
  BY <1>1 DEF Waiting
<1>5. LoopTypeOK'
  BY <1>1 DEF LoopTypeOK
<1>6. InsideWhere'
  BY <1>1, <1>3 DEF InsideWhere
<1>7. OneThreadEach'
  BY <1>1, <1>3, <1>4 DEF OneThreadEach
<1>8. CallsSoFar'
  <2> SUFFICES ASSUME NEW i \in Items
               PROVE  /\ BaseOf(i) \in Waiting => calls[i] = 0
                      /\ \A u \in Threads : major'[u] = BaseOf(i) =>
                           calls[i] = IF Begun(u, i)' THEN 1 ELSE 0
                      /\ (BaseOf(i) \notin Waiting /\ \A u \in Threads : major'[u] # BaseOf(i)) =>
                           calls[i] = 1
    BY <1>1, <1>4 DEF CallsSoFar
  <2>1. BaseOf(i) \in Bases /\ BaseOf(i) <= i /\ i < BaseOf(i) + Stride
    BY Covered
  <2>2. BaseOf(i) # None /\ i \in Nat /\ i < Iterations
    BY <2>1, BasesAreLoopNumbers, LoopNumbers DEF Items, None
  <2>3. \A u \in Threads : major'[u] = BaseOf(i) => u # t /\ major[u] = BaseOf(i)
    BY <1>3, <2>2
  <2>4. \A u \in Threads : u # t => (Begun(u, i)' <=> Begun(u, i))
    BY <1>1, <1>3 DEF Begun
  <2>5. major[t] = BaseOf(i) => calls[i] = 1
    <3>1. ASSUME major[t] = BaseOf(i) PROVE i < major[t] + minor[t]
      BY <1>1, <1>2, <2>1, <2>2, <3>1, LoopNumbers
    <3>2. QED
      BY <3>1 DEF CallsSoFar, Begun
  <2>6. QED
    BY <1>3, <2>3, <2>4, <2>5 DEF CallsSoFar
<1>9. ReturnedLate'
  BY <1>1, <1>3 DEF ReturnedLate
<1>10. QED
  BY <1>5, <1>6, <1>7, <1>8, <1>9

\* Nothing the invariant speaks of changes but the flag.
LEMMA ReturnInv ==
  ASSUME LoopInv, Return
  PROVE  LoopInv'
BY DEF LoopInv, Return, LoopTypeOK, InsideWhere, OneThreadEach, CallsSoFar, Begun, Waiting, ReturnedLate

LEMMA StutterInv ==
  ASSUME LoopInv, UNCHANGED loopvars
  PROVE  LoopInv'
BY DEF LoopInv, loopvars, LoopTypeOK, InsideWhere, OneThreadEach, CallsSoFar, Begun, Waiting, ReturnedLate

LEMMA StepInv == LoopInv /\ [LoopNext]_loopvars => LoopInv'
<1> SUFFICES ASSUME LoopInv, [LoopNext]_loopvars PROVE LoopInv'
  OBVIOUS
<1>1. ASSUME NEW t \in Threads, Take(t) PROVE LoopInv'
  BY <1>1, TakeInv
<1>2. ASSUME NEW t \in Threads, Call(t) PROVE LoopInv'
  BY <1>2, CallInv
<1>3. ASSUME NEW t \in Threads, CallOver(t) PROVE LoopInv'
  BY <1>3, CallOverInv
<1>4. ASSUME NEW t \in Threads, StrideOver(t) PROVE LoopInv'
  BY <1>4, StrideOverInv
<1>5. CASE Return
  BY <1>5, ReturnInv
<1>6. CASE UNCHANGED loopvars
  BY <1>6, StutterInv
<1>7. QED
  BY <1>1, <1>2, <1>3, <1>4, <1>5, <1>6 DEF LoopNext, LoopOver

-----------------------------------------------------------------------------
(* What follows.                                                           *)

\* Two threads in func for one iteration would be in one stride.
LEMMA InvNoRace == LoopInv => NoRace
<1> SUFFICES ASSUME LoopInv PROVE NoRace
  OBVIOUS
<1> USE DEF LoopInv
<1>1. ASSUME NEW t \in Threads, inside[t] # None
      PROVE  inside[t] \in Items /\ major[t] = BaseOf(inside[t])
  <2>1. /\ major[t] # None /\ inside[t] = major[t] + minor[t] /\ minor[t] < Stride
        /\ inside[t] \in Items
    BY <1>1 DEF InsideWhere, LoopTypeOK
  <2>2. major[t] \in Bases /\ major[t] \in Nat /\ minor[t] \in Nat
    BY <2>1, Counters
  <2>3. major[t] <= inside[t] /\ inside[t] < major[t] + Stride
    BY <2>1, <2>2, LoopNumbers
  <2>4. QED
    BY <2>1, <2>2, <2>3, OneStride
<1>2. ASSUME NEW t \in Threads, NEW u \in Threads, t # u, inside[t] # None
      PROVE  inside[t] # inside[u]
  <2>1. SUFFICES ASSUME inside[t] = inside[u] PROVE FALSE
    OBVIOUS
  <2>2. major[t] = major[u] /\ major[t] # None
    BY <1>1, <1>2, <2>1 DEF InsideWhere
  <2>3. QED
    BY <1>2, <2>2 DEF OneThreadEach
<1>3. ASSUME NEW i \in Items PROVE calls[i] <= 1
  <2>1. calls[i] = 0 \/ calls[i] = 1
    BY DEF CallsSoFar
  <2>2. QED
    BY <2>1
<1>4. QED
  BY <1>2, <1>3 DEF NoRace

LEMMA InvAllDone == LoopInv => AllDone
<1> SUFFICES ASSUME LoopInv, returned, NEW i \in Items
             PROVE  calls[i] = 1 /\ \A t \in Threads : inside[t] # i
  BY DEF AllDone
<1> USE DEF LoopInv
<1>1. Waiting = {} /\ \A t \in Threads : major[t] = None
  BY DEF ReturnedLate, Waiting
<1>2. BaseOf(i) \in Nat
  <2>1. BaseOf(i) \in Bases
    BY Covered
  <2>2. QED
    BY <2>1, BasesAreLoopNumbers
<1>3. calls[i] = 1
  BY <1>1, <1>2 DEF CallsSoFar, None
<1>4. i # None
  BY LoopNumbers DEF Items, None
<1>5. \A t \in Threads : inside[t] # i
  BY <1>1, <1>4 DEF InsideWhere
<1>6. QED
  BY <1>3, <1>5

\* The unlocked writes of func never meet: for any number of threads and any
\* stride, no two threads are in func for one iteration and none is repeated.
THEOREM RaceFree == LoopSpec => []NoRace
<1>1. LoopSpec => []LoopInv
  BY InitInv, StepInv, PTL DEF LoopSpec
<1>2. QED
  BY <1>1, InvNoRace, PTL

\* When dispatch_apply returns, min_element finds every candidate estimated,
\* for any number of iterations, also when the last stride is not full.
THEOREM NothingMissing == LoopSpec => []AllDone
<1>1. LoopSpec => []LoopInv
  BY InitInv, StepInv, PTL DEF LoopSpec
<1>2. QED
  BY <1>1, InvAllDone, PTL

=============================================================================
