------------------------- MODULE StreamCacheProofs -------------------------
(***************************************************************************)
(* Proofs about the cache file, for any blocks, shifts and models and any  *)
(* number of runs.                                                         *)
(*                                                                         *)
(* A cache cut short by a crash or a full disk is never used: the third    *)
(* field says how many entries follow, and a reader asks for three fields  *)
(* more for each of them.  So all that is needed is to know, while the     *)
(* file is being written, that what has been written and what has not add  *)
(* up to that number (Inv).                                                *)
(*                                                                         *)
(* A cache that is all there gives back the decision of the run that wrote *)
(* it, and a decision packs whatever blocks it is applied to as long as    *)
(* there are as many of them (Made).                                       *)
(***************************************************************************)
EXTENDS StreamCache, Induction, TLAPS

\* Cut short between the fields written and those in rest, for n entries.
Between(written, rest, n) ==
  /\ Len(written) + Len(rest) = 3 + 3 * n
  /\ Len(written) >= 3 => written[3] = n
  /\ Len(written) < 3 => rest[3 - Len(written)] = n

Typed == \E Fields : file \in Seq(Fields) /\ unsaved \in Seq(Fields)

Writing ==
  unsaved # <<>> =>
    /\ phase = "writing" /\ author = Nobody
    /\ \E n \in Nat : Between(file, unsaved, n)

-----------------------------------------------------------------------------
(* Joining neighbouring blocks.                                            *)

\* Where the first k joined blocks end.
Upto(ends, k) == IF k = 0 THEN 0 ELSE ends[k]

\* The ways to join n blocks.
Splits(n) ==
  {ends \in UNION {[1 .. m -> 1 .. n] : m \in 1 .. n} :
     /\ ends[Len(ends)] = n
     /\ \A k \in 1 .. Len(ends) - 1 : ends[k] < ends[k + 1]}

Piece(bs, ends, k) == Joined(SubSeq(bs, Upto(ends, k - 1) + 1, ends[k]))

\* What a run makes of bs when it joins them at ends.
Cut(bs, ends, tokens) ==
  [k \in DOMAIN ends |->
     Final(ends[k] - Upto(ends, k - 1), Piece(bs, ends, k), tokens[k])]

Searched(bs, entries) ==
  \E ends \in Splits(Len(bs)), tokens \in [1 .. Len(bs) -> Tokens] : entries = Cut(bs, ends, tokens)

Blocks == {bs \in Seq(Seq(Nat)) : bs # <<>> /\ \A i \in 1 .. Len(bs) : bs[i] # <<>>}

LEMMA SplitOrder ==
  ASSUME NEW n \in Nat, NEW ends \in Splits(n)
  PROVE  \E m \in 1 .. n :
           /\ ends \in [1 .. m -> 1 .. n] /\ DOMAIN ends = 1 .. m /\ Upto(ends, m) = n
           /\ \A k \in 1 .. m : /\ Upto(ends, k - 1) \in 0 .. n - 1 /\ Upto(ends, k) = ends[k]
                                /\ Upto(ends, k - 1) < ends[k] /\ ends[k] \in 1 .. n
<1>1. PICK m \in 1 .. n : ends \in [1 .. m -> 1 .. n]
  BY DEF Splits
<1>2. Len(ends) = m /\ m \in Nat
  <2>1. m \in Nat
    OBVIOUS
  <2>2. ends \in Seq(1 .. n) /\ DOMAIN ends = 1 .. m
    BY <1>1, <2>1
  <2> QED  BY <2>1, <2>2
<1>3. ends[m] = n /\ \A k \in 1 .. m - 1 : ends[k] < ends[k + 1]
  BY <1>2 DEF Splits
<1>4. ASSUME NEW k \in 1 .. m
      PROVE  /\ Upto(ends, k - 1) \in 0 .. n - 1 /\ Upto(ends, k) = ends[k]
             /\ Upto(ends, k - 1) < ends[k] /\ ends[k] \in 1 .. n
  <2>1. ends[k] \in 1 .. n /\ k # 0
    BY <1>1
  <2>2. CASE k = 1
    <3>1. Upto(ends, k - 1) = 0
      BY <2>2 DEF Upto
    <3>2. Upto(ends, k) = ends[k]
      BY <2>2 DEF Upto
    <3> QED  BY <2>1, <3>1, <3>2
  <2>3. CASE k # 1
    <3>1. PICK j \in 1 .. m - 1 : k = j + 1
      <4>1. k - 1 \in 1 .. m - 1 /\ k = (k - 1) + 1
        BY <2>3
      <4> QED  BY <4>1
    <3>2. k - 1 = j /\ j # 0
      BY <3>1
    <3>3. ends[j] \in 1 .. n /\ ends[j] < ends[k]
      BY <1>1, <1>3, <3>1
    <3>4. Upto(ends, k - 1) = ends[j] /\ Upto(ends, k) = ends[k]
      BY <2>1, <3>2 DEF Upto
    <3> QED  BY <2>1, <3>3, <3>4
  <2> QED  BY <2>2, <2>3
<1>5. Upto(ends, m) = n
  BY <1>3, <1>4
<1> QED  BY <1>1, <1>4, <1>5

\* The counts add up to where a joined block ends.
LEMMA CountsAddUp ==
  ASSUME NEW n \in Nat, NEW ends \in Splits(n), NEW j \in Nat, j <= Len(ends)
  PROVE  StartOf(Counts(ends), j) = Upto(ends, j)
<1> DEFINE counts == Counts(ends)
           N      == {k \in Nat : k <= Len(ends) => Total(SubSeq(counts, 1, k)) = Upto(ends, k)}
<1>1. PICK m \in 1 .. n :
        /\ ends \in [1 .. m -> 1 .. n] /\ DOMAIN ends = 1 .. m
        /\ \A k \in 1 .. m : /\ Upto(ends, k - 1) \in 0 .. n - 1 /\ Upto(ends, k) = ends[k]
                             /\ ends[k] \in 1 .. n
  BY SplitOrder
<1>2. Len(ends) = m /\ m \in Nat
  <2>1. m \in Nat
    OBVIOUS
  <2>2. ends \in Seq(1 .. n) /\ DOMAIN ends = 1 .. m
    BY <1>1, <2>1
  <2> QED  BY <2>1, <2>2
<1>3. \A k \in 1 .. m : counts[k] = ends[k] - Upto(ends, k - 1) /\ counts[k] \in Int
  <2> SUFFICES ASSUME NEW k \in 1 .. m
               PROVE  counts[k] = ends[k] - Upto(ends, k - 1) /\ counts[k] \in Int
    OBVIOUS
  <2>1. Upto(ends, k - 1) = IF k = 1 THEN 0 ELSE ends[k - 1]
    BY DEF Upto
  <2>2. counts[k] = ends[k] - Upto(ends, k - 1)
    BY <1>1, <2>1 DEF Counts
  <2> QED  BY <1>1, <2>2
<1>4. counts \in Seq(Int) /\ Len(counts) = m
  <2>1. DOMAIN counts = 1 .. m /\ counts = [k \in 1 .. m |-> counts[k]]
    BY <1>1 DEF Counts
  <2> HIDE DEF counts
  <2>2. counts \in [1 .. m -> Int]
    BY <1>3, <2>1
  <2> QED  BY <1>2, <2>2
<1> HIDE DEF counts
<1>5. 0 \in N
  <2>1. SubSeq(counts, 1, 0) = <<>>
    BY <1>4
  <2>2. Upto(ends, 0) = 0
    BY DEF Upto
  <2> QED  BY <2>1, <2>2, TotalEmpty
<1>6. ASSUME NEW k \in N PROVE k + 1 \in N
  <2> SUFFICES ASSUME k + 1 <= Len(ends)
               PROVE  Total(SubSeq(counts, 1, k + 1)) = Upto(ends, k + 1)
    OBVIOUS
  <2>1. k \in Nat /\ k + 1 <= m /\ k <= Len(ends)
    BY <1>2
  <2>2. PICK i \in 1 .. m : i = k + 1 /\ i - 1 = k
    BY <2>1
  <2>3. Total(SubSeq(counts, 1, k)) = Upto(ends, k)
    BY <2>1
  <2>4. SubSeq(counts, 1, i) = Append(SubSeq(counts, 1, k), counts[i])
        /\ SubSeq(counts, 1, k) \in Seq(Int) /\ counts[i] \in Int
    BY <1>4, <2>1, <2>2, Grow
  <2>5. Total(SubSeq(counts, 1, i)) = Upto(ends, k) + counts[i]
    BY <2>3, <2>4, TotalAppend
  <2>6. counts[i] = ends[i] - Upto(ends, i - 1)
    BY <1>3
  <2>7. Upto(ends, i) = ends[i] /\ Upto(ends, i - 1) \in Int /\ ends[i] \in Int
    <3>1. Upto(ends, i - 1) \in 0 .. n - 1 /\ Upto(ends, i) = ends[i] /\ ends[i] \in 1 .. n
      BY <1>1, Zenon
    <3> QED  BY <3>1
  <2>8. Total(SubSeq(counts, 1, i)) = Upto(ends, i)
    BY <2>2, <2>5, <2>6, <2>7
  <2> QED  BY <2>2, <2>8
<1> HIDE DEF N
<1>7. N = Nat
  <2>1. N \in SUBSET Nat
    BY DEF N
  <2> QED  BY <1>5, <1>6, <2>1, SetInduction
<1>8. Total(SubSeq(counts, 1, j)) = Upto(ends, j)
  BY <1>7 DEF N
<1> QED  BY <1>8 DEF StartOf, Total, counts

\* All joined blocks together are the blocks.
LEMMA PiecesJoin ==
  ASSUME NEW bs \in Seq(Seq(Nat)), NEW ends \in Splits(Len(bs))
  PROVE  Joined([k \in DOMAIN ends |-> Piece(bs, ends, k)]) = Joined(bs)
<1> DEFINE n      == Len(bs)
           pieces == [k \in DOMAIN ends |-> Piece(bs, ends, k)]
<1>1. n \in Nat
  OBVIOUS
<1> HIDE DEF n
<1>2. PICK m \in 1 .. n :
        /\ ends \in [1 .. m -> 1 .. n] /\ DOMAIN ends = 1 .. m /\ Upto(ends, m) = n
        /\ \A k \in 1 .. m : /\ Upto(ends, k - 1) \in 0 .. n - 1 /\ Upto(ends, k) = ends[k]
                             /\ Upto(ends, k - 1) < ends[k] /\ ends[k] \in 1 .. n
  BY <1>1, SplitOrder DEF n
<1>3. m \in Nat
  OBVIOUS
<1>4. \A a, b \in Int : 1 <= a /\ b <= n => SubSeq(bs, a, b) \in Seq(Seq(Nat))
  BY <1>1 DEF n
<1>5. ASSUME NEW k \in 1 .. m
      PROVE  /\ pieces[k] = FlattenSeq(SubSeq(bs, Upto(ends, k - 1) + 1, ends[k]))
             /\ pieces[k] \in Seq(Nat)
  <2>1. pieces[k] = FlattenSeq(SubSeq(bs, Upto(ends, k - 1) + 1, ends[k]))
    BY <1>2 DEF Piece, Joined
  <2>2. Upto(ends, k - 1) \in 0 .. n - 1 /\ ends[k] \in 1 .. n
    BY <1>2, Zenon
  <2>3. Upto(ends, k - 1) + 1 \in Int /\ ends[k] \in Int /\ 1 <= Upto(ends, k - 1) + 1 /\ ends[k] <= n
    BY <1>1, <2>2
  <2>4. SubSeq(bs, Upto(ends, k - 1) + 1, ends[k]) \in Seq(Seq(Nat))
    BY <1>4, <2>3
  <2> QED  BY <2>1, <2>4, FlattenType
<1>6. pieces \in Seq(Seq(Nat)) /\ Len(pieces) = m
  <2>1. DOMAIN pieces = 1 .. m /\ pieces = [k \in 1 .. m |-> pieces[k]]
    BY <1>2
  <2> HIDE DEF pieces
  <2>2. pieces \in [1 .. m -> Seq(Nat)]
    BY <1>5, <2>1
  <2> QED  BY <1>3, <2>2
<1> DEFINE N == {k \in Nat : k <= m => FlattenSeq(SubSeq(pieces, 1, k))
                                        = FlattenSeq(SubSeq(bs, 1, Upto(ends, k)))}
<1> HIDE DEF pieces
<1>7. 0 \in N
  <2>1. Upto(ends, 0) = 0
    BY DEF Upto
  <2>2. SubSeq(pieces, 1, 0) = <<>> /\ SubSeq(bs, 1, 0) = <<>>
    BY <1>6
  <2> QED  BY <2>1, <2>2
<1>8. ASSUME NEW k \in N PROVE k + 1 \in N
  <2> SUFFICES ASSUME k + 1 <= m
               PROVE  FlattenSeq(SubSeq(pieces, 1, k + 1)) = FlattenSeq(SubSeq(bs, 1, Upto(ends, k + 1)))
    OBVIOUS
  <2>1. k \in Nat /\ k <= m
    BY <1>3
  <2>2. PICK i \in 1 .. m : i = k + 1 /\ i - 1 = k
    BY <1>3, <2>1
  <2>3. PICK a : a = Upto(ends, k)
    OBVIOUS
  <2>4. a \in 0 .. n - 1 /\ a < ends[i] /\ ends[i] \in 1 .. n /\ Upto(ends, i) = ends[i]
        /\ Upto(ends, i - 1) = a
    BY <1>2, <2>2, <2>3
  <2>5. FlattenSeq(SubSeq(pieces, 1, k)) = FlattenSeq(SubSeq(bs, 1, a))
    BY <2>1, <2>3
  <2>6. SubSeq(pieces, 1, i) = Append(SubSeq(pieces, 1, k), pieces[i])
        /\ SubSeq(pieces, 1, k) \in Seq(Seq(Nat)) /\ pieces[i] \in Seq(Nat)
    BY <1>6, <2>1, <2>2, Grow
  <2>7. FlattenSeq(SubSeq(pieces, 1, i)) = FlattenSeq(SubSeq(bs, 1, a)) \o pieces[i]
    BY <2>5, <2>6, FlattenAppend
  <2>8. pieces[i] = FlattenSeq(SubSeq(bs, a + 1, ends[i]))
    BY <1>5, <2>4
  <2>9. SubSeq(bs, 1, a) \in Seq(Seq(Nat)) /\ SubSeq(bs, a + 1, ends[i]) \in Seq(Seq(Nat))
    BY <1>1, <1>4, <2>4
  <2>10. SubSeq(bs, 1, a) \o SubSeq(bs, a + 1, ends[i]) = SubSeq(bs, 1, ends[i])
    <3>1. 1 \in 1 .. Len(bs) + 1 /\ a \in 1 - 1 .. Len(bs) /\ ends[i] \in a .. Len(bs)
      BY <1>1, <2>4 DEF n
    <3> QED  BY <3>1, ConcatAdjacentSubSeq
  <2>11. FlattenSeq(SubSeq(pieces, 1, i)) = FlattenSeq(SubSeq(bs, 1, ends[i]))
    <3> DEFINE x == SubSeq(bs, 1, a)
               y == SubSeq(bs, a + 1, ends[i])
    <3>1. x \in Seq(Seq(Nat)) /\ y \in Seq(Seq(Nat)) /\ x \o y = SubSeq(bs, 1, ends[i])
      BY <2>9, <2>10
    <3>2. FlattenSeq(SubSeq(pieces, 1, i)) = FlattenSeq(x) \o FlattenSeq(y)
      BY <2>7, <2>8
    <3> HIDE DEF x, y
    <3>3. FlattenSeq(x \o y) = FlattenSeq(x) \o FlattenSeq(y)
      BY <3>1, FlattenConcat
    <3> QED  BY <3>1, <3>2, <3>3
  <2> QED  BY <2>2, <2>4, <2>11
<1> HIDE DEF N
<1>9. N = Nat
  <2>1. N \in SUBSET Nat
    BY DEF N
  <2> QED  BY <1>7, <1>8, <2>1, SetInduction
<1>10. FlattenSeq(SubSeq(pieces, 1, m)) = FlattenSeq(SubSeq(bs, 1, n))
  <2>1. m \in N /\ m <= m
    BY <1>3, <1>9
  <2>2. FlattenSeq(SubSeq(pieces, 1, m)) = FlattenSeq(SubSeq(bs, 1, Upto(ends, m)))
    BY <2>1 DEF N
  <2> QED  BY <1>2, <2>2
<1>11. SubSeq(pieces, 1, m) = pieces /\ SubSeq(bs, 1, n) = bs
  BY <1>6, SubSeqFull DEF n
<1> QED  BY <1>10, <1>11 DEF Joined, pieces

\* A joined block is not empty when the blocks in it are not.
LEMMA PieceNotEmpty ==
  ASSUME NEW bs \in Blocks, NEW a \in 0 .. Len(bs) - 1, NEW b \in 1 .. Len(bs), a < b
  PROVE  /\ Joined(SubSeq(bs, a + 1, b)) \in Seq(Nat)
         /\ Joined(SubSeq(bs, a + 1, b)) # <<>>
<1>1. bs \in Seq(Seq(Nat)) /\ Len(bs) \in Nat
  BY DEF Blocks
<1>2. bs[b] \in Seq(Nat) /\ bs[b] # <<>>
  BY <1>1 DEF Blocks
<1>3. /\ SubSeq(bs, a + 1, b) = Append(SubSeq(bs, a + 1, b - 1), bs[b])
      /\ SubSeq(bs, a + 1, b - 1) \in Seq(Seq(Nat))
  BY <1>1
<1>4. Joined(SubSeq(bs, a + 1, b)) = FlattenSeq(SubSeq(bs, a + 1, b - 1)) \o bs[b]
  BY <1>2, <1>3, FlattenAppend DEF Joined
<1>5. FlattenSeq(SubSeq(bs, a + 1, b - 1)) \in Seq(Nat)
  BY <1>3, FlattenType
<1>6. \A x, y \in Seq(Nat) : y # <<>> => x \o y # <<>> /\ x \o y \in Seq(Nat)
  OBVIOUS
<1> QED  BY <1>2, <1>4, <1>5, <1>6

\* What PacksTheInput asks of the entries made of bs.
Packs(bs, entries) ==
  /\ Joined([k \in DOMAIN entries |-> entries[k].data]) = Joined(bs)
  /\ \A k \in DOMAIN entries :
       entries[k].header.size = Len(entries[k].data) /\ entries[k].data # <<>>

LEMMA SearchedPacks ==
  ASSUME NEW bs \in Blocks, NEW entries, Searched(bs, entries)
  PROVE  Packs(bs, entries)
<1>1. PICK ends \in Splits(Len(bs)), tokens \in [1 .. Len(bs) -> Tokens] :
            entries = Cut(bs, ends, tokens)
  BY DEF Searched
<1>2. bs \in Seq(Seq(Nat)) /\ Len(bs) \in Nat
  BY DEF Blocks
<1>3. PICK m \in 1 .. Len(bs) :
        /\ DOMAIN ends = 1 .. m
        /\ \A k \in 1 .. m : /\ Upto(ends, k - 1) \in 0 .. Len(bs) - 1 /\ ends[k] \in 1 .. Len(bs)
                             /\ Upto(ends, k - 1) < ends[k]
  BY <1>2, SplitOrder
<1>4. DOMAIN entries = DOMAIN ends
      /\ \A k \in DOMAIN ends : /\ entries[k].data = Piece(bs, ends, k)
                                /\ entries[k].header.size = Len(entries[k].data)
  BY <1>1 DEF Cut, Final
<1>5. [k \in DOMAIN entries |-> entries[k].data] = [k \in DOMAIN ends |-> Piece(bs, ends, k)]
  BY <1>4
<1>6. Joined([k \in DOMAIN entries |-> entries[k].data]) = Joined(bs)
  BY <1>2, <1>5, PiecesJoin
<1>7. ASSUME NEW k \in DOMAIN ends PROVE Piece(bs, ends, k) # <<>>
  <2>1. Upto(ends, k - 1) \in 0 .. Len(bs) - 1 /\ ends[k] \in 1 .. Len(bs)
        /\ Upto(ends, k - 1) < ends[k]
    BY <1>3, Zenon
  <2> QED  BY <2>1, PieceNotEmpty DEF Piece
<1> QED  BY <1>4, <1>6, <1>7, Zenon DEF Packs

\* The entries that a combination of the brute force stands for.
LEMMA CutIs ==
  ASSUME NEW bs \in Blocks, bs = blocks, NEW ends \in Splits(Len(bs)), NEW k \in DOMAIN ends
  PROVE  /\ Counts(ends)[k] = ends[k] - Upto(ends, k - 1)
         /\ Slice(StartOf(Counts(ends), k - 1), Counts(ends)[k]) = Piece(bs, ends, k)
         /\ StartOf(Counts(ends), k - 1) < Len(bs)
<1>1. Len(bs) \in Nat
  BY DEF Blocks
<1>2. PICK m \in 1 .. Len(bs) :
        /\ ends \in [1 .. m -> 1 .. Len(bs)] /\ DOMAIN ends = 1 .. m
        /\ \A i \in 1 .. m : /\ Upto(ends, i - 1) \in 0 .. Len(bs) - 1 /\ ends[i] \in 1 .. Len(bs)
                             /\ Upto(ends, i - 1) < ends[i]
  BY <1>1, SplitOrder
<1>3. k \in 1 .. m /\ m \in Nat
  BY <1>2
<1>4. Len(ends) = m
  <2>1. PICK S : S = 1 .. Len(bs)
    OBVIOUS
  <2>2. ends \in [1 .. m -> S]
    BY <1>2, <2>1
  <2>3. ends \in Seq(S) /\ DOMAIN ends = 1 .. m
    BY <1>3, <2>2
  <2> QED  BY <1>3, <2>3
<1>5. PICK j \in Nat : j = k - 1 /\ j <= Len(ends)
  <2>1. k - 1 \in Nat /\ k - 1 <= m
    BY <1>3
  <2> QED  BY <1>4, <2>1
<1>6. StartOf(Counts(ends), j) = Upto(ends, j)
  BY <1>1, <1>5, CountsAddUp
<1>7. PICK a : a = Upto(ends, k - 1)
  OBVIOUS
<1>8. a \in 0 .. Len(bs) - 1 /\ ends[k] \in 1 .. Len(bs) /\ StartOf(Counts(ends), k - 1) = a
  <2>1. a \in 0 .. Len(bs) - 1 /\ ends[k] \in 1 .. Len(bs)
    BY <1>2, <1>3, <1>7, Zenon
  <2> QED  BY <1>5, <1>6, <1>7, <2>1
<1>9. Counts(ends)[k] = ends[k] - a
  <2>1. a = IF k = 1 THEN 0 ELSE ends[k - 1]
    BY <1>3, <1>7 DEF Upto
  <2> QED  BY <2>1 DEF Counts
<1>10. a + (ends[k] - a) = ends[k]
  BY <1>8
<1>11. Slice(a, ends[k] - a) = Piece(bs, ends, k)
  BY <1>7, <1>10 DEF Slice, Piece
<1>12. a < Len(bs)
  BY <1>1, <1>8
<1> QED  BY <1>7, <1>8, <1>9, <1>11, <1>12

LEMMA SearchIs ==
  ASSUME NEW ends \in Combinations, NEW sh, NEW tokens \in [1 .. Len(blocks) -> Tokens],
         blocks \in Blocks, Search(ends, sh, tokens)
  PROVE  Searched(blocks, final')
<1>1. ends \in Splits(Len(blocks))
  BY DEF Combinations, Splits
<1>2. DOMAIN Counts(ends) = DOMAIN ends
  BY DEF Counts
<1>3. final' = [k \in DOMAIN ends |->
                  Final(Counts(ends)[k], Slice(StartOf(Counts(ends), k - 1), Counts(ends)[k]), tokens[k])]
  BY <1>2 DEF Search
<1>4. \A k \in DOMAIN ends :
        /\ Counts(ends)[k] = ends[k] - Upto(ends, k - 1)
        /\ Slice(StartOf(Counts(ends), k - 1), Counts(ends)[k]) = Piece(blocks, ends, k)
  BY <1>1, CutIs
<1>5. final' = Cut(blocks, ends, tokens)
  BY <1>3, <1>4 DEF Cut
<1> QED  BY <1>1, <1>5 DEF Searched

-----------------------------------------------------------------------------
(* What a reader makes of a file that is all there.                        *)

LEMMA ReadsBack ==
  ASSUME NEW sh, NEW numBlocks, NEW entries, NEW n \in Nat, Len(entries) = n, NEW f,
         f = CacheFields(sh, numBlocks, entries)
  PROVE  /\ f[1] = sh /\ f[2] = numBlocks /\ f[3] = n
         /\ Combine(f) = [k \in 1 .. n |-> entries[k].count]
         /\ \A k \in 1 .. n : CachedHeader(f, k) = entries[k].header
<1>1. f = [j \in 1 .. 3 + 3 * n |-> f[j]] /\ f \in [1 .. 3 + 3 * n -> {f[j] : j \in 1 .. 3 + 3 * n}]
  BY DEF CacheFields
<1>2. 3 + 3 * n \in Nat
  OBVIOUS
<1>3. Len(f) = 3 + 3 * n
  <2>1. PICK m \in Nat : m = 3 + 3 * n
    BY <1>2
  <2>2. PICK S : S = {f[j] : j \in 1 .. m}
    OBVIOUS
  <2>3. f \in [1 .. m -> S]
    BY <1>1, <2>1, <2>2
  <2>4. f \in Seq(S) /\ DOMAIN f = 1 .. m
    BY <2>3
  <2>5. Len(f) = m
    BY <2>1, <2>4
  <2> QED  BY <2>1, <2>5
<1>4. f[1] = sh /\ f[2] = numBlocks /\ f[3] = n
  <2>1. 1 \in 1 .. 3 + 3 * n /\ 2 \in 1 .. 3 + 3 * n /\ 3 \in 1 .. 3 + 3 * n
    OBVIOUS
  <2> QED  BY <2>1 DEF CacheFields
<1>5. ASSUME NEW k \in 1 .. n
      PROVE  /\ f[3 * k + 1] = entries[k].count /\ f[3 * k + 3] = entries[k].header
             /\ 3 * k + 1 <= Len(f) /\ 3 * k + 3 <= Len(f)
  <2>1. PICK i \in 1 .. 3 + 3 * n : i = 3 * k + 1
    OBVIOUS
  <2>2. PICK j \in 1 .. 3 + 3 * n : j = 3 * k + 3
    OBVIOUS
  <2>3. i > 3 /\ i % 3 = 1 /\ i \div 3 = k
    BY <2>1
  <2>4. j > 3 /\ j % 3 = 0 /\ j \div 3 - 1 = k
    BY <2>2
  <2>5. f[i] = entries[k].count
    BY <2>3 DEF CacheFields
  <2>6. f[j] = entries[k].header
    BY <2>4 DEF CacheFields
  <2> QED  BY <1>3, <2>1, <2>2, <2>5, <2>6
<1>6. Combine(f) = [k \in 1 .. n |-> entries[k].count]
  BY <1>4, <1>5 DEF Combine
<1>7. \A k \in 1 .. n : CachedHeader(f, k) = entries[k].header
  BY <1>5 DEF CachedHeader
<1> QED  BY <1>4, <1>6, <1>7

\* The decision of another run, applied to blocks.
LEMMA UseCacheIs ==
  ASSUME blocks \in Blocks, UseCache, NEW bs, Len(bs) = Len(blocks),
         NEW ends \in Splits(Len(blocks)), NEW tokens, NEW sh,
         file = CacheFields(sh, Len(bs), Cut(bs, ends, tokens))
  PROVE  final' = Cut(blocks, ends, tokens) /\ shift' = sh
<1> DEFINE entries == Cut(bs, ends, tokens)
<1>1. Len(blocks) \in Nat
  BY DEF Blocks
<1>2. PICK n \in 1 .. Len(blocks) : DOMAIN ends = 1 .. n
  BY <1>1, SplitOrder
<1>3. n \in Nat
  BY <1>2
<1>4. \A k \in 1 .. n : /\ entries[k].count = ends[k] - Upto(ends, k - 1)
                       /\ entries[k].header.token = tokens[k]
                       /\ entries[k].header = [size |-> entries[k].header.size, token |-> tokens[k]]
  BY <1>2 DEF Cut, Final
<1>5. Len(entries) = n
  <2>1. DOMAIN entries = 1 .. n
    BY <1>2 DEF Cut
  <2>2. entries = [k \in 1 .. n |-> entries[k]]
    BY <1>2 DEF Cut
  <2> HIDE DEF entries
  <2>3. entries \in [1 .. n -> {entries[k] : k \in 1 .. n}]
    BY <2>1, <2>2
  <2>4. entries \in Seq({entries[k] : k \in 1 .. n})
    BY <1>3, <2>3
  <2> QED  BY <1>3, <2>1, <2>4
<1> HIDE DEF entries
<1>6. /\ file[1] = sh /\ file[3] = n
      /\ Combine(file) = [k \in 1 .. n |-> entries[k].count]
      /\ \A k \in 1 .. n : CachedHeader(file, k) = entries[k].header
  BY <1>3, <1>5, ReadsBack DEF entries
<1>7. Combine(file) = Counts(ends)
  <2>1. \A k \in 1 .. n : Upto(ends, k - 1) = IF k = 1 THEN 0 ELSE ends[k - 1]
    BY <1>3 DEF Upto
  <2>2. \A k \in 1 .. n : entries[k].count = ends[k] - (IF k = 1 THEN 0 ELSE ends[k - 1])
    BY <1>4, <2>1
  <2> QED  BY <1>2, <1>6, <2>2 DEF Counts
<1>8. \A k \in 1 .. n :
        /\ Counts(ends)[k] = ends[k] - Upto(ends, k - 1)
        /\ Slice(StartOf(Counts(ends), k - 1), Counts(ends)[k]) = Piece(blocks, ends, k)
        /\ StartOf(Counts(ends), k - 1) < Len(blocks)
  BY <1>2, CutIs
<1>9. Entries(file) = 1 .. n
  BY <1>6, <1>7, <1>8 DEF Entries
<1>10. \A k \in 1 .. n : SetHeader(CachedHeader(file, k), Piece(blocks, ends, k))
                          = [size |-> Len(Piece(blocks, ends, k)), token |-> tokens[k]]
  <2> SUFFICES ASSUME NEW k \in 1 .. n
               PROVE  SetHeader(CachedHeader(file, k), Piece(blocks, ends, k))
                        = [size |-> Len(Piece(blocks, ends, k)), token |-> tokens[k]]
    OBVIOUS
  <2>1. PICK size : CachedHeader(file, k) = [size |-> size, token |-> tokens[k]]
    <3>1. entries[k].header = [size |-> entries[k].header.size, token |-> tokens[k]]
      BY <1>4, Zenon
    <3>2. CachedHeader(file, k) = entries[k].header
      BY <1>6, Zenon
    <3> QED  BY <3>1, <3>2, Zenon
  <2>2. PICK len : len = Len(Piece(blocks, ends, k))
    OBVIOUS
  <2>3. [[size |-> size, token |-> tokens[k]] EXCEPT !.size = len] = [size |-> len, token |-> tokens[k]]
    OBVIOUS
  <2> QED  BY <2>1, <2>2, <2>3 DEF SetHeader
<1>11. final' = [k \in 1 .. n |->
                   [count |-> Counts(ends)[k],
                    data |-> Slice(StartOf(Counts(ends), k - 1), Counts(ends)[k]),
                    header |-> SetHeader(CachedHeader(file, k),
                                         Slice(StartOf(Counts(ends), k - 1), Counts(ends)[k]))]]
  BY <1>7, <1>9 DEF UseCache
<1>12. final' = Cut(blocks, ends, tokens)
  BY <1>2, <1>8, <1>10, <1>11 DEF Cut, Final
<1>13. shift' = sh
  BY <1>6 DEF UseCache, CachedShift
<1> QED  BY <1>12, <1>13

-----------------------------------------------------------------------------
Inv ==
  /\ Typed
  /\ blocks = <<>> => phase = "idle"
  /\ phase = "encoding" => Len(final) \in Nat
  /\ Writing
  /\ author = Nobody => ~ReadsWhole(file)
  /\ cached => phase \in {"packing", "packed"} /\ author # Nobody

LEMMA Initially == Init => Inv
<1> SUFFICES ASSUME Init PROVE Inv
  OBVIOUS
<1>1. file \in Seq({}) /\ unsaved \in Seq({})
  BY DEF Init
<1>2. ~ReadsWhole(<<>>)
  BY DEF ReadsWhole
<1> QED  BY <1>1, <1>2 DEF Init, Inv, Typed, Writing

\* The fields of a cache for n entries, none of them written yet.
LEMMA FieldsOf ==
  ASSUME NEW sh, NEW numBlocks, NEW entries, Len(entries) \in Nat
  PROVE  LET fields == CacheFields(sh, numBlocks, entries)
         IN  /\ \E Fields : fields \in Seq(Fields)
             /\ Between(<<>>, fields, Len(entries))
<1> DEFINE n      == Len(entries)
           fields == CacheFields(sh, numBlocks, entries)
           Fields == {fields[j] : j \in 1 .. 3 + 3 * n}
<1>1. 3 + 3 * n \in Nat /\ 3 \in 1 .. 3 + 3 * n
  OBVIOUS
<1>2. fields = [j \in 1 .. 3 + 3 * n |-> fields[j]]
  BY DEF CacheFields
<1>3. fields[3] = n
  BY <1>1 DEF CacheFields
<1> HIDE DEF n, fields
<1>4. fields \in [1 .. 3 + 3 * n -> Fields]
  BY <1>2
<1> HIDE DEF Fields
<1>5. fields \in Seq(Fields) /\ Len(fields) = 3 + 3 * n
  <2>1. PICK m \in Nat : m = 3 + 3 * n
    BY <1>1
  <2>2. fields \in [1 .. m -> Fields]
    BY <1>4, <2>1
  <2>3. fields \in Seq(Fields) /\ DOMAIN fields = 1 .. m
    BY <2>2
  <2> QED  BY <2>1, <2>3
<1>6. Between(<<>>, fields, n)
  BY <1>3, <1>5 DEF Between
<1> QED  BY <1>5, <1>6 DEF n, fields

LEMMA NotWhole ==
  ASSUME NEW Fields, NEW f \in Seq(Fields), NEW rest \in Seq(Fields), NEW n \in Nat,
         Between(f, rest, n), rest # <<>>
  PROVE  ~ReadsWhole(f)
<1>1. Len(f) \in Nat /\ Len(rest) \in Nat \ {0}
  OBVIOUS
<1> QED  BY <1>1 DEF Between, ReadsWhole

LEMMA OneField ==
  ASSUME NEW Fields, NEW f \in Seq(Fields), NEW rest \in Seq(Fields), NEW n \in Nat,
         Between(f, rest, n), rest # <<>>
  PROVE  /\ Append(f, Head(rest)) \in Seq(Fields) /\ Tail(rest) \in Seq(Fields)
         /\ Between(Append(f, Head(rest)), Tail(rest), n)
<1> DEFINE g == Append(f, Head(rest))
           t == Tail(rest)
<1>1. Len(f) \in Nat /\ Len(rest) \in Nat \ {0} /\ Head(rest) = rest[1] /\ rest[1] \in Fields
  OBVIOUS
<1>2. g \in Seq(Fields) /\ Len(g) = Len(f) + 1
      /\ g[Len(f) + 1] = rest[1] /\ \A i \in 1 .. Len(f) : g[i] = f[i]
  BY <1>1
<1>3. t \in Seq(Fields) /\ Len(t) = Len(rest) - 1 /\ \A i \in 1 .. Len(rest) - 1 : t[i] = rest[i + 1]
  BY <1>1
<1> HIDE DEF g, t
<1>4. Between(g, t, n)
  <2>1. Len(g) + Len(t) = 3 + 3 * n
    <3>1. Len(f) + Len(rest) = 3 + 3 * n
      BY DEF Between
    <3>2. Len(g) = Len(f) + 1 /\ Len(t) = Len(rest) - 1
      BY <1>2, <1>3
    <3> QED  BY <1>1, <3>1, <3>2
  <2>2. CASE Len(f) >= 3
    <3>1. g[3] = n
      BY <1>1, <1>2, <2>2 DEF Between
    <3> QED  BY <1>1, <1>2, <2>1, <2>2, <3>1 DEF Between
  <2>3. CASE Len(f) = 2
    <3>1. rest[1] = n
      BY <2>3 DEF Between
    <3> QED  BY <1>2, <2>1, <2>3, <3>1 DEF Between
  <2>4. CASE Len(f) < 2
    <3>1. rest[3 - Len(f)] = n /\ Len(rest) >= 2 - Len(f) + 1
      BY <1>1, <2>4 DEF Between
    <3>2. t[2 - Len(f)] = n
      BY <1>1, <1>3, <2>4, <3>1
    <3> QED  BY <1>1, <1>2, <2>1, <2>4, <3>2 DEF Between
  <2>5. Len(f) >= 3 \/ Len(f) = 2 \/ Len(f) < 2
    <3>1. \A x \in Nat : x >= 3 \/ x = 2 \/ x < 2
      OBVIOUS
    <3> QED  BY <1>1, <3>1
  <2> QED  BY <2>2, <2>3, <2>4, <2>5
<1> QED  BY <1>2, <1>3, <1>4 DEF g, t

LEMMA Step == Inv /\ [Next]_vars => Inv'
<1> SUFFICES ASSUME Inv, [Next]_vars PROVE Inv'
  OBVIOUS
<1> USE DEF Inv
<1>1. ASSUME NEW input \in Inputs, Start(input) PROVE Inv'
  <2>1. input # <<>>
    BY InputAssumption
  <2> QED  BY <1>1, <2>1 DEF Start, Typed, Writing
<1>2. CASE UseCache
  BY <1>2 DEF UseCache, CacheApplies, Typed, Writing
<1>3. ASSUME NEW ends \in Combinations, NEW sh, NEW tokens, Search(ends, sh, tokens) PROVE Inv'
  <2>1. PICK m \in 1 .. Len(blocks) : ends \in [1 .. m -> 1 .. Len(blocks)]
    BY DEF Combinations
  <2>2. DOMAIN Counts(ends) = 1 .. m /\ m \in Nat
    BY <2>1 DEF Counts
  <2>3. Len(final') \in Nat
    BY <1>3, <2>2 DEF Search
  <2> QED  BY <1>3, <2>3 DEF Search, Typed, Writing
<1>4. CASE OpenCache
  <2>1. PICK Fields : unsaved' \in Seq(Fields)
    BY <1>4, FieldsOf DEF OpenCache
  <2>2. file' = <<>> /\ file' \in Seq(Fields) /\ ~ReadsWhole(<<>>)
    BY <1>4 DEF OpenCache, ReadsWhole
  <2>3. Typed'
    BY <2>1, <2>2 DEF Typed
  <2>4. Between(file', unsaved', Len(final)) /\ Len(final) \in Nat
    BY <1>4, <2>2, FieldsOf DEF OpenCache
  <2> QED  BY <1>4, <2>2, <2>3, <2>4 DEF OpenCache, Writing
<1>5. CASE WriteField
  <2>1. PICK Fields : file \in Seq(Fields) /\ unsaved \in Seq(Fields)
    BY DEF Typed
  <2>2. PICK n \in Nat : Between(file, unsaved, n)
    BY <1>5 DEF WriteField, Writing
  <2>3. /\ file' \in Seq(Fields) /\ unsaved' \in Seq(Fields)
        /\ Between(file', unsaved', n)
    BY <1>5, <2>1, <2>2, OneField DEF WriteField
  <2>4. CASE Len(unsaved) = 1
    <3>1. unsaved' = <<>>
      BY <1>5, <2>1, <2>4 DEF WriteField
    <3>2. author' # Nobody
      BY <1>5, <2>4 DEF WriteField, Myself, Nobody
    <3> QED  BY <1>5, <2>3, <3>1, <3>2 DEF WriteField, Typed, Writing
  <2>5. CASE Len(unsaved) # 1
    <3>1. unsaved' # <<>>
      <4>1. unsaved # <<>> /\ unsaved' = Tail(unsaved)
        BY <1>5 DEF WriteField
      <4>2. Len(unsaved) \in Nat /\ Len(unsaved) # 0
        BY <2>1, <4>1
      <4>3. Len(unsaved') = Len(unsaved) - 1
        BY <2>1, <4>1, <4>2
      <4> QED  BY <4>2, <4>3, <2>5
    <3>2. author' = Nobody
      BY <1>5, <2>5 DEF WriteField, Writing
    <3>3. ~ReadsWhole(file')
      BY <2>3, <3>1, NotWhole
    <3> QED  BY <1>5, <2>3, <3>1, <3>2, <3>3 DEF WriteField, Typed, Writing
  <2> QED  BY <2>4, <2>5
<1>6. CASE WriteFails
  <2>1. Typed'
    BY <1>6 DEF WriteFails, Typed
  <2> QED  BY <1>6, <2>1 DEF WriteFails, Writing
<1>7. CASE Stop
  <2>1. Typed'
    BY <1>7 DEF Stop, Typed
  <2> QED  BY <1>7, <2>1 DEF Stop, Writing
<1>8. CASE NoCache \/ CloseCache \/ Pack
  BY <1>8 DEF NoCache, CloseCache, Pack, Typed, Writing
<1>9. CASE Terminating \/ UNCHANGED vars
  BY <1>9 DEF Terminating, vars, Typed, Writing
<1> QED  BY <1>1, <1>2, <1>3, <1>4, <1>5, <1>6, <1>7, <1>8, <1>9 DEF Next

\* A cache that an interrupted run or a full disk cut short is never used: what
\* readFile asks for is all there only when writeFile has written all of it.
THEOREM CutShortNeverUsed == Spec => []OnlyWholeCaches
<1>1. Inv => OnlyWholeCaches
  BY DEF Inv, OnlyWholeCaches
<1> QED  BY <1>1, Initially, Step, PTL DEF Spec
-----------------------------------------------------------------------------
(* What is packed, and what is in the cache, was cut from the blocks the   *)
(* way a search cuts them.                                                 *)

Made ==
  /\ phase # "idle" => blocks \in Blocks
  /\ phase \in {"encoding", "writing", "packing", "packed"} => Searched(blocks, final)
  /\ phase = "writing" /\ unsaved # <<>> =>
       file \o unsaved = CacheFields(shift, Len(blocks), final)
  /\ author # Nobody =>
       /\ author = [blocks |-> author.blocks, shift |-> author.shift, final |-> author.final]
       /\ file = CacheFields(author.shift, Len(author.blocks), author.final)
       /\ Searched(author.blocks, author.final)
  /\ CacheReproduces

LEMMA MadeInitially == Init => Made
BY DEF Init, Made, CacheReproduces

LEMMA MadeStep == Inv /\ Made /\ [Next]_vars => Made'
<1> SUFFICES ASSUME Inv, Made, [Next]_vars PROVE Made'
  OBVIOUS
<1>1. ASSUME NEW input \in Inputs, Start(input) PROVE Made'
  <2>1. input \in Blocks
    <3>1. input \in Seq(Seq(Nat)) /\ Len(input) > 0 /\ \A i \in DOMAIN input : Len(input[i]) > 0
      BY InputAssumption
    <3>2. input # <<>> /\ DOMAIN input = 1 .. Len(input)
      BY <3>1
    <3>3. ASSUME NEW i \in 1 .. Len(input) PROVE input[i] # <<>>
      <4>1. Len(input[i]) > 0 /\ Len(<<>>) = 0
        BY <3>1, <3>2
      <4> QED  BY <4>1
    <3> QED  BY <3>1, <3>2, <3>3 DEF Blocks
  <2> QED  BY <1>1, <2>1 DEF Start, Made, CacheReproduces
<1>2. CASE UseCache
  <2>1. author # Nobody /\ blocks \in Blocks /\ Len(author.blocks) = Len(blocks)
    <3>1. ReadsWhole(file) /\ file[2] = Len(blocks) /\ phase = "starting"
      BY <1>2 DEF UseCache, CacheApplies
    <3>2. author # Nobody /\ blocks \in Blocks
      BY <3>1 DEF Inv, Made
    <3>3. file = CacheFields(author.shift, Len(author.blocks), author.final)
      BY <3>2 DEF Made
    <3>4. PICK bs : bs = author.blocks
      OBVIOUS
    <3>5. Searched(bs, author.final)
      BY <3>2, <3>4 DEF Made
    <3>6. file[2] = Len(author.blocks)
      <4>1. 3 + 3 * Len(author.final) >= 3
        OBVIOUS
      <4> QED  BY <3>3, <4>1 DEF CacheFields
    <3> QED  BY <3>1, <3>2, <3>6
  <2>2. PICK ends \in Splits(Len(blocks)), tokens \in [1 .. Len(blocks) -> Tokens] :
          author.final = Cut(author.blocks, ends, tokens)
    BY <2>1 DEF Made, Searched
  <2>3. final' = Cut(blocks, ends, tokens) /\ shift' = author.shift
    <3>1. file = CacheFields(author.shift, Len(author.blocks), Cut(author.blocks, ends, tokens))
      BY <2>1, <2>2 DEF Made
    <3> QED  BY <1>2, <2>1, <3>1, UseCacheIs
  <2>4. Searched(blocks, final')
    BY <2>3 DEF Searched
  <2>5. blocks' = blocks /\ author' = author /\ file' = file /\ phase' = "packing"
    BY <1>2 DEF UseCache
  <2>6. CacheReproduces'
    <3>1. author = [blocks |-> author.blocks, shift |-> author.shift, final |-> author.final]
      BY <2>1 DEF Made
    <3> QED  BY <2>2, <2>3, <2>5, <3>1 DEF CacheReproduces, Myself
  <2> QED  BY <2>1, <2>4, <2>5, <2>6 DEF Made
<1>3. ASSUME NEW ends \in Combinations, NEW sh \in Shifts,
             NEW tokens \in [1 .. Len(blocks) -> Tokens], Search(ends, sh, tokens)
      PROVE  Made'
  <2>1. blocks \in Blocks /\ ~ cached
    BY <1>3 DEF Search, Made, Inv
  <2>2. Searched(blocks, final')
    BY <1>3, <2>1, SearchIs
  <2> QED  BY <1>3, <2>1, <2>2 DEF Search, Made, CacheReproduces
<1>4. CASE OpenCache
  <2>1. unsaved' = CacheFields(shift, Len(blocks), final) /\ file' = <<>>
    BY <1>4 DEF OpenCache
  <2>2. PICK Fields : unsaved' \in Seq(Fields)
    BY <1>4, <2>1, FieldsOf DEF OpenCache, Inv
  <2>3. file' \o unsaved' = unsaved'
    BY <2>1, <2>2
  <2>4. ~ cached
    BY <1>4 DEF OpenCache, Inv
  <2> QED  BY <1>4, <2>1, <2>3, <2>4 DEF OpenCache, Made, CacheReproduces
<1>5. CASE WriteField
  <2>1. PICK Fields : file \in Seq(Fields) /\ unsaved \in Seq(Fields)
    BY DEF Inv, Typed
  <2>2. file \o unsaved = CacheFields(shift, Len(blocks), final)
    BY <1>5 DEF WriteField, Made
  <2>3. /\ file' \in Seq(Fields) /\ unsaved' \in Seq(Fields)
        /\ file' \o unsaved' = file \o unsaved
    <3>1. unsaved # <<>> /\ file' = Append(file, Head(unsaved)) /\ unsaved' = Tail(unsaved)
      BY <1>5 DEF WriteField
    <3> QED  BY <2>1, <3>1
  <2>4. ~ cached /\ Searched(blocks, final) /\ blocks \in Blocks
    BY <1>5 DEF WriteField, Inv, Made
  <2>5. CASE Len(unsaved) = 1
    <3>1. unsaved' = <<>>
      BY <1>5, <2>1, <2>5 DEF WriteField
    <3>2. file' = CacheFields(shift, Len(blocks), final)
      BY <2>2, <2>3, <3>1
    <3>3. author' = Myself
      BY <1>5, <2>5 DEF WriteField
    <3> QED  BY <1>5, <2>4, <3>1, <3>2, <3>3 DEF WriteField, Made, Myself, CacheReproduces
  <2>6. CASE Len(unsaved) # 1
    <3>1. author' = Nobody
      BY <1>5, <2>6 DEF WriteField, Inv, Writing
    <3> QED  BY <1>5, <2>2, <2>3, <2>4, <3>1 DEF WriteField, Made, CacheReproduces
  <2> QED  BY <2>5, <2>6
<1>6. CASE WriteFails
  BY <1>6 DEF WriteFails, Made, CacheReproduces, Myself
<1>7. CASE Stop
  BY <1>7 DEF Stop, Made, CacheReproduces
<1>8. CASE NoCache \/ CloseCache \/ Pack
  BY <1>8 DEF NoCache, CloseCache, Pack, Made, CacheReproduces, Myself
<1>9. CASE Terminating \/ UNCHANGED vars
  BY <1>9 DEF Terminating, vars, Made, CacheReproduces, Myself
<1> QED  BY <1>1, <1>2, <1>3, <1>4, <1>5, <1>6, <1>7, <1>8, <1>9 DEF Next

LEMMA MadeAlways == Spec => [](Inv /\ Made)
<1>1. Init => Inv /\ Made
  BY Initially, MadeInitially
<1>2. Inv /\ Made /\ [Next]_vars => (Inv /\ Made)'
  BY Step, MadeStep
<1> QED  BY <1>1, <1>2, PTL DEF Spec

\* Every block of the input is packed once and in order, under headers that say
\* how long the data is, whether the way to join blocks was searched for or was
\* read from a cache that a run on other data has left behind.
THEOREM PackedWhole == Spec => []PacksTheInput
<1>1. Made => PacksTheInput
  <2> SUFFICES ASSUME Made, phase \in {"encoding", "writing", "packing", "packed"}
               PROVE  /\ Joined([k \in DOMAIN final |-> final[k].data]) = Joined(blocks)
                      /\ \A k \in DOMAIN final : final[k].header.size = Len(final[k].data)
                      /\ \A k \in DOMAIN final : final[k].data # <<>>
    BY DEF PacksTheInput
  <2>1. blocks \in Blocks /\ Searched(blocks, final)
    BY DEF Made
  <2>2. Packs(blocks, final)
    BY <2>1, SearchedPacks
  <2> QED  BY <2>2 DEF Packs
<1> QED  BY <1>1, MadeAlways, PTL

\* Packing the same data with the cache gives what the run that searched made of
\* it: counts, data, headers and shift, though only counts, tokens and the shift
\* were saved.
THEOREM CacheGivesTheSame == Spec => []CacheReproduces
<1>1. Made => CacheReproduces
  BY DEF Made
<1> QED  BY <1>1, MadeAlways, PTL

=============================================================================
