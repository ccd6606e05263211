---------------------------- MODULE LaturiProofs ----------------------------
(***************************************************************************)
(* Proofs about Laturi beyond its imports (ImportProofs): every image has  *)
(* its sections apart and its blocks complete, of any objects and of any   *)
(* sizes; translated code is restored byte for byte; and every reference   *)
(* that the linker understands leads where it should.                      *)
(*                                                                         *)
(* qsort leaves the image in layers (Layered): what is not packed before   *)
(* what is, files before BSS in both, so that the file is the first        *)
(* sections, one right behind the other (Filed), while all sections have   *)
(* their places in that order (Stacked).  The first one that is packed     *)
(* fixes the shift, which no later one changes (Shifted).  So the blocks   *)
(* begin where their sections do (Begins), and those from the first packed *)
(* one on come to what is left of the file.                                *)
(*                                                                         *)
(* The objects' code follows the loader's (CodeBehind), so the loader goes *)
(* through the bytes the linker has gone through.  The calls found are     *)
(* apart, and between them there is no call byte (Chain).  Translated code *)
(* differs from the linked one in the operands of the calls still to come  *)
(* (Shape), and in front of the next of them it does not differ: both      *)
(* scans stop at the same calls.  What the loader counts down stays above  *)
(* zero as long as there is one left (LeftAt).                             *)
(*                                                                         *)
(* The sections are what the objects hold and the linker's own (MadeFrom), *)
(* so a reference to what is theirs leads there (Leads), and a relative    *)
(* field has an opcode in front (Opcoded); header, decompressor and loader *)
(* come first of their layers (Arranged).  A translation is of a reference *)
(* behind a call byte (Found), which may spoil a field beside it           *)
(* (Overwritten): what is written is known of every field (Fielded), and   *)
(* one that is understood is neither spoiled nor misread.                  *)
(***************************************************************************)
EXTENDS ImportProofs, Induction, TLAPS

-----------------------------------------------------------------------------
(* The order of the sections.                                              *)

KeyBefore(a, b) == \E k \in 1 .. 7 : a[k] < b[k] /\ \A m \in 1 .. k - 1 : a[m] = b[m]

LEMMA KeyOrder ==
  ASSUME NEW a \in [1 .. 7 -> Int], NEW b \in [1 .. 7 -> Int], NEW c \in [1 .. 7 -> Int]
  PROVE  /\ KeyBefore(a, b) => ~KeyBefore(b, a)
         /\ ~KeyBefore(a, a)
         /\ KeyBefore(a, b) /\ KeyBefore(b, c) => KeyBefore(a, c)
         /\ a[6] # b[6] \/ a[7] # b[7] => KeyBefore(a, b) \/ KeyBefore(b, a)
<1>1. ASSUME KeyBefore(a, b), KeyBefore(b, a) PROVE FALSE
  <2>1. PICK k \in 1 .. 7 : a[k] < b[k] /\ \A m \in 1 .. k - 1 : a[m] = b[m]
    BY <1>1 DEF KeyBefore
  <2>2. PICK l \in 1 .. 7 : b[l] < a[l] /\ \A m \in 1 .. l - 1 : a[m] = b[m]
    BY <1>1 DEF KeyBefore
  <2>3. k < l \/ l < k \/ k = l
    OBVIOUS
  <2>4. QED
    BY <2>1, <2>2, <2>3
<1>2. ~KeyBefore(a, a)
  BY DEF KeyBefore
<1>3. ASSUME KeyBefore(a, b), KeyBefore(b, c) PROVE KeyBefore(a, c)
  <2>1. PICK k \in 1 .. 7 : a[k] < b[k] /\ \A m \in 1 .. k - 1 : a[m] = b[m]
    BY <1>3 DEF KeyBefore
  <2>2. PICK l \in 1 .. 7 : b[l] < c[l] /\ \A m \in 1 .. l - 1 : b[m] = c[m]
    BY <1>3 DEF KeyBefore
  <2>3. PICK j \in 1 .. 7 : j = IF k <= l THEN k ELSE l
    OBVIOUS
  <2>4. a[j] < c[j]
    BY <2>1, <2>2, <2>3
  <2>5. \A m \in 1 .. j - 1 : a[m] = c[m]
    BY <2>1, <2>2, <2>3
  <2>6. QED
    BY <2>4, <2>5 DEF KeyBefore
<1>4. ASSUME a[6] # b[6] \/ a[7] # b[7] PROVE KeyBefore(a, b) \/ KeyBefore(b, a)
  <2> DEFINE S == {k \in 1 .. 7 : a[k] # b[k]}
  <2>1. S \in SUBSET Nat /\ S # {}
    BY <1>4
  <2>2. PICK k \in S : \A m \in S : k <= m
    BY <2>1, MinIs
  <2>3. \A m \in 1 .. k - 1 : a[m] = b[m]
    BY <2>2
  <2>4. a[k] < b[k] \/ b[k] < a[k]
    BY <2>2
  <2>5. QED
    BY <2>3, <2>4 DEF KeyBefore
<1>5. QED
  BY <1>1, <1>2, <1>3, <1>4

\* What is before what among n things, as pairs of their numbers.
Follows(R, n) ==
  /\ R \in SUBSET ((1 .. n) \X (1 .. n))
  /\ \A a \in 1 .. n : <<a, a>> \notin R
  /\ \A a, b, c \in 1 .. n : <<a, b>> \in R /\ <<b, c>> \in R => <<a, c>> \in R
  /\ \A a, b \in 1 .. n : a # b => <<a, b>> \in R \/ <<b, a>> \in R
Ahead(R, n, a) == {b \in 1 .. n : <<b, a>> \in R}

LEMMA Ranked ==
  ASSUME NEW n \in Nat, NEW R, Follows(R, n)
  PROVE  /\ \A a \in 1 .. n : Cardinality(Ahead(R, n, a)) \in 0 .. n - 1
         /\ \A a, b \in 1 .. n :
              <<a, b>> \in R => Cardinality(Ahead(R, n, a)) < Cardinality(Ahead(R, n, b))
<1>1. IsFiniteSet(1 .. n) /\ Cardinality(1 .. n) = n
  <2>1. IsFiniteSet(1 .. n) /\ Cardinality(1 .. n) = IF 1 > n THEN 0 ELSE n - 1 + 1
    BY FS_Interval
  <2>2. QED
    BY <2>1
<1>2. ASSUME NEW a \in 1 .. n
      PROVE  Cardinality(Ahead(R, n, a)) \in 0 .. n - 1
  <2> DEFINE S == Ahead(R, n, a)
  <2>1. S \in SUBSET (1 .. n) /\ a \notin S
    BY DEF Ahead, Follows
  <2> HIDE DEF S
  <2>2. IsFiniteSet(S) /\ Cardinality(S) \in Nat
    BY <1>1, <2>1, FS_Subset, FS_CardinalityType
  <2>3. Cardinality(S) <= Cardinality(1 .. n) /\ Cardinality(S) # Cardinality(1 .. n)
    BY <1>1, <2>1, FS_Subset
  <2>4. Cardinality(S) \in 0 .. n - 1
    BY <1>1, <2>2, <2>3
  <2>5. QED
    BY <2>4 DEF S
<1>3. ASSUME NEW a \in 1 .. n, NEW b \in 1 .. n, <<a, b>> \in R
      PROVE  Cardinality(Ahead(R, n, a)) < Cardinality(Ahead(R, n, b))
  <2> DEFINE P == Ahead(R, n, a)
             S == Ahead(R, n, b)
  <2>1. P \in SUBSET S /\ S \in SUBSET (1 .. n) /\ a \in S /\ a \notin P
    BY <1>3 DEF Ahead, Follows
  <2> HIDE DEF P, S
  <2>2. IsFiniteSet(S)
    BY <1>1, <2>1, FS_Subset
  <2>3. Cardinality(P) <= Cardinality(S) /\ Cardinality(S) # Cardinality(P)
    BY <2>1, <2>2, FS_Subset
  <2>4. Cardinality(P) \in Nat /\ Cardinality(S) \in Nat
    BY <2>1, <2>2, FS_Subset, FS_CardinalityType
  <2>5. Cardinality(P) < Cardinality(S)
    BY <2>3, <2>4
  <2>6. QED
    BY <2>5 DEF P, S
<1>4. QED
  BY <1>2, <1>3

\* Every number below n is the rank of one of them.
LEMMA AllRanks ==
  ASSUME NEW n \in Nat, NEW R, Follows(R, n), NEW k \in 1 .. n
  PROVE  \E a \in 1 .. n : Cardinality(Ahead(R, n, a)) = k - 1
<1> DEFINE f == [a \in 1 .. n |-> Cardinality(Ahead(R, n, a))]
<1>1. f \in Injection(1 .. n, 0 .. n - 1)
  <2>1. \A a \in 1 .. n : f[a] \in 0 .. n - 1
    BY Ranked
  <2>2. ASSUME NEW a \in 1 .. n, NEW b \in 1 .. n, f[a] = f[b] PROVE a = b
    <3>1. f[a] \in Int /\ f[b] \in Int
      BY <2>1
    <3>2. <<a, b>> \notin R /\ <<b, a>> \notin R
      <4>1. ~(Cardinality(Ahead(R, n, a)) < Cardinality(Ahead(R, n, b)))
            /\ ~(Cardinality(Ahead(R, n, b)) < Cardinality(Ahead(R, n, a)))
        BY <2>2, <3>1
      <4>2. QED
        BY <4>1, Ranked
    <3>3. QED
      BY <3>2 DEF Follows
  <2>3. QED
    BY <2>1, <2>2 DEF Injection, IsInjective
<1>2. IsFiniteSet(0 .. n - 1) /\ Cardinality(0 .. n - 1) = n /\ IsFiniteSet(1 .. n) /\ Cardinality(1 .. n) = n
  <2>1. PICK b \in Int : b = n - 1
    OBVIOUS
  <2>2. IsFiniteSet(0 .. b) /\ Cardinality(0 .. b) = IF 0 > b THEN 0 ELSE b - 0 + 1
    BY FS_Interval
  <2>3. IsFiniteSet(1 .. n) /\ Cardinality(1 .. n) = IF 1 > n THEN 0 ELSE n - 1 + 1
    BY FS_Interval
  <2>4. QED
    BY <2>1, <2>2, <2>3
<1> HIDE DEF f
<1>3. f \in Surjection(1 .. n, 0 .. n - 1)
  BY <1>1, <1>2, FS_Injection
<1>4. PICK a \in 1 .. n : f[a] = k - 1
  <2>1. k - 1 \in 0 .. n - 1
    OBVIOUS
  <2>2. QED
    BY <1>3, <2>1 DEF Surjection
<1>5. QED
  BY <1>4 DEF f

-----------------------------------------------------------------------------
(* The sections that are collected.                                        *)

Fields ==
  {"obj", "num", "seg", "name", "uaddr", "length", "jumps", "refs", "abs_offset", "vm_shift"}
Raw(s) ==
  /\ DOMAIN s = Fields
  /\ s.obj \in Nat /\ s.num \in Nat /\ s.length \in Nat
  /\ s.abs_offset \in Nat /\ s.vm_shift \in Nat

\* Header and decompressor are code, and the hashes are data.
Known(s) ==
  /\ s.obj < 2 => SectionType(s) = TEXT
  /\ s.num = HashNum => SectionType(s) = DATA

LEMMA TotalNatural ==
  ASSUME NEW s \in Seq(Nat)
  PROVE  Total(s) \in Nat
<1> DEFINE P == {q \in Seq(Nat) : Total(q) \in Nat}
<1>1. <<>> \in P
  BY TotalEmpty
<1>2. ASSUME NEW q \in P, NEW x \in Nat PROVE Append(q, x) \in P
  <2>1. q \in Seq(Nat) /\ q \in Seq(Int) /\ x \in Int /\ Append(q, x) \in Seq(Nat) /\ Total(q) \in Nat
    OBVIOUS
  <2>2. Total(Append(q, x)) = Total(q) + x
    BY <2>1, TotalAppend
  <2>3. QED
    BY <2>1, <2>2
<1> HIDE DEF P
<1>3. P = Seq(Nat)
  <2>1. P \in SUBSET Seq(Nat)
    BY DEF P
  <2>2. QED
    BY <1>1, <1>2, <2>1, SequenceInduction
<1>4. QED
  BY <1>3 DEF P

LEMMA SumIsTotal == \A s : SumOf(s) = Total(s)
BY DEF SumOf, Total

LEMMA CommandsAre ==
  ASSUME program \in Programs
  PROVE  LoadCommands \in Nat
<1>1. PICK n : n = Cardinality(DOMAIN libs)
  OBVIOUS
<1>2. /\ DOMAIN libs = 0 .. n - 1 /\ \A j \in DOMAIN libs : libs[j].name_len \in Nat
      /\ IsFiniteSet(DOMAIN libs)
  BY <1>1, ProgramAssumption, Zenon DEF libs
<1>3. n \in Nat
  BY <1>1, <1>2, FS_CardinalityType
<1> DEFINE s == [k \in 1 .. n |-> IF k - 1 \in used THEN CommandSize + libs[k - 1].name_len ELSE 0]
<1>4. \A k \in 1 .. n : (IF k - 1 \in used THEN CommandSize + libs[k - 1].name_len ELSE 0) \in Nat
  <2>1. CommandSize \in Nat
    BY SizesAssumption
  <2>2. \A k \in 1 .. n : k - 1 \in DOMAIN libs
    BY <1>2, <1>3
  <2>3. QED
    BY <1>2, <2>1, <2>2
<1>5. s \in Seq(Nat)
  <2>1. \A k \in 1 .. n : s[k] \in Nat
    BY <1>4
  <2>2. s = [k \in 1 .. n |-> s[k]]
    OBVIOUS
  <2> HIDE DEF s
  <2>3. QED
    BY <1>3, <2>1, <2>2
<1>6. LoadCommands = Total(s)
  BY <1>1, SumIsTotal DEF LoadCommands
<1> HIDE DEF s
<1>7. QED
  BY <1>5, <1>6, TotalNatural

LEMMA TableBytes ==
  ASSUME program \in Programs, Listed(lmap)
  PROVE  /\ HashTableBytes \in Nat \ {0}
         /\ ItemSize * Len(lmap) + AddrOffset \in Nat \ {0}
<1>1. PICK n \in Nat \ {0} : n = Len(lmap) /\ DOMAIN lmap = 1 .. n
  BY ListIs, Zenon
<1> DEFINE S == {k \in DOMAIN lmap : Headed(k)}
<1>2. Cardinality(S) \in Nat
  <2>1. S \in SUBSET (1 .. n)
    BY <1>1
  <2>2. IsFiniteSet(1 .. n)
    BY FS_Interval
  <2> HIDE DEF S
  <2>3. QED
    BY <2>1, <2>2, FS_Subset, FS_CardinalityType
<1>3. program.hash_type \in 0 .. 2
  BY ProgramIs
<1> HIDE DEF S
<1>4. PICK named \in Nat, size \in Nat : named = Cardinality(S) /\ size = program.hash_type + 2
  <2>1. program.hash_type + 2 \in Nat
    BY <1>3
  <2>2. QED
    BY <1>2, <2>1
<1>5. HashTableBytes = size * (n + named) + named + 1
  BY <1>1, <1>4 DEF HashTableBytes, S
<1>6. size * (n + named) \in Nat
  BY <1>1, <1>4
<1>7. ItemSize \in Nat /\ ItemSize >= 1 /\ AddrOffset \in Nat
  BY SizesAssumption
<1>8. ItemSize * n \in Nat /\ ItemSize * n >= 1
  <2>1. 1 * 1 <= ItemSize * 1 /\ ItemSize * 1 <= ItemSize * n
    BY <1>1, <1>7, ProductGrows
  <2>2. ItemSize * n \in Nat
    BY <1>7
  <2>3. QED
    BY <1>7, <2>1, <2>2
<1>9. HashTableBytes \in Nat \ {0}
  <2>1. PICK a \in Nat : a = size * (n + named)
    BY <1>6
  <2>2. HashTableBytes = a + named + 1
    BY <1>5, <2>1
  <2>3. QED
    BY <2>2
<1>10. ItemSize * Len(lmap) + AddrOffset \in Nat \ {0}
  <2>1. PICK a \in Nat : a = ItemSize * n /\ a >= 1
    BY <1>8
  <2>2. ItemSize * Len(lmap) + AddrOffset = a + AddrOffset
    BY <1>1, <2>1
  <2>3. QED
    BY <1>7, <2>1, <2>2
<1>11. QED
  BY <1>9, <1>10

\* What is collected: sections with numbers of their own, code of laturi's objects
\* and the loader's table of functions among them.
CollectedSects(c) ==
  /\ c \in Seq(Range(c)) /\ \A n \in DOMAIN c : Raw(c[n]) /\ Known(c[n])
  /\ \A m, n \in DOMAIN c : m # n => c[m].obj # c[n].obj \/ c[m].num # c[n].num
  /\ \E n \in DOMAIN c : c[n].obj = 2 /\ c[n].num # HashNum /\ SectionType(c[n]) = TEXT
  /\ \E n \in DOMAIN c : c[n].obj = 2 /\ c[n].num # HashNum /\ SectionType(c[n]) = BSS

LEMMA TwoMore ==
  ASSUME NEW V, NEW a \in Seq(V), NEW e \in Seq(V), Len(e) = 2
  PROVE  /\ a \o e \in Seq(V) /\ Len(a \o e) = Len(a) + 2
         /\ \A n \in 1 .. Len(a) : (a \o e)[n] = a[n]
         /\ (a \o e)[Len(a) + 1] = e[1] /\ (a \o e)[Len(a) + 2] = e[2]
<1>1. /\ a \o e \in Seq(V) /\ Len(a \o e) = Len(a) + Len(e)
      /\ \A n \in 1 .. Len(a) + Len(e) : (a \o e)[n] = IF n <= Len(a) THEN a[n] ELSE e[n - Len(a)]
  BY ConcatProperties
<1>2. PICK l \in Nat : l = Len(a)
  OBVIOUS
<1>3. QED
  BY <1>1, <1>2

LEMMA ObjectsAre ==
  ASSUME program \in Programs
  PROVE  \E k \in Nat :
           /\ DOMAIN program.sects = 1 .. k
           /\ \A n \in 1 .. k :
                LET s == program.sects[n]
                IN  /\ s.obj \in Nat /\ s.num \in Nat /\ s.length \in Nat
                    /\ s.num < HashNum
                    /\ \A m \in 1 .. k : m # n =>
                         program.sects[m].obj # s.obj \/ program.sects[m].num # s.num
                    /\ s.obj < 3 => s.seg = "__TEXT" /\ s.name = "__text" /\ s.length > 0
           /\ \E n \in 1 .. k : program.sects[n].obj = 2
           /\ onekpaq \in BOOLEAN /\ program.decompress_offset \in Nat /\ program.heap_size \in Nat
<1>1. /\ program.sects \in Seq(Sections)
      /\ program.onekpaq \in BOOLEAN /\ program.decompress_offset \in Nat /\ program.heap_size \in Nat
      /\ \A obj \in 0 .. 2 : \E n \in DOMAIN program.sects : program.sects[n].obj = obj
      /\ \A n \in DOMAIN program.sects :
           /\ program.sects[n].num < HashNum
           /\ \A m \in DOMAIN program.sects \ {n} :
                \/ program.sects[m].obj # program.sects[n].obj
                \/ program.sects[m].num # program.sects[n].num
           /\ program.sects[n].obj < 3 =>
                /\ program.sects[n].seg = "__TEXT" /\ program.sects[n].name = "__text"
                /\ program.sects[n].length > 0
  BY SizesAssumption, Zenon DEF ObjectAssumption
<1>2. PICK T : T = Sections
  OBVIOUS
<1>3. PICK s \in Seq(T) : s = program.sects
  BY <1>1, <1>2, Zenon
<1>4. PICK k \in Nat : k = Len(s) /\ DOMAIN s = 1 .. k /\ \A n \in 1 .. k : s[n] \in T
  OBVIOUS
<1>5. \A t \in Sections : t.obj \in Nat /\ t.num \in Nat /\ t.length \in Nat
  BY DEF Sections
<1>6. 2 \in 0 .. 2
  OBVIOUS
<1>7. \A n \in 1 .. k : s[n].obj \in Nat /\ s[n].num \in Nat /\ s[n].length \in Nat
  BY <1>2, <1>4, <1>5, Zenon
<1>8. ASSUME NEW m \in 1 .. k, NEW n \in 1 .. k, m # n
      PROVE  s[m].obj # s[n].obj \/ s[m].num # s[n].num
  <2>1. n \in DOMAIN program.sects /\ m \in DOMAIN program.sects \ {n}
    BY <1>3, <1>4, <1>8
  <2>2. program.sects[m].obj # program.sects[n].obj \/ program.sects[m].num # program.sects[n].num
    BY <1>1, <2>1, Zenon
  <2>3. QED
    BY <1>3, <2>2
<1>9. \A n \in 1 .. k : /\ s[n].num < HashNum
                        /\ s[n].obj < 3 => s[n].seg = "__TEXT" /\ s[n].name = "__text" /\ s[n].length > 0
  BY <1>1, <1>3, <1>4, Zenon
<1>10. \E n \in 1 .. k : s[n].obj = 2
  BY <1>1, <1>3, <1>4, <1>6, Zenon
<1>11. QED
  <2>1. program.sects = s
    BY <1>3
  <2>2. /\ DOMAIN s = 1 .. k
        /\ \A n \in 1 .. k :
             /\ s[n].obj \in Nat /\ s[n].num \in Nat /\ s[n].length \in Nat
             /\ s[n].num < HashNum
             /\ \A m \in 1 .. k : m # n => s[m].obj # s[n].obj \/ s[m].num # s[n].num
             /\ s[n].obj < 3 => s[n].seg = "__TEXT" /\ s[n].name = "__text" /\ s[n].length > 0
        /\ \E n \in 1 .. k : s[n].obj = 2
    BY <1>4, <1>7, <1>8, <1>9, <1>10, Zenon
  <2>3. onekpaq \in BOOLEAN /\ program.decompress_offset \in Nat /\ program.heap_size \in Nat
    BY <1>1 DEF onekpaq
  <2>4. QED
    BY <2>1, <2>2, <2>3, Zenon

LEMMA LinksectIs ==
  ASSUME NEW s, NEW length \in Nat, s.obj \in Nat, s.num \in Nat
  PROVE  /\ Raw(linksect(s, length))
         /\ linksect(s, length).obj = s.obj /\ linksect(s, length).num = s.num
         /\ linksect(s, length).length = length
         /\ linksect(s, length).seg = s.seg /\ linksect(s, length).name = s.name
BY DEF linksect, Raw, Fields

LEMMA AddedIs ==
  ASSUME NEW num \in Nat, NEW name, NEW length \in Nat
  PROVE  /\ Raw(Added(num, name, length))
         /\ Added(num, name, length).obj = 2 /\ Added(num, name, length).num = num
         /\ Added(num, name, length).length = length
         /\ Added(num, name, length).seg = "__DATA" /\ Added(num, name, length).name = name
BY DEF Added, Raw, Fields

LEMMA CollectedIs ==
  ASSUME program \in Programs, Listed(lmap)
  PROVE  CollectedSects(Collected)
<1>1. PICK k \in Nat :
        /\ DOMAIN program.sects = 1 .. k
        /\ \A n \in 1 .. k :
             LET s == program.sects[n]
             IN  /\ s.obj \in Nat /\ s.num \in Nat /\ s.length \in Nat
                 /\ s.num < HashNum
                 /\ \A m \in 1 .. k : m # n =>
                      program.sects[m].obj # s.obj \/ program.sects[m].num # s.num
                 /\ s.obj < 3 => s.seg = "__TEXT" /\ s.name = "__text" /\ s.length > 0
        /\ \E n \in 1 .. k : program.sects[n].obj = 2
  BY ObjectsAre
<1>2. PICK w : w = [n \in 1 .. k |-> WithLibraries(program.sects[n])]
  OBVIOUS
<1>3. PICK h, j : h = HashSection /\ j = JumpSection
  OBVIOUS
<1>4. PICK c : c = w \o <<h, j>>
  OBVIOUS
<1>5. Collected = c
  BY <1>1, <1>2, <1>3, <1>4 DEF Collected
<1>6. /\ DOMAIN c = 1 .. k + 2 /\ c \in Seq(Range(c))
      /\ \A n \in 1 .. k : c[n] = w[n]
      /\ c[k + 1] = h /\ c[k + 2] = j
  <2>1. PICK W : W = Range(w) \cup {h, j}
    OBVIOUS
  <2>2. w \in Seq(W) /\ <<h, j>> \in Seq(W) /\ Len(w) = k
    <3>1. \A n \in 1 .. k : w[n] \in W
      BY <1>2, <2>1 DEF Range
    <3>2. w \in Seq(W) /\ Len(w) = k
      BY <1>2, <3>1
    <3>3. h \in W /\ j \in W
      BY <2>1
    <3>4. QED
      BY <3>2, <3>3
  <2>3. /\ c \in Seq(W) /\ Len(c) = k + 2 /\ \A n \in 1 .. k : c[n] = w[n]
        /\ c[k + 1] = h /\ c[k + 2] = j
    <3>1. PICK V : V = W
      OBVIOUS
    <3>2. PICK a \in Seq(V), e \in Seq(V) : a = w /\ e = <<h, j>> /\ Len(e) = 2 /\ e[1] = h /\ e[2] = j
      BY <2>2, <3>1
    <3>3. /\ a \o e \in Seq(V) /\ Len(a \o e) = k + 2 /\ \A n \in 1 .. k : (a \o e)[n] = a[n]
          /\ (a \o e)[k + 1] = e[1] /\ (a \o e)[k + 2] = e[2]
      <4>1. Len(a) = k /\ Len(e) = 2
        BY <2>2, <3>2
      <4>2. QED
        BY <4>1, TwoMore
    <3>4. QED
      BY <1>4, <3>1, <3>2, <3>3
  <2>4. c \in Seq(Range(c))
    <3>1. \A n \in 1 .. Len(c) : c[n] \in Range(c)
      BY <2>3 DEF Range
    <3>2. c = [n \in 1 .. Len(c) |-> c[n]] /\ Len(c) \in Nat
      BY <2>3
    <3>3. QED
      BY <3>1, <3>2
  <2>5. QED
    BY <2>3, <2>4
<1>7. /\ Raw(h) /\ h.obj = 2 /\ h.num = HashNum /\ SectionType(h) = DATA
      /\ Raw(j) /\ j.obj = 2 /\ j.num = JumpNum /\ SectionType(j) = BSS
  <2>1. HashNum \in Nat /\ JumpNum \in Nat
    BY DEF HashNum, JumpNum
  <2>2. PICK a \in Nat \ {0}, b \in Nat \ {0} : a = HashTableBytes /\ b = ItemSize * Len(lmap) + AddrOffset
    BY TableBytes
  <2>3. h = Added(HashNum, "hash", a) /\ j = Added(JumpNum, "__bss", b)
    BY <1>3, <2>2 DEF HashSection, JumpSection
  <2>4. /\ Raw(h) /\ h.obj = 2 /\ h.num = HashNum /\ h.length = a /\ h.seg = "__DATA" /\ h.name = "hash"
        /\ Raw(j) /\ j.obj = 2 /\ j.num = JumpNum /\ j.length = b /\ j.seg = "__DATA" /\ j.name = "__bss"
    BY <2>1, <2>2, <2>3, AddedIs
  <2>5. QED
    BY <2>2, <2>4 DEF SectionType, DATA, BSS
<1>8. ASSUME NEW n \in 1 .. k
      PROVE  /\ Raw(w[n]) /\ w[n].obj = program.sects[n].obj /\ w[n].num = program.sects[n].num
             /\ w[n].num < HashNum
             /\ w[n].obj < 3 => SectionType(w[n]) = TEXT
  <2>1. PICK s : s = program.sects[n]
    OBVIOUS
  <2>2. /\ s.obj \in Nat /\ s.num \in Nat /\ s.length \in Nat /\ s.num < HashNum
        /\ s.obj < 3 => s.seg = "__TEXT" /\ s.name = "__text" /\ s.length > 0
    BY <1>1, <2>1
  <2>3. PICK length \in Nat : length = (IF isheader(s) THEN s.length + LoadCommands ELSE s.length)
                              /\ length >= s.length
    <3>1. LoadCommands \in Nat
      BY CommandsAre
    <3>2. QED
      BY <2>2, <3>1
  <2>4. w[n] = linksect(s, length)
    BY <1>2, <2>1, <2>3 DEF WithLibraries
  <2>5. /\ Raw(w[n]) /\ w[n].obj = s.obj /\ w[n].num = s.num /\ w[n].length = length
        /\ w[n].seg = s.seg /\ w[n].name = s.name
    BY <2>2, <2>4, LinksectIs
  <2>6. s.obj < 3 => SectionType(w[n]) = TEXT
    BY <2>2, <2>3, <2>5 DEF SectionType
  <2>7. QED
    BY <2>1, <2>2, <2>5, <2>6
<1>9. \A n \in 1 .. k : Known(w[n])
  BY <1>8 DEF Known, HashNum, Raw
<1>10. Known(h) /\ Known(j)
  BY <1>7 DEF Known, HashNum, JumpNum
<1>11. \A n \in DOMAIN c : n \in 1 .. k \/ n = k + 1 \/ n = k + 2
  BY <1>6
<1>12. \A n \in DOMAIN c : Raw(c[n]) /\ Known(c[n])
  BY <1>6, <1>7, <1>8, <1>9, <1>10, <1>11
<1>13. ASSUME NEW m \in DOMAIN c, NEW n \in DOMAIN c, m # n
       PROVE  c[m].obj # c[n].obj \/ c[m].num # c[n].num
  <2>1. CASE m \in 1 .. k /\ n \in 1 .. k
    <3>1. program.sects[m].obj # program.sects[n].obj \/ program.sects[m].num # program.sects[n].num
      BY <1>1, <1>13, <2>1
    <3>2. QED
      BY <1>6, <1>8, <2>1, <3>1
  <2>2. HashNum \in Nat /\ JumpNum = HashNum + 1
    BY DEF HashNum, JumpNum
  <2>3. \A a \in 1 .. k : c[a].num < HashNum /\ c[a].num \in Nat
    BY <1>6, <1>8 DEF Raw
  <2>4. CASE m \notin 1 .. k \/ n \notin 1 .. k
    BY <1>6, <1>7, <1>11, <1>13, <2>2, <2>3, <2>4
  <2>5. QED
    BY <2>1, <2>4
<1>14. \E n \in DOMAIN c : c[n].obj = 2 /\ c[n].num # HashNum /\ SectionType(c[n]) = TEXT
  <2>1. PICK n \in 1 .. k : program.sects[n].obj = 2
    BY <1>1
  <2>2. n \in DOMAIN c /\ c[n] = w[n] /\ w[n].obj = 2 /\ w[n].num < HashNum /\ SectionType(w[n]) = TEXT
    BY <1>6, <1>8, <2>1
  <2>3. w[n].num # HashNum
    BY <2>2 DEF HashNum
  <2>4. QED
    BY <2>2, <2>3
<1>15. \E n \in DOMAIN c : c[n].obj = 2 /\ c[n].num # HashNum /\ SectionType(c[n]) = BSS
  <2>1. k + 2 \in DOMAIN c /\ JumpNum # HashNum
    BY <1>6 DEF HashNum, JumpNum
  <2>2. QED
    BY <1>6, <1>7, <2>1
<1>16. QED
  BY <1>5, <1>6, <1>12, <1>13, <1>14, <1>15 DEF CollectedSects

-----------------------------------------------------------------------------
(* The order of qsort.                                                     *)

\* A section comes in behind what is not packed, and a BSS behind what is in the file.
IsWanted(s) == SectionType(s) # DoNotWant
Packs(x, s) == x /\ s.obj >= 2 /\ s.num # HashNum
Layers(x, s, t) ==
  IsWanted(t) => /\ IsWanted(s) /\ (Packs(x, s) => Packs(x, t))
                 /\ (InFile(t) => InFile(s))

LEMMA KeyIs ==
  ASSUME NEW s, Raw(s)
  PROVE  SectKey(s) \in [1 .. 7 -> Int] /\ SectKey(s)[6] = s.obj /\ SectKey(s)[7] = s.num
<1>1. SectionType(s) \in Int
  BY DEF SectionType, DoNotWant, TEXT, DATA, BSS
<1>2. s.obj \in Int /\ s.num \in Int
  BY DEF Raw
<1>3. QED
  BY <1>1, <1>2 DEF SectKey

LEMMA BeforeIs ==
  ASSUME NEW s, NEW t, Raw(s), Raw(t)
  PROVE  SectBefore(s, t) <=> KeyBefore(SectKey(s), SectKey(t))
<1>1. DOMAIN SectKey(s) = 1 .. 7
  BY KeyIs
<1>2. QED
  BY <1>1 DEF SectBefore, KeyBefore

LEMMA FirstDigits ==
  ASSUME NEW a \in [1 .. 7 -> Int], NEW b \in [1 .. 7 -> Int], KeyBefore(a, b)
  PROVE  /\ a[1] <= b[1]
         /\ a[1] = b[1] => a[2] <= b[2]
         /\ a[1] = b[1] /\ a[2] = b[2] => a[3] <= b[3]
         /\ a[1] = b[1] /\ a[2] = b[2] /\ a[3] = b[3] => a[4] <= b[4]
<1>1. PICK k \in 1 .. 7 : a[k] < b[k] /\ \A m \in 1 .. k - 1 : a[m] = b[m]
  BY DEF KeyBefore
<1>2. \A m \in 1 .. 4 : a[m] \in Int /\ b[m] \in Int
  OBVIOUS
<1>3. CASE k = 1
  BY <1>1, <1>2, <1>3
<1>4. CASE k = 2
  BY <1>1, <1>2, <1>4
<1>5. CASE k = 3
  BY <1>1, <1>2, <1>5
<1>6. CASE k >= 4
  <2>1. a[1] = b[1] /\ a[2] = b[2] /\ a[3] = b[3]
    BY <1>1, <1>6
  <2>2. a[4] <= b[4]
    BY <1>1, <1>2, <1>6
  <2>3. QED
    BY <1>2, <2>1, <2>2
<1>7. QED
  BY <1>3, <1>4, <1>5, <1>6

LEMMA InLayers ==
  ASSUME NEW s, NEW t, Raw(s), Raw(t), Known(s), Known(t), SectBefore(s, t)
  PROVE  Layers(onekpaq, s, t)
<1>1. PICK a, b : a = SectKey(s) /\ b = SectKey(t)
  OBVIOUS
<1>2. /\ a[1] <= b[1]
      /\ a[1] = b[1] => a[2] <= b[2]
      /\ a[1] = b[1] /\ a[2] = b[2] => a[3] <= b[3]
      /\ a[1] = b[1] /\ a[2] = b[2] /\ a[3] = b[3] => a[4] <= b[4]
  BY <1>1, KeyIs, BeforeIs, FirstDigits
<1>3. /\ a[1] = (IF IsWanted(s) THEN 0 ELSE 1) /\ a[2] = (IF s.obj = 0 THEN 0 ELSE 1)
      /\ a[3] = (IF Packs(onekpaq, s) THEN 1 ELSE 0) /\ a[4] = SectionType(s)
  BY <1>1 DEF SectKey, IsWanted, isheader, iscompressible, Packs
<1>4. /\ b[1] = (IF IsWanted(t) THEN 0 ELSE 1) /\ b[2] = (IF t.obj = 0 THEN 0 ELSE 1)
      /\ b[3] = (IF Packs(onekpaq, t) THEN 1 ELSE 0) /\ b[4] = SectionType(t)
  BY <1>1 DEF SectKey, IsWanted, isheader, iscompressible, Packs
<1>5. /\ Packs(onekpaq, s) => s.obj >= 2 /\ onekpaq
      /\ onekpaq /\ ~Packs(onekpaq, s) => s.obj < 2 \/ s.num = HashNum
      /\ Packs(onekpaq, t) => onekpaq
      /\ s.obj \in Nat /\ t.obj \in Nat
  BY DEF Packs, Raw
<1>6. /\ s.obj < 2 => SectionType(s) = TEXT
      /\ s.num = HashNum => SectionType(s) = DATA
  BY DEF Known
<1>7. /\ SectionType(s) \in 0 .. 3 /\ SectionType(t) \in 0 .. 3
      /\ InFile(s) <=> SectionType(s) \in {1, 2}
      /\ InFile(t) <=> SectionType(t) \in {1, 2}
      /\ IsWanted(s) <=> SectionType(s) # 0
      /\ TEXT = 1 /\ DATA = 2
  BY DEF SectionType, InFile, IsWanted, DoNotWant, TEXT, DATA, BSS
<1> SUFFICES ASSUME IsWanted(t)
             PROVE  /\ IsWanted(s) /\ (Packs(onekpaq, s) => Packs(onekpaq, t))
                    /\ (InFile(t) => InFile(s))
  BY DEF Layers
<1>8. IsWanted(s) /\ a[1] = b[1]
  BY <1>2, <1>3, <1>4
<1>9. ASSUME Packs(onekpaq, s) PROVE Packs(onekpaq, t)
  <2>1. a[2] = 1 /\ a[3] = 1
    BY <1>3, <1>5, <1>9
  <2>2. b[2] = 1
    BY <1>2, <1>4, <1>8, <2>1
  <2>3. QED
    BY <1>2, <1>4, <1>8, <2>1, <2>2
<1>10. ASSUME InFile(t) PROVE InFile(s)
  <2>1. CASE s.obj = 0
    BY <1>6, <1>7, <2>1
  <2>2. CASE s.obj # 0
    <3>1. a[2] = 1 /\ b[2] = 1
      BY <1>2, <1>3, <1>4, <1>8, <2>2
    <3>2. CASE a[3] = b[3]
      BY <1>2, <1>3, <1>4, <1>7, <1>8, <1>10, <3>1, <3>2
    <3>3. CASE a[3] # b[3]
      <4>1. ~Packs(onekpaq, s) /\ Packs(onekpaq, t)
        BY <1>2, <1>3, <1>4, <1>8, <3>1, <3>3
      <4>2. s.obj < 2 \/ s.num = HashNum
        BY <1>5, <4>1
      <4>3. QED
        BY <1>6, <1>7, <4>2
    <3>4. QED
      BY <3>2, <3>3
  <2>3. QED
    BY <2>1, <2>2
<1>11. QED
  BY <1>8, <1>9, <1>10

\* What qsort makes of them.  The last section that is packed is not in the file.
Layered(x, c) ==
  /\ Len(c) \in Nat /\ DOMAIN c = 1 .. Len(c)
  /\ \A n \in DOMAIN c : Raw(c[n])
  /\ \A m, n \in DOMAIN c : m < n => Layers(x, c[m], c[n])
  /\ \E m, n \in DOMAIN c :
       /\ m < n /\ IsWanted(c[n]) /\ InFile(c[m])
       /\ x => Packs(x, c[m]) /\ Packs(x, c[n])

InOrder(c, rank) == [k \in DOMAIN c |-> c[CHOOSE n \in DOMAIN c : rank[n] = k - 1]]

\* Every section has one place, and none is in front of one that comes before it.
LEMMA SortedIs ==
  ASSUME NEW c, CollectedSects(c), NEW rank, rank = [n \in DOMAIN c |-> Rank(c, n)]
  PROVE  \E N \in Nat :
           /\ N = Len(c) /\ DOMAIN c = 1 .. N
           /\ \E p : /\ p \in [1 .. N -> 1 .. N] /\ \A k, l \in 1 .. N : p[k] = p[l] => k = l
                     /\ \A n \in 1 .. N : \E k \in 1 .. N : p[k] = n
                     /\ InOrder(c, rank) = [k \in 1 .. N |-> c[p[k]]]
                     /\ \A k, l \in 1 .. N : k < l => SectBefore(c[p[k]], c[p[l]])
<1>1. PICK N \in Nat : N = Len(c) /\ DOMAIN c = 1 .. N
  <2>1. PICK T : T = Range(c)
    OBVIOUS
  <2>2. c \in Seq(T)
    BY <2>1 DEF CollectedSects
  <2>3. QED
    BY <2>2
<1>2. /\ \A n \in 1 .. N : Raw(c[n]) /\ Known(c[n])
      /\ \A m, n \in 1 .. N : m # n => c[m].obj # c[n].obj \/ c[m].num # c[n].num
  BY <1>1 DEF CollectedSects
<1> DEFINE R == {p \in (1 .. N) \X (1 .. N) : SectBefore(c[p[1]], c[p[2]])}
<1>3. \A a, b \in 1 .. N : <<a, b>> \in R <=> KeyBefore(SectKey(c[a]), SectKey(c[b]))
  <2>1. SUFFICES ASSUME NEW a \in 1 .. N, NEW b \in 1 .. N
                 PROVE  <<a, b>> \in R <=> KeyBefore(SectKey(c[a]), SectKey(c[b]))
    OBVIOUS
  <2>2. SectBefore(c[a], c[b]) <=> KeyBefore(SectKey(c[a]), SectKey(c[b]))
    BY <1>2, BeforeIs
  <2>3. <<a, b>> \in R <=> SectBefore(c[a], c[b])
    OBVIOUS
  <2>4. QED
    BY <2>2, <2>3
<1>4. \A a \in 1 .. N : /\ SectKey(c[a]) \in [1 .. 7 -> Int]
                        /\ SectKey(c[a])[6] = c[a].obj /\ SectKey(c[a])[7] = c[a].num
  BY <1>2, KeyIs
<1>5. R \in SUBSET ((1 .. N) \X (1 .. N))
  OBVIOUS
<1>6. \A a \in 1 .. N : Rank(c, a) = Cardinality(Ahead(R, N, a))
  <2>1. SUFFICES ASSUME NEW a \in 1 .. N PROVE Rank(c, a) = Cardinality(Ahead(R, N, a))
    OBVIOUS
  <2>2. {m \in DOMAIN c : SectBefore(c[m], c[a])} = Ahead(R, N, a)
    BY <1>1 DEF Ahead
  <2>3. QED
    BY <2>2 DEF Rank
<1> HIDE DEF R
<1>7. Follows(R, N)
  <2>1. \A a \in 1 .. N : <<a, a>> \notin R
    BY <1>3, <1>4, KeyOrder
  <2>2. ASSUME NEW a \in 1 .. N, NEW b \in 1 .. N, NEW d \in 1 .. N, <<a, b>> \in R, <<b, d>> \in R
        PROVE  <<a, d>> \in R
    <3>1. KeyBefore(SectKey(c[a]), SectKey(c[b])) /\ KeyBefore(SectKey(c[b]), SectKey(c[d]))
      BY <1>3, <2>2
    <3>2. KeyBefore(SectKey(c[a]), SectKey(c[d]))
      BY <1>4, <3>1, KeyOrder
    <3>3. QED
      BY <1>3, <3>2
  <2>3. ASSUME NEW a \in 1 .. N, NEW b \in 1 .. N, a # b PROVE <<a, b>> \in R \/ <<b, a>> \in R
    <3>1. SectKey(c[a])[6] # SectKey(c[b])[6] \/ SectKey(c[a])[7] # SectKey(c[b])[7]
      BY <1>2, <1>4, <2>3
    <3>2. KeyBefore(SectKey(c[a]), SectKey(c[b])) \/ KeyBefore(SectKey(c[b]), SectKey(c[a]))
      BY <1>4, <3>1, KeyOrder
    <3>3. QED
      BY <1>3, <3>2
  <2>4. QED
    BY <1>5, <2>1, <2>2, <2>3 DEF Follows
<1>8. \A a \in 1 .. N : rank[a] = Cardinality(Ahead(R, N, a))
  BY <1>1, <1>6
<1>9. \A a \in 1 .. N : rank[a] \in 0 .. N - 1
  BY <1>7, <1>8, Ranked
<1>10. \A a, b \in 1 .. N : <<a, b>> \in R => rank[a] < rank[b]
  BY <1>7, <1>8, Ranked
<1>11. \A a, b \in 1 .. N : rank[a] = rank[b] => a = b
  <2>1. SUFFICES ASSUME NEW a \in 1 .. N, NEW b \in 1 .. N, rank[a] = rank[b], a # b PROVE FALSE
    OBVIOUS
  <2>2. <<a, b>> \in R \/ <<b, a>> \in R
    BY <1>7, <2>1 DEF Follows
  <2>3. rank[a] < rank[b] \/ rank[b] < rank[a]
    BY <1>10, <2>2
  <2>4. QED
    BY <1>9, <2>1, <2>3
<1>12. PICK p : p = [k \in DOMAIN c |-> CHOOSE n \in DOMAIN c : rank[n] = k - 1]
  OBVIOUS
<1>13. \A k \in 1 .. N : p[k] \in 1 .. N /\ rank[p[k]] = k - 1
  <2>1. SUFFICES ASSUME NEW k \in 1 .. N PROVE p[k] \in 1 .. N /\ rank[p[k]] = k - 1
    OBVIOUS
  <2>2. \E a \in 1 .. N : rank[a] = k - 1
    BY <1>7, <1>8, AllRanks
  <2>3. k \in DOMAIN c /\ \E a \in DOMAIN c : rank[a] = k - 1
    BY <1>1, <2>2
  <2>4. p[k] \in DOMAIN c /\ rank[p[k]] = k - 1
    BY <1>12, <2>3
  <2>5. QED
    BY <1>1, <2>4
<1>14. \A k, l \in 1 .. N : k < l => <<p[k], p[l]>> \in R
  <2>1. SUFFICES ASSUME NEW k \in 1 .. N, NEW l \in 1 .. N, k < l PROVE <<p[k], p[l]>> \in R
    OBVIOUS
  <2>2. p[k] # p[l] /\ ~(rank[p[l]] < rank[p[k]])
    BY <1>13, <2>1
  <2>3. <<p[l], p[k]>> \notin R
    BY <1>10, <1>13, <2>2
  <2>4. QED
    BY <1>7, <1>13, <2>2, <2>3 DEF Follows
<1>15. p \in [1 .. N -> 1 .. N] /\ \A k, l \in 1 .. N : p[k] = p[l] => k = l
  <2>1. p \in [1 .. N -> 1 .. N]
    BY <1>1, <1>12, <1>13
  <2>2. ASSUME NEW k \in 1 .. N, NEW l \in 1 .. N, p[k] = p[l] PROVE k = l
    <3>1. k - 1 = l - 1
      BY <1>13, <2>2
    <3>2. QED
      BY <3>1
  <2>3. QED
    BY <2>1, <2>2
<1>16. ASSUME NEW n \in 1 .. N PROVE \E k \in 1 .. N : p[k] = n
  <2>1. PICK k \in 1 .. N : k = rank[n] + 1
    BY <1>9
  <2>2. rank[p[k]] = rank[n]
    <3>1. rank[n] \in Int /\ k - 1 = rank[n]
      BY <1>9, <2>1
    <3>2. QED
      BY <1>13, <3>1
  <2>3. p[k] = n
    BY <1>11, <1>13, <2>2
  <2>4. QED
    BY <2>3
<1>17. InOrder(c, rank) = [k \in 1 .. N |-> c[p[k]]]
  <2>1. PICK s : s = [k \in DOMAIN c |-> c[p[k]]]
    OBVIOUS
  <2>2. InOrder(c, rank) = s
    BY <1>12, <2>1 DEF InOrder
  <2>3. s = [k \in 1 .. N |-> c[p[k]]]
    BY <1>1, <2>1
  <2>4. QED
    BY <2>2, <2>3
<1>18. ASSUME NEW k \in 1 .. N, NEW l \in 1 .. N, k < l PROVE SectBefore(c[p[k]], c[p[l]])
  <2>1. KeyBefore(SectKey(c[p[k]]), SectKey(c[p[l]]))
    BY <1>3, <1>13, <1>14, <1>18
  <2>2. QED
    BY <1>2, <1>13, <2>1, BeforeIs
<1>19. \A n \in 1 .. N : \E k \in 1 .. N : p[k] = n
  BY <1>16
<1>20. \A k, l \in 1 .. N : k < l => SectBefore(c[p[k]], c[p[l]])
  BY <1>18
<1>21. QED
  <2>1. \E q : /\ q \in [1 .. N -> 1 .. N] /\ \A k, l \in 1 .. N : q[k] = q[l] => k = l
               /\ \A n \in 1 .. N : \E k \in 1 .. N : q[k] = n
               /\ InOrder(c, rank) = [k \in 1 .. N |-> c[q[k]]]
               /\ \A k, l \in 1 .. N : k < l => SectBefore(c[q[k]], c[q[l]])
    BY <1>15, <1>17, <1>19, <1>20, Zenon
  <2>2. N \in Nat /\ N = Len(c) /\ DOMAIN c = 1 .. N
    BY <1>1
  <2>3. QED
    BY <2>1, <2>2, Zenon

LEMMA SortedLayers ==
  ASSUME NEW c, CollectedSects(c), NEW rank, rank = [n \in DOMAIN c |-> Rank(c, n)]
  PROVE  /\ Layered(onekpaq, InOrder(c, rank))
         /\ Len(c) \in Nat
         /\ Len(InOrder(c, rank)) = Len(c)
<1> PICK N \in Nat :
        /\ N = Len(c) /\ DOMAIN c = 1 .. N
        /\ \E p : /\ p \in [1 .. N -> 1 .. N] /\ \A k, l \in 1 .. N : p[k] = p[l] => k = l
                  /\ \A n \in 1 .. N : \E k \in 1 .. N : p[k] = n
                  /\ InOrder(c, rank) = [k \in 1 .. N |-> c[p[k]]]
                  /\ \A k, l \in 1 .. N : k < l => SectBefore(c[p[k]], c[p[l]])
  BY SortedIs
<1>1. PICK p :
        /\ N = Len(c) /\ DOMAIN c = 1 .. N
        /\ p \in [1 .. N -> 1 .. N] /\ \A k, l \in 1 .. N : p[k] = p[l] => k = l
        /\ \A n \in 1 .. N : \E k \in 1 .. N : p[k] = n
        /\ InOrder(c, rank) = [k \in 1 .. N |-> c[p[k]]]
        /\ \A k, l \in 1 .. N : k < l => SectBefore(c[p[k]], c[p[l]])
  OBVIOUS
<1>2. \A n \in 1 .. N : Raw(c[n]) /\ Known(c[n])
  BY <1>1 DEF CollectedSects
<1>3. PICK s : s = [k \in 1 .. N |-> c[p[k]]]
  OBVIOUS
<1>4. Len(s) = N /\ DOMAIN s = 1 .. N /\ \A k \in 1 .. N : p[k] \in 1 .. N /\ Raw(s[k])
  <2>1. \A k \in 1 .. N : p[k] \in 1 .. N /\ Raw(s[k])
    BY <1>1, <1>2, <1>3
  <2>2. Len(s) = N /\ DOMAIN s = 1 .. N
    BY <1>3
  <2>3. QED
    BY <2>1, <2>2
<1>5. ASSUME NEW k \in 1 .. N, NEW l \in 1 .. N, k < l PROVE Layers(onekpaq, s[k], s[l])
  BY <1>1, <1>2, <1>3, <1>4, <1>5, InLayers
<1>6. \E m, n \in 1 .. N :
         /\ m < n /\ IsWanted(s[n]) /\ InFile(s[m])
         /\ onekpaq => Packs(onekpaq, s[m]) /\ Packs(onekpaq, s[n])
  <2>1. PICK x \in 1 .. N, y \in 1 .. N :
          /\ c[x].obj = 2 /\ c[x].num # HashNum /\ SectionType(c[x]) = TEXT
          /\ c[y].obj = 2 /\ c[y].num # HashNum /\ SectionType(c[y]) = BSS
    BY <1>1 DEF CollectedSects
  <2>2. PICK m \in 1 .. N, n \in 1 .. N : s[m] = c[x] /\ s[n] = c[y]
    <3>1. PICK m \in 1 .. N, n \in 1 .. N : p[m] = x /\ p[n] = y
      BY <1>1
    <3>2. s[m] = c[x] /\ s[n] = c[y]
      BY <1>3, <3>1
    <3>3. QED
      BY <3>2
  <2>0. /\ SectionType(s[m]) = TEXT /\ SectionType(s[n]) = BSS
        /\ s[m].obj = 2 /\ s[m].num # HashNum /\ s[n].obj = 2 /\ s[n].num # HashNum
    <3>1. SectionType(s[m]) = TEXT /\ s[m].obj = 2 /\ s[m].num # HashNum
      BY ONLY <2>1, <2>2, Zenon
    <3>2. SectionType(s[n]) = BSS /\ s[n].obj = 2 /\ s[n].num # HashNum
      BY ONLY <2>1, <2>2, Zenon
    <3>3. QED
      BY <3>1, <3>2
  <2>3. /\ IsWanted(s[m]) /\ IsWanted(s[n]) /\ InFile(s[m]) /\ ~InFile(s[n])
    <3>1. TEXT # DoNotWant /\ BSS # DoNotWant /\ TEXT \in {TEXT, DATA} /\ BSS \notin {TEXT, DATA}
      BY DEF DoNotWant, TEXT, DATA, BSS
    <3>2. QED
      BY ONLY <2>0, <3>1, Zenon DEF IsWanted, InFile
  <2>4. onekpaq => Packs(onekpaq, s[m]) /\ Packs(onekpaq, s[n])
    BY <2>0 DEF Packs
  <2>5. m # n /\ ~(n < m)
    BY <1>5, <2>3 DEF Layers
  <2>6. m < n
    BY <2>5
  <2>7. QED
    BY <2>3, <2>4, <2>6
<1>7. Layered(onekpaq, s)
  BY <1>4, <1>5, <1>6 DEF Layered
<1>8. QED
  BY <1>1, <1>3, <1>4, <1>7

-----------------------------------------------------------------------------
(* Doubling, remainders and sums.                                          *)

\* d is what doubling makes of a number that is n or at most k less.
Doubles(d, n, k) ==
  \A m \in Nat : m >= 1 /\ m + k >= n => d[m] = IF m >= n THEN m ELSE d[2 * m]

LEMMA DoublesExists ==
  ASSUME NEW n \in Nat, NEW k \in Nat
  PROVE  \E d \in [Nat -> Nat] : Doubles(d, n, k)
<1> DEFINE N == {j \in Nat : \E d \in [Nat -> Nat] : Doubles(d, n, j)}
<1>1. 0 \in N
  <2> DEFINE d == [m \in Nat |-> m]
  <2>1. d \in [Nat -> Nat] /\ Doubles(d, n, 0)
    BY DEF Doubles
  <2>2. QED
    BY <2>1
<1>2. ASSUME NEW j \in N PROVE j + 1 \in N
  <2>1. PICK d \in [Nat -> Nat] : Doubles(d, n, j)
    OBVIOUS
  <2>2. PICK e \in [Nat -> Nat] : e = [m \in Nat |-> IF m + j >= n THEN d[m] ELSE d[2 * m]]
    <3>1. \A m \in Nat : 2 * m \in Nat
      OBVIOUS
    <3>2. QED
      BY <3>1
  <2>3. Doubles(e, n, j + 1)
    <3>1. SUFFICES ASSUME NEW m \in Nat, m >= 1, m + (j + 1) >= n
                   PROVE  e[m] = IF m >= n THEN m ELSE e[2 * m]
      BY DEF Doubles
    <3>2. PICK t \in Nat : t = 2 * m /\ t >= m + 1
      BY <3>1
    <3>3. t + j >= n
      BY <3>1, <3>2
    <3>4. e[t] = d[t]
      BY <2>2, <3>3
    <3>5. CASE m + j >= n
      <4>1. d[m] = IF m >= n THEN m ELSE d[2 * m]
        BY <2>1, <3>1, <3>5 DEF Doubles
      <4>2. QED
        BY <2>2, <3>2, <3>4, <3>5, <4>1
    <3>6. CASE m + j < n
      <4>1. e[m] = d[2 * m] /\ ~(m >= n)
        BY <2>2, <3>6
      <4>2. QED
        BY <3>2, <3>4, <4>1
    <3>7. QED
      BY <3>5, <3>6
  <2>4. QED
    BY <2>3
<1> HIDE DEF N
<1>3. N = Nat
  <2>1. N \in SUBSET Nat
    BY DEF N
  <2>2. QED
    BY <1>1, <1>2, <2>1, SetInduction
<1>4. QED
  BY <1>3 DEF N

LEMMA DoubledIs ==
  ASSUME NEW from \in Nat \ {0}, NEW n \in Nat
  PROVE  Doubled(from, n) \in Nat /\ Doubled(from, n) >= n
<1>1. PICK e \in [Nat -> Nat] : Doubles(e, n, n)
  BY DoublesExists
<1>2. PICK g \in [Nat -> Nat] : g = [m \in Nat |-> IF m = 0 THEN 0 ELSE e[m]]
  OBVIOUS
<1>3. g = [m \in Nat |-> IF m >= n THEN m ELSE g[2 * m]]
  <2>1. ASSUME NEW m \in Nat PROVE g[m] = IF m >= n THEN m ELSE g[2 * m]
    <3>1. CASE m = 0
      BY <1>2, <3>1
    <3>2. CASE m # 0
      <4>1. m >= 1 /\ m + n >= n /\ 2 * m \in Nat /\ 2 * m # 0
        BY <3>2
      <4>2. e[m] = IF m >= n THEN m ELSE e[2 * m]
        BY <1>1, <4>1 DEF Doubles
      <4>3. g[m] = e[m] /\ g[2 * m] = e[2 * m]
        BY <1>2, <3>2, <4>1
      <4>4. QED
        BY <4>2, <4>3
    <3>3. QED
      BY <3>1, <3>2
  <2>2. QED
    BY <1>2, <2>1
<1>4. PICK d : /\ d = [m \in Nat |-> IF m >= n THEN m ELSE d[2 * m]]
               /\ Doubled(from, n) = d[from]
  <2> DEFINE c == CHOOSE d : d = [m \in Nat |-> IF m >= n THEN m ELSE d[2 * m]]
  <2>1. c = [m \in Nat |-> IF m >= n THEN m ELSE c[2 * m]]
    BY <1>3, Zenon
  <2>2. Doubled(from, n) = c[from]
    BY DEF Doubled
  <2> HIDE DEF c
  <2>3. QED
    BY <2>1, <2>2
<1>5. \A m \in Nat : d[m] = IF m >= n THEN m ELSE d[2 * m]
  BY <1>4
\* Numbers that are large enough, then those that are k less.
<1> DEFINE N == {k \in Nat : \A m \in Nat : m >= 1 /\ m + k >= n => d[m] \in Nat /\ d[m] >= n}
<1>6. 0 \in N
  BY <1>5
<1>7. ASSUME NEW k \in N PROVE k + 1 \in N
  <2>1. SUFFICES ASSUME NEW m \in Nat, m >= 1, m + (k + 1) >= n PROVE d[m] \in Nat /\ d[m] >= n
    OBVIOUS
  <2>2. PICK t \in Nat : t = 2 * m /\ t >= m + 1
    BY <2>1
  <2>3. t >= 1 /\ t + k >= n
    BY <2>1, <2>2
  <2>4. d[t] \in Nat /\ d[t] >= n
    BY <2>3
  <2>5. d[m] = IF m >= n THEN m ELSE d[t]
    BY <1>5, <2>2
  <2>6. QED
    BY <2>4, <2>5
<1> HIDE DEF N
<1>8. N = Nat
  <2>1. N \in SUBSET Nat
    BY DEF N
  <2>2. QED
    BY <1>6, <1>7, <2>1, SetInduction
<1>9. n \in N /\ from >= 1 /\ from + n >= n
  BY <1>8
<1>10. QED
  BY <1>4, <1>9 DEF N

LEMMA LeftOver ==
  ASSUME NEW a \in Nat, NEW b \in Nat \ {0}
  PROVE  (b - (a % b)) % b \in Nat
<1>1. a % b \in Nat /\ a % b < b
  OBVIOUS
<1>2. PICK c \in Nat : c = b - (a % b)
  <2>1. PICK r \in Nat : r = a % b /\ r < b
    BY <1>1
  <2>2. b - r \in Nat
    BY <2>1
  <2>3. QED
    BY <2>1, <2>2
<1>3. c % b \in Nat
  OBVIOUS
<1>4. QED
  BY <1>2, <1>3

LEMMA OneMore ==
  ASSUME NEW b \in Seq(Nat), NEW a \in Nat \ {0}, NEW d \in a .. Len(b)
  PROVE  /\ b[d] \in Nat /\ SubSeq(b, a, d - 1) \in Seq(Nat)
         /\ SubSeq(b, a, d) = Append(SubSeq(b, a, d - 1), b[d])
<1>1. PICK l \in Nat : l = Len(b) /\ DOMAIN b = 1 .. l /\ \A n \in 1 .. l : b[n] \in Nat
  OBVIOUS
<1>2. a \in 1 .. Len(b) /\ d \in 1 .. l /\ a \in Int /\ d - 1 \in Int
  BY <1>1
<1>3. b[d] \in Nat
  BY <1>1, <1>2
<1>4. \A n \in a .. d - 1 : b[n] \in Nat
  BY <1>1, <1>2
<1>5. PICK s \in Seq(Nat) : s = SubSeq(b, a, d - 1)
  BY <1>2, <1>4, SubSeqProperties
<1>6. SubSeq(b, a, d) = s \o <<b[d]>>
  BY <1>2, <1>5, SubSeqRecursiveSecond
<1>7. s \o <<b[d]>> = Append(s, b[d])
  BY <1>3
<1>8. QED
  BY <1>3, <1>5, <1>6, <1>7

\* Bytes of blocks that lie one behind the other.
LEMMA StackTotal ==
  ASSUME NEW b \in Seq(Nat), NEW e \in 0 .. Len(b), NEW off \in [1 .. e + 1 -> Nat],
         \A n \in 1 .. e : off[n + 1] = off[n] + b[n],
         NEW a \in 1 .. e + 1, NEW c \in a - 1 .. e
  PROVE  SumOf(SubSeq(b, a, c)) = off[c + 1] - off[a]
<1> DEFINE S(k) == SubSeq(b, a, a - 1 + k)
           N == {k \in Nat : a - 1 + k <= e => SumOf(S(k)) = off[a + k] - off[a]}
<1>1. PICK l \in Nat : l = Len(b) /\ e <= l /\ e \in Nat /\ a \in Nat \ {0}
  OBVIOUS
<1>2. 0 \in N
  <2>1. S(0) = <<>>
    <3>1. a - 1 + 0 < a /\ a - 1 + 0 \in Int /\ a \in Int
      OBVIOUS
    <3>2. QED
      BY <3>1, SubSeqEmpty
  <2>2. SumOf(S(0)) = 0
    BY <2>1, SumIsTotal, TotalEmpty
  <2>3. QED
    BY <2>2
<1>3. ASSUME NEW k \in N PROVE k + 1 \in N
  <2> SUFFICES ASSUME a - 1 + (k + 1) <= e PROVE SumOf(S(k + 1)) = off[a + (k + 1)] - off[a]
    OBVIOUS
  <2>1. PICK d \in 1 .. e : d = a + k /\ d \in a .. Len(b) /\ d - 1 = a - 1 + k /\ d = a - 1 + (k + 1)
    BY <1>1
  <2>2. PICK s \in Seq(Nat) : s = S(k)
    BY <1>1, <2>1, OneMore
  <2>3. S(k + 1) = Append(s, b[d]) /\ b[d] \in Nat
    BY <1>1, <2>1, <2>2, OneMore
  <2>4. s \in Seq(Int) /\ b[d] \in Int
    <3>1. \A q \in Seq(Nat) : q \in Seq(Int)
      OBVIOUS
    <3>2. \A x \in Nat : x \in Int
      OBVIOUS
    <3>3. QED
      BY <2>3, <3>1, <3>2, Zenon
  <2>5. SumOf(S(k + 1)) = SumOf(s) + b[d]
    BY <2>3, <2>4, SumIsTotal, TotalAppend
  <2>6. SumOf(s) = off[d] - off[a]
    BY <1>1, <2>1, <2>2
  <2>7. off[d + 1] = off[d] + b[d] /\ off[d] \in Int /\ off[a] \in Int
    <3>1. a \in 1 .. e + 1 /\ d \in 1 .. e + 1
      BY <1>1
    <3>2. \A n \in 1 .. e + 1 : off[n] \in Int
      OBVIOUS
    <3>3. QED
      BY <3>1, <3>2
  <2>8. a + (k + 1) = d + 1
    BY <1>1, <2>1
  <2> HIDE DEF S
  <2>9. SumOf(S(k + 1)) = off[d + 1] - off[a]
    <3>1. PICK x \in Int, y \in Int, z \in Int : x = off[d] /\ y = off[a] /\ z = b[d]
      BY <2>4, <2>7
    <3>2. SumOf(S(k + 1)) = (x - y) + z
      BY <2>5, <2>6, <3>1
    <3>3. off[d + 1] = x + z
      BY <2>7, <3>1
    <3>4. (x - y) + z = (x + z) - y
      OBVIOUS
    <3>5. QED
      BY <3>1, <3>2, <3>3, <3>4, Zenon
  <2>10. QED
    BY <2>8, <2>9
<1>4. N = Nat
  <2>1. N \in SUBSET Nat
    OBVIOUS
  <2> HIDE DEF N
  <2>2. QED
    BY <1>2, <1>3, <2>1, SetInduction
<1>5. PICK k \in Nat : k = c - (a - 1)
  OBVIOUS
<1>6. SumOf(S(k)) = off[a + k] - off[a]
  <2>1. k \in N
    BY <1>4
  <2>2. QED
    BY <1>5, <2>1
<1>7. a - 1 + k = c /\ a + k = c + 1
  BY <1>5
<1>8. QED
  BY <1>6, <1>7

-----------------------------------------------------------------------------
(* Places.                                                                 *)

End(s) == s.abs_offset + s.length

\* The first k sections of c lie one behind the other, below b.
Stacked(c, k, b) ==
  /\ \A n \in 1 .. k : IsWanted(c[n]) /\ End(c[n]) <= b
  /\ \A m, n \in 1 .. k : m < n => End(c[m]) <= c[n].abs_offset

\* The q-th section is the first that is packed, if x says that there is one.
FirstOf(x, c, q) == Packs(x, c[q]) /\ \A m \in 1 .. q - 1 : ~Packs(x, c[m])

\* What is packed is shifted by v, which takes the first of it to d.
Shifted(x, d, c, k, v) ==
  /\ \A n \in 1 .. k : c[n].vm_shift = IF Packs(x, c[n]) THEN v ELSE 0
  /\ \A q \in 1 .. k : FirstOf(x, c, q) => c[q].abs_offset + v = d
  /\ v # 0 => \E n \in 1 .. k : Packs(x, c[n])
  /\ v = 0 => \A n \in 1 .. k - 1 : ~Packs(x, c[n])

\* e of them are in the file, and take f bytes of it.
Filed(c, blocks, k, e, b, f) ==
  /\ e \in 0 .. k /\ (e = k => b = f)
  /\ \A n \in 1 .. k : InFile(c[n]) <=> n <= e
  /\ e = 0 => f = 0
  /\ e > 0 => c[1].abs_offset = 0 /\ End(c[e]) = f
  /\ \A n \in 1 .. e - 1 : c[n + 1].abs_offset = End(c[n])
  /\ blocks = [n \in 1 .. Len(c) + 2 |-> IF n <= e THEN c[n].length ELSE 0]

\* The i-th section gets its place a and its shift v.
Put(c, i0, a, v) == [c EXCEPT ![i0].abs_offset = a, ![i0].vm_shift = v]
SameKind(s, t) ==
  /\ Raw(t) /\ t.obj = s.obj /\ t.num = s.num /\ t.length = s.length
  /\ t.seg = s.seg /\ t.name = s.name

LEMMA OfAKind ==
  ASSUME NEW s, NEW t, SameKind(s, t)
  PROVE  /\ SectionType(t) = SectionType(s) /\ (IsWanted(t) <=> IsWanted(s))
         /\ (InFile(t) <=> InFile(s)) /\ t.length = s.length
         /\ \A x : Packs(x, t) <=> Packs(x, s)
BY DEF SameKind, SectionType, IsWanted, InFile, Packs

LEMMA LayersOfAKind ==
  ASSUME NEW s, NEW t, NEW s1, NEW t1, SameKind(s, s1), SameKind(t, t1), NEW x, Layers(x, s, t)
  PROVE  Layers(x, s1, t1)
BY OfAKind, Zenon DEF Layers

LEMMA PutIs ==
  ASSUME NEW x, NEW c, Layered(x, c), NEW j \in DOMAIN c, NEW a \in Nat, NEW v \in Nat
  PROVE  /\ Len(Put(c, j, a, v)) = Len(c) /\ DOMAIN Put(c, j, a, v) = DOMAIN c
         /\ \A n \in DOMAIN c : SameKind(c[n], Put(c, j, a, v)[n])
         /\ \A n \in DOMAIN c \ {j} : Put(c, j, a, v)[n] = c[n]
         /\ Put(c, j, a, v)[j].abs_offset = a /\ Put(c, j, a, v)[j].vm_shift = v
         /\ Layered(x, Put(c, j, a, v))
<1>1. PICK p : p = Put(c, j, a, v)
  OBVIOUS
<1>2. PICK s, t, t2 : s = c[j] /\ t = [s EXCEPT !.abs_offset = a] /\ t2 = [t EXCEPT !.vm_shift = v]
  OBVIOUS
<1>3. PICK l \in Nat : l = Len(c) /\ DOMAIN c = 1 .. l
  BY DEF Layered
<1>4. p = [n \in DOMAIN c |-> IF n = j THEN t2 ELSE c[n]]
  BY <1>1, <1>2 DEF Put
<1>5. Raw(s)
  BY <1>2 DEF Layered
<1>6. SameKind(s, t2) /\ t2.abs_offset = a /\ t2.vm_shift = v
  <2>1. DOMAIN s = Fields
    BY <1>5 DEF Raw
  <2>2. DOMAIN t = Fields /\ \A f \in Fields \ {"abs_offset"} : t[f] = s[f]
    BY <1>2, <2>1
  <2>3. DOMAIN t2 = Fields /\ \A f \in Fields \ {"vm_shift"} : t2[f] = t[f]
    BY <1>2, <2>2
  <2>4. t2.abs_offset = a /\ t2.vm_shift = v
    BY <1>2, <2>1, <2>2 DEF Fields
  <2>5. /\ t2.obj = s.obj /\ t2.num = s.num /\ t2.length = s.length
        /\ t2.seg = s.seg /\ t2.name = s.name
    BY <2>2, <2>3 DEF Fields
  <2>6. QED
    BY <1>5, <2>3, <2>4, <2>5 DEF SameKind, Raw
<1>7. DOMAIN p = DOMAIN c /\ Len(p) = l
  BY <1>3, <1>4
<1>8. \A n \in DOMAIN c \ {j} : p[n] = c[n]
  BY <1>4
<1>9. p[j] = t2
  BY <1>4
<1>10. \A n \in DOMAIN c : SameKind(c[n], p[n])
  <2>1. \A n \in DOMAIN c : Raw(c[n]) => SameKind(c[n], c[n])
    BY DEF SameKind
  <2>2. \A n \in DOMAIN c : Raw(c[n])
    BY DEF Layered
  <2>3. QED
    BY <1>2, <1>6, <1>8, <1>9, <2>1, <2>2
<1>11. Layered(x, p)
  <2>1. \A n \in DOMAIN c : Raw(p[n])
    BY <1>10 DEF SameKind
  <2>2. \A m, n \in DOMAIN c : m < n => Layers(x, p[m], p[n])
    BY <1>10, LayersOfAKind DEF Layered
  <2>3. PICK m \in DOMAIN c, n \in DOMAIN c :
          /\ m < n /\ IsWanted(c[n]) /\ InFile(c[m])
          /\ x => Packs(x, c[m]) /\ Packs(x, c[n])
    BY DEF Layered
  <2>4. IsWanted(p[n]) /\ InFile(p[m]) /\ (x => Packs(x, p[m]) /\ Packs(x, p[n]))
    BY <1>10, <2>3, OfAKind
  <2>5. QED
    BY <1>3, <1>7, <2>1, <2>2, <2>3, <2>4 DEF Layered
<1>12. QED
  BY <1>1, <1>3, <1>6, <1>7, <1>8, <1>9, <1>10, <1>11

LEMMA PutLayers ==
  ASSUME NEW x, NEW c, Layered(x, c), NEW j \in DOMAIN c, NEW a \in Nat, NEW v \in Nat
  PROVE  Layered(x, Put(c, j, a, v)) /\ Len(Put(c, j, a, v)) = Len(c)
BY PutIs

-----------------------------------------------------------------------------
\* One more section.

LEMMA StackMore ==
  ASSUME NEW x, NEW c, Layered(x, c), NEW j \in DOMAIN c, NEW a \in Nat, NEW v \in Nat,
         NEW b \in Nat, Stacked(c, j - 1, b), IsWanted(c[j]), b <= a
  PROVE  Stacked(Put(c, j, a, v), j, a + c[j].length)
<1>1. PICK p : p = Put(c, j, a, v)
  OBVIOUS
<1>2. /\ \A n \in DOMAIN c : SameKind(c[n], p[n])
      /\ \A n \in DOMAIN c \ {j} : p[n] = c[n]
      /\ p[j].abs_offset = a
  BY <1>1, PutIs
<1>3. PICK l \in Nat : DOMAIN c = 1 .. l /\ \A n \in 1 .. l : Raw(c[n])
  BY DEF Layered
<1>4. \A n \in 1 .. j - 1 : p[n] = c[n]
  BY <1>2, <1>3
<1>5. p[j].length = c[j].length /\ IsWanted(p[j]) /\ c[j].length \in Nat
  BY <1>2, <1>3, OfAKind DEF Raw
<1>6. \A n \in 1 .. j - 1 : End(p[n]) \in Nat /\ End(p[n]) <= b /\ IsWanted(p[n])
  <2>1. SUFFICES ASSUME NEW n \in 1 .. j - 1
                 PROVE  End(p[n]) \in Nat /\ End(p[n]) <= b /\ IsWanted(p[n])
    OBVIOUS
  <2>2. p[n] = c[n] /\ Raw(c[n])
    BY <1>3, <1>4
  <2>3. End(c[n]) <= b /\ IsWanted(c[n])
    BY DEF Stacked
  <2>4. End(c[n]) \in Nat
    BY <2>2 DEF Raw, End
  <2>5. QED
    BY <2>2, <2>3, <2>4
<1>7. \A n \in 1 .. j - 1 : End(p[n]) <= a
  BY <1>6
<1>8. End(p[j]) = a + c[j].length
  BY <1>2, <1>5 DEF End
<1>9. ASSUME NEW n \in 1 .. j PROVE IsWanted(p[n]) /\ End(p[n]) <= a + c[j].length
  <2>1. CASE n = j
    BY <1>5, <1>8, <2>1
  <2>2. CASE n # j
    <3>1. n \in 1 .. j - 1
      BY <1>3, <2>2
    <3>2. IsWanted(p[n]) /\ End(p[n]) \in Nat /\ End(p[n]) <= a
      BY <1>6, <1>7, <3>1
    <3>3. QED
      BY <1>5, <3>2
  <2>3. QED
    BY <2>1, <2>2
<1>10. ASSUME NEW m \in 1 .. j, NEW n \in 1 .. j, m < n PROVE End(p[m]) <= p[n].abs_offset
  <2>1. m \in 1 .. j - 1
    BY <1>3, <1>10
  <2>2. CASE n = j
    BY <1>2, <1>7, <2>1, <2>2
  <2>3. CASE n # j
    <3>1. n \in 1 .. j - 1
      BY <1>3, <2>3
    <3>2. End(c[m]) <= c[n].abs_offset
      BY <1>10, <2>1, <3>1 DEF Stacked
    <3>3. QED
      BY <1>4, <2>1, <3>1, <3>2
  <2>4. QED
    BY <2>2, <2>3
<1>11. QED
  BY <1>1, <1>9, <1>10 DEF Stacked

\* The shift becomes known at the first section that is packed; it stays zero only
\* if that is at its place already, and then there is no place for the next one.
LEMMA ShiftMore ==
  ASSUME NEW x, NEW d \in Nat, NEW c, Layered(x, c), NEW j \in DOMAIN c,
         NEW a \in Nat, NEW v \in Nat, NEW b \in Nat, Stacked(c, j - 1, b), IsWanted(c[j]), b <= a,
         \A n \in DOMAIN c : IsWanted(c[n]) => c[n].length > 0,
         Shifted(x, d, c, j - 1, v),
         NEW w, w = IF v = 0 /\ Packs(x, c[j]) THEN d - a ELSE v,
         v = 0 /\ Packs(x, c[j]) => a <= d
  PROVE  w \in Nat /\ Shifted(x, d, Put(c, j, a, w), j, w)
<1>1. PICK u \in Nat : u = w
  <2>1. w \in Nat
    OBVIOUS
  <2>2. QED
    BY <2>1
<1>2. PICK p : p = Put(c, j, a, u)
  OBVIOUS
<1>3. /\ \A n \in DOMAIN c : SameKind(c[n], p[n])
      /\ \A n \in DOMAIN c \ {j} : p[n] = c[n]
      /\ p[j].abs_offset = a /\ p[j].vm_shift = w
  <2>1. /\ \A n \in DOMAIN c : SameKind(c[n], p[n])
        /\ \A n \in DOMAIN c \ {j} : p[n] = c[n]
        /\ p[j].abs_offset = a /\ p[j].vm_shift = u
    BY <1>1, <1>2, PutIs
  <2>2. QED
    BY <1>1, <2>1
<1>4. PICK l \in Nat : DOMAIN c = 1 .. l /\ j \in 1 .. l /\ \A n \in 1 .. l : Raw(c[n])
  BY DEF Layered
<1>5. \A n \in 1 .. j - 1 : n \in 1 .. l /\ p[n] = c[n]
  BY <1>3, <1>4
<1>6. \A n \in 1 .. l : Packs(x, p[n]) <=> Packs(x, c[n])
  BY <1>3, <1>4, OfAKind
<1>7. \A n \in 1 .. j - 1 : Packs(x, c[n]) => Packs(x, c[j])
  BY <1>4 DEF Layered, Layers
\* No section is packed in front of the one that fixes the shift.
<1>8. v = 0 => \A n \in 1 .. j - 1 : ~Packs(x, c[n])
  <2>1. SUFFICES ASSUME v = 0, NEW n \in 1 .. j - 1, Packs(x, c[n]) PROVE FALSE
    OBVIOUS
  <2>2. n = j - 1 /\ FirstOf(x, c, n)
    <3>1. \A m \in 1 .. j - 1 - 1 : ~Packs(x, c[m])
      BY <2>1 DEF Shifted
    <3>2. n = j - 1
      BY <1>4, <2>1, <3>1
    <3>3. QED
      BY <2>1, <3>1, <3>2 DEF FirstOf
  <2>3. c[n].abs_offset + v = d
    BY <2>1, <2>2 DEF Shifted
  <2>4. c[n].length > 0 /\ End(c[n]) <= b
    BY <1>4, <1>5, <2>1 DEF Stacked
  <2>5. c[n].abs_offset \in Nat /\ c[n].length \in Nat
    BY <1>4, <1>5, <2>1 DEF Raw
  <2>6. a <= d
    BY <1>7, <2>1
  <2>7. QED
    BY <2>1, <2>3, <2>4, <2>5, <2>6 DEF End
<1>9. v # 0 => \E n \in 1 .. j - 1 : Packs(x, c[n])
  BY DEF Shifted
<1>10. v = 0 /\ ~Packs(x, c[j]) => w = 0
  OBVIOUS
<1>11. v # 0 => w = v /\ Packs(x, c[j])
  BY <1>7, <1>9
<1>12. ASSUME NEW n \in 1 .. j PROVE p[n].vm_shift = IF Packs(x, p[n]) THEN w ELSE 0
  <2>1. CASE n = j
    <3>1. CASE Packs(x, c[j])
      BY <1>3, <1>4, <1>6, <2>1, <3>1
    <3>2. CASE ~Packs(x, c[j])
      BY <1>3, <1>4, <1>6, <1>10, <1>11, <2>1, <3>2
    <3>3. QED
      BY <3>1, <3>2
  <2>2. CASE n # j
    <3>1. n \in 1 .. j - 1
      BY <1>4, <2>2
    <3>2. c[n].vm_shift = IF Packs(x, c[n]) THEN v ELSE 0
      BY <3>1 DEF Shifted
    <3>3. CASE v = 0
      BY <1>5, <1>8, <3>1, <3>2, <3>3
    <3>4. CASE v # 0
      BY <1>5, <1>11, <3>1, <3>2, <3>4
    <3>5. QED
      BY <3>3, <3>4
  <2>3. QED
    BY <2>1, <2>2
<1>13. ASSUME NEW q \in 1 .. j, FirstOf(x, p, q) PROVE p[q].abs_offset + w = d
  <2>1. \A m \in 1 .. q - 1 : m \in 1 .. l
    BY <1>4
  <2>2. FirstOf(x, c, q)
    BY <1>4, <1>6, <1>13, <2>1 DEF FirstOf
  <2>3. CASE q = j
    <3>1. \A n \in 1 .. j - 1 : ~Packs(x, c[n])
      BY <2>2, <2>3 DEF FirstOf
    <3>2. v = 0 /\ Packs(x, c[j])
      BY <1>9, <2>2, <2>3, <3>1 DEF FirstOf
    <3>3. QED
      BY <1>3, <2>3, <3>2
  <2>4. CASE q # j
    <3>1. q \in 1 .. j - 1
      BY <1>4, <2>4
    <3>2. c[q].abs_offset + v = d
      BY <2>2, <3>1 DEF Shifted
    <3>3. v # 0
      BY <1>8, <2>2, <3>1 DEF FirstOf
    <3>4. QED
      BY <1>5, <1>11, <3>1, <3>2, <3>3
  <2>5. QED
    BY <2>3, <2>4
<1>14. ASSUME w # 0 PROVE \E n \in 1 .. j : Packs(x, p[n])
  <2>1. Packs(x, c[j])
    BY <1>10, <1>11, <1>14
  <2>2. QED
    BY <1>4, <1>6, <2>1
<1>15. ASSUME w = 0, NEW n \in 1 .. j - 1 PROVE ~Packs(x, p[n])
  <2>1. v = 0
    BY <1>11, <1>15
  <2>2. QED
    BY <1>5, <1>6, <1>8, <1>15, <2>1
<1>16. QED
  BY <1>1, <1>2, <1>12, <1>13, <1>14, <1>15 DEF Shifted

\* One block has a length n.
WithBlock(blocks, j, n) == [m \in DOMAIN blocks |-> IF m = j THEN n ELSE blocks[m]]

LEMMA FileMore ==
  ASSUME NEW x, NEW c, Layered(x, c), NEW j \in DOMAIN c, NEW a \in Nat, NEW v \in Nat,
         NEW b \in Nat, NEW f \in Nat, NEW e, NEW blocks, Filed(c, blocks, j - 1, e, b, f),
         IsWanted(c[j]), InFile(c[j]), a = b
  PROVE  Filed(Put(c, j, a, v), WithBlock(blocks, j, c[j].length), j, j,
               a + c[j].length, f + c[j].length)
<1>1. PICK p : p = Put(c, j, a, v)
  OBVIOUS
<1>2. /\ Len(p) = Len(c) /\ \A n \in DOMAIN c : SameKind(c[n], p[n])
      /\ \A n \in DOMAIN c \ {j} : p[n] = c[n]
      /\ p[j].abs_offset = a
  BY <1>1, PutIs
<1>3. PICK l \in Nat : l = Len(c) /\ DOMAIN c = 1 .. l /\ j \in 1 .. l /\ \A n \in 1 .. l : Raw(c[n])
  BY DEF Layered
<1>4. \A n \in 1 .. j - 1 : n \in 1 .. l /\ p[n] = c[n]
  BY <1>2, <1>3
<1>5. \A n \in 1 .. j : InFile(p[n])
  <2>1. \A n \in 1 .. j - 1 : InFile(c[n])
    BY <1>3 DEF Layered, Layers
  <2>2. InFile(p[j])
    BY <1>2, OfAKind
  <2>3. QED
    BY <1>3, <1>4, <2>1, <2>2
<1>6. e = j - 1 /\ b = f
  <2>1. e \in 0 .. j - 1
    BY DEF Filed
  <2>2. ~(e < j - 1)
    <3>1. SUFFICES ASSUME e < j - 1 PROVE FALSE
      OBVIOUS
    <3>2. j - 1 \in 1 .. j - 1
      BY <1>3, <2>1, <3>1
    <3>3. InFile(c[j - 1]) <=> j - 1 <= e
      BY <3>2 DEF Filed
    <3>4. InFile(c[j - 1])
      BY <1>3, <3>2 DEF Layered, Layers
    <3>5. QED
      BY <1>3, <2>1, <3>1, <3>3, <3>4
  <2>3. e = j - 1
    BY <1>3, <2>1, <2>2
  <2>4. QED
    BY <2>3 DEF Filed
<1>7. p[j].length = c[j].length /\ c[j].length \in Nat
  BY <1>2, <1>3, OfAKind DEF Raw
<1>8. End(p[j]) = f + c[j].length
  BY <1>2, <1>6, <1>7 DEF End
<1>9. p[1].abs_offset = 0
  <2>1. CASE j = 1
    <3>1. f = 0
      BY <1>6, <2>1 DEF Filed
    <3>2. QED
      BY <1>2, <1>6, <2>1, <3>1
  <2>2. CASE j # 1
    <3>1. 1 \in 1 .. j - 1 /\ e > 0
      BY <1>3, <1>6, <2>2
    <3>2. QED
      BY <1>4, <3>1 DEF Filed
  <2>3. QED
    BY <2>1, <2>2
<1>10. ASSUME NEW n \in 1 .. j - 1 PROVE p[n + 1].abs_offset = End(p[n])
  <2>1. CASE n = j - 1
    <3>1. End(c[n]) = f
      BY <1>3, <1>6, <1>10, <2>1 DEF Filed
    <3>2. n + 1 = j
      BY <1>3, <2>1
    <3>3. QED
      BY <1>2, <1>4, <1>6, <3>1, <3>2
  <2>2. CASE n # j - 1
    <3>1. n \in 1 .. e - 1 /\ n + 1 \in 1 .. j - 1
      BY <1>3, <1>6, <2>2
    <3>2. c[n + 1].abs_offset = End(c[n])
      BY <3>1 DEF Filed
    <3>3. QED
      BY <1>4, <3>1, <3>2
  <2>3. QED
    BY <2>1, <2>2
<1>11. WithBlock(blocks, j, c[j].length)
         = [n \in 1 .. Len(p) + 2 |-> IF n <= j THEN p[n].length ELSE 0]
  <2>1. blocks = [n \in 1 .. l + 2 |-> IF n <= j - 1 THEN c[n].length ELSE 0]
    BY <1>3, <1>6 DEF Filed
  <2>2. \A n \in 1 .. l + 2 : (IF n = j THEN c[j].length ELSE blocks[n])
                                = IF n <= j THEN p[n].length ELSE 0
    <3>1. SUFFICES ASSUME NEW n \in 1 .. l + 2
                   PROVE  (IF n = j THEN c[j].length ELSE blocks[n]) = IF n <= j THEN p[n].length ELSE 0
      OBVIOUS
    <3>2. CASE n = j
      BY <1>3, <1>7, <3>2
    <3>3. CASE n < j
      <4>1. n \in 1 .. j - 1 /\ n <= j - 1 /\ n <= j /\ n # j
        BY <1>3, <3>3
      <4>2. blocks[n] = c[n].length
        BY <2>1, <4>1
      <4>3. QED
        BY <1>4, <4>1, <4>2
    <3>4. CASE n > j
      <4>1. ~(n <= j - 1) /\ ~(n <= j) /\ n # j
        BY <1>3, <3>4
      <4>2. QED
        BY <2>1, <4>1
    <3>5. QED
      BY <1>3, <3>2, <3>3, <3>4
  <2>3. DOMAIN blocks = 1 .. l + 2 /\ Len(p) = l
    BY <1>2, <1>3, <2>1
  <2>4. QED
    BY <2>2, <2>3 DEF WithBlock
<1>12. j \in 0 .. j /\ ~(j = 0) /\ j > 0 /\ \A n \in 1 .. j : n <= j
  BY <1>3
<1>13. a + c[j].length = f + c[j].length
  BY <1>6
<1>14. QED
  BY <1>1, <1>5, <1>8, <1>9, <1>10, <1>11, <1>12, <1>13 DEF Filed

LEMMA FileStays ==
  ASSUME NEW x, NEW c, Layered(x, c), NEW j \in DOMAIN c, NEW a \in Nat, NEW v \in Nat,
         NEW b \in Nat, NEW f \in Nat, NEW e, NEW blocks, Filed(c, blocks, j - 1, e, b, f),
         ~InFile(c[j])
  PROVE  Filed(Put(c, j, a, v), blocks, j, e, a + c[j].length, f)
<1>1. PICK p : p = Put(c, j, a, v)
  OBVIOUS
<1>2. /\ Len(p) = Len(c) /\ \A n \in DOMAIN c : SameKind(c[n], p[n])
      /\ \A n \in DOMAIN c \ {j} : p[n] = c[n]
  BY <1>1, PutIs
<1>3. PICK l \in Nat : l = Len(c) /\ DOMAIN c = 1 .. l /\ j \in 1 .. l
  BY DEF Layered
<1>4. \A n \in 1 .. j - 1 : n \in 1 .. l /\ p[n] = c[n]
  BY <1>2, <1>3
<1>5. e \in 0 .. j - 1 /\ e \in 0 .. j /\ e # j
  <2>1. e \in 0 .. j - 1
    BY DEF Filed
  <2>2. QED
    BY <1>3, <2>1
<1>6. \A n \in 1 .. j : InFile(p[n]) <=> n <= e
  <2>1. SUFFICES ASSUME NEW n \in 1 .. j PROVE InFile(p[n]) <=> n <= e
    OBVIOUS
  <2>2. CASE n = j
    <3>1. ~InFile(p[j])
      BY <1>2, OfAKind
    <3>2. QED
      BY <1>3, <1>5, <2>2, <3>1
  <2>3. CASE n # j
    <3>1. n \in 1 .. j - 1
      BY <1>3, <2>3
    <3>2. QED
      BY <1>4, <3>1 DEF Filed
  <2>4. QED
    BY <2>2, <2>3
<1>7. e = 0 => f = 0
  BY DEF Filed
<1>8. e > 0 => p[1].abs_offset = 0 /\ End(p[e]) = f
  <2>1. SUFFICES ASSUME e > 0 PROVE p[1].abs_offset = 0 /\ End(p[e]) = f
    OBVIOUS
  <2>2. 1 \in 1 .. j - 1 /\ e \in 1 .. j - 1
    BY <1>3, <1>5, <2>1
  <2>3. QED
    BY <1>4, <2>1, <2>2 DEF Filed
<1>9. \A n \in 1 .. e - 1 : p[n + 1].abs_offset = End(p[n])
  <2>1. SUFFICES ASSUME NEW n \in 1 .. e - 1 PROVE p[n + 1].abs_offset = End(p[n])
    OBVIOUS
  <2>2. n \in 1 .. j - 1 /\ n + 1 \in 1 .. j - 1
    BY <1>3, <1>5
  <2>3. QED
    BY <1>4, <2>2 DEF Filed
<1>10. blocks = [n \in 1 .. Len(p) + 2 |-> IF n <= e THEN p[n].length ELSE 0]
  <2>1. blocks = [n \in 1 .. l + 2 |-> IF n <= e THEN c[n].length ELSE 0]
    BY <1>3 DEF Filed
  <2>2. \A n \in 1 .. l + 2 : n <= e => p[n] = c[n]
    <3>1. \A n \in 1 .. l + 2 : n <= e => n \in 1 .. j - 1
      BY <1>3, <1>5
    <3>2. QED
      BY <1>4, <3>1
  <2>3. Len(p) = l
    BY <1>2, <1>3
  <2>4. QED
    BY <2>1, <2>2, <2>3
<1>11. QED
  BY <1>1, <1>5, <1>6, <1>7, <1>8, <1>9, <1>10 DEF Filed

-----------------------------------------------------------------------------
(* The invariant of link_binary.                                           *)

\* k sections have their places.
Lined(k) ==
  /\ Layered(onekpaq, sects) /\ k \in 0 .. Len(sects)
  /\ b_len \in Nat /\ vm_shift \in Nat /\ c_off = b_len + vm_shift
  /\ Stacked(sects, k, b_len)
  /\ Shifted(onekpaq, program.decompress_offset, sects, k, vm_shift)
InPlace(k) == f_len \in Nat /\ \E e : Filed(sects, linker_blocks, k, e, b_len, f_len)

\* All that are wanted, and the heap is behind them.
Whole(k) ==
  /\ Lined(k)
  /\ \A n \in DOMAIN sects : IsWanted(sects[n]) <=> n <= k
  /\ heap \in Nat /\ b_len + vm_shift + program.heap_size <= heap

PackedRight(x, c, p) ==
  \A q \in DOMAIN c : FirstOf(x, c, q) =>
    /\ p.start = c[q].abs_offset
    /\ p.blocks = [n \in DOMAIN p.blocks |-> c[q + n - 1].length]
    /\ \A n \in DOMAIN c : IsWanted(c[n]) /\ Packs(x, c[n]) /\ InFile(c[n]) =>
         p.start <= c[n].abs_offset /\ End(c[n]) <= p.start + p.rf_len

\* The blocks up to the first that is empty have f bytes, and one more can follow.
Ends(blocks, f) ==
  /\ f \in Nat /\ blocks \in Seq(Nat)
  /\ \E z \in Nat \ {0} :
       /\ z + 1 <= Len(blocks) /\ blocks[z] = 0 /\ \A n \in 1 .. z - 1 : blocks[n] # 0
       /\ SumOf(SubSeq(blocks, 1, z - 1)) = f

BinaryInv ==
  /\ bphase \in {"off", "place", "relocate", "translate", "pack", "pad", "file", "refused"}
  /\ bphase = "off" => i = 1 /\ c_off = 0 /\ vm_shift = 0 /\ b_len = 0 /\ f_len = 0
  /\ bphase = "place" => i \in 1 .. Len(sects) + 1 /\ Lined(i - 1) /\ InPlace(i - 1)
  /\ bphase \in {"relocate", "translate", "pack"} => \E k : Whole(k) /\ InPlace(k)
  /\ bphase \in {"pad", "file"} => (\E k : Whole(k)) /\ PackedRight(onekpaq, sects, packed)
  /\ bphase = "pad" => Ends(linker_blocks, f_len)
  /\ bphase = "file" => SumOf(file.blocks) = file.length

LEMMA CollectStep ==
  ASSUME ImportInv, BinaryInv, Collect
  PROVE  BinaryInv'
<1>1. /\ phase = "linked" /\ bphase = "off" /\ bphase' = "place" /\ program' = program
      /\ i' = i /\ c_off' = c_off /\ vm_shift' = vm_shift /\ b_len' = b_len /\ f_len' = f_len
  BY DEF Collect, Rest, ivars
<1>2. i' = 1 /\ c_off' = 0 /\ vm_shift' = 0 /\ b_len' = 0 /\ f_len' = 0
  BY <1>1 DEF BinaryInv
<1>3. program \in Programs /\ Listed(lmap)
  BY <1>1 DEF ImportInv, LinkerInv
<1>4. PICK given \in {Collected} : \E rank \in {[n \in DOMAIN given |-> Rank(given, n)]} :
        /\ sects' = [k \in DOMAIN given |-> given[CHOOSE n \in DOMAIN given : rank[n] = k - 1]]
        /\ linker_blocks' = [n \in 1 .. Len(given) + 2 |-> 0]
  BY Zenon DEF Collect
<1>5. PICK rank \in {[n \in DOMAIN given |-> Rank(given, n)]} :
        /\ sects' = [k \in DOMAIN given |-> given[CHOOSE n \in DOMAIN given : rank[n] = k - 1]]
        /\ linker_blocks' = [n \in 1 .. Len(given) + 2 |-> 0]
  BY <1>4, Zenon
<1>6. CollectedSects(given)
  BY <1>3, <1>4, CollectedIs
<1>7. Layered(onekpaq, sects') /\ Len(sects') = Len(given)
  <2>1. rank = [n \in DOMAIN given |-> Rank(given, n)]
    BY <1>5, Zenon
  <2>2. Layered(onekpaq, InOrder(given, rank)) /\ Len(InOrder(given, rank)) = Len(given)
    BY <1>6, <2>1, SortedLayers, Zenon
  <2>3. sects' = InOrder(given, rank)
    BY <1>5, Zenon DEF InOrder
  <2>4. QED
    BY <2>2, <2>3, Zenon
<1>8. onekpaq' = onekpaq
  BY <1>1 DEF onekpaq
<1>9. PICK l \in Nat : l = Len(sects')
  BY <1>7 DEF Layered
<1>10. Stacked(sects', 0, 0)
  BY DEF Stacked
<1>11. Shifted(onekpaq, program'.decompress_offset, sects', 0, 0)
  BY DEF Shifted
<1>12. Filed(sects', linker_blocks', 0, 0, 0, 0)
  <2>1. linker_blocks' = [n \in 1 .. l + 2 |-> IF n <= 0 THEN sects'[n].length ELSE 0]
    BY <1>5, <1>7, <1>9
  <2>2. QED
    BY <1>9, <2>1 DEF Filed
<1>13. Lined(0)'
  BY <1>2, <1>7, <1>8, <1>9, <1>10, <1>11 DEF Lined
<1>14. InPlace(0)'
  BY <1>2, <1>12 DEF InPlace
<1>15. i' \in 1 .. Len(sects') + 1 /\ i' - 1 = 0
  BY <1>2, <1>9
<1>16. Lined(i - 1)' /\ InPlace(i - 1)'
  <2>1. PICK k : k = i' - 1 /\ k = 0
    BY <1>15
  <2>2. Lined(k)' /\ InPlace(k)'
    BY <1>13, <1>14, <2>1
  <2>3. QED
    BY <2>1, <2>2
<1>17. QED
  BY <1>1, <1>15, <1>16 DEF BinaryInv

LEMMA NudgeIs ==
  ASSUME Segment \in Nat \ {0}, c_off \in Nat
  PROVE  Nudge \in Nat /\ (InFile(Cur) => Nudge = 0)
<1>1. Doubled(1, c_off) - c_off \in Nat
  <2>1. Doubled(1, c_off) \in Nat /\ Doubled(1, c_off) >= c_off
    BY DoubledIs
  <2>2. PICK n \in Nat : n = Doubled(1, c_off) /\ n >= c_off
    BY <2>1
  <2>3. QED
    BY <2>2
<1>2. (Segment - (c_off % Segment)) % Segment \in Nat
  BY LeftOver
<1>3. InFile(Cur) => SectionType(Cur) # BSS
  BY DEF InFile, TEXT, DATA, BSS
<1>4. CASE SectionType(Cur) # BSS
  BY <1>4 DEF Nudge
<1>5. CASE SectionType(Cur) = BSS
  BY <1>1, <1>2, <1>3, <1>5 DEF Nudge
<1>6. QED
  BY <1>4, <1>5

LEMMA PlaceStep ==
  ASSUME ImportInv, BinaryInv, Place
  PROVE  BinaryInv'
<1>1. /\ bphase = "place" /\ bphase' = "place" /\ program' = program /\ i' = i + 1
      /\ sects' = Put(sects, i, AbsOffset, ShiftHere) /\ vm_shift' = ShiftHere
      /\ i <= Len(sects) /\ IsWanted(Cur)
      /\ NeedsShift => AbsOffset <= program.decompress_offset
      /\ c_off' = c_off + (IF NeedsShift THEN ShiftHere ELSE 0) + Cur.length + Nudge
      /\ b_len' = b_len + Cur.length + Nudge
      /\ f_len' = IF InFile(Cur) THEN f_len + Cur.length + Nudge ELSE f_len
      /\ linker_blocks' =
           IF ~InFile(Cur) THEN linker_blocks
           ELSE [n \in DOMAIN linker_blocks |->
                   IF n = i THEN Cur.length
                   ELSE IF n = i - 1 THEN linker_blocks[n] + Nudge ELSE linker_blocks[n]]
  BY DEF Place, Put, Rest, ivars, Wanted, IsWanted, InFile
<1>2. i \in 1 .. Len(sects) + 1 /\ Lined(i - 1) /\ InPlace(i - 1)
  BY <1>1 DEF BinaryInv
<1>3. /\ Segment \in Nat \ {0} /\ program.decompress_offset \in Nat
  BY SizesAssumption, ObjectsAre DEF ImportInv, LinkerInv
<1>4. PICK d \in Nat : d = program.decompress_offset
  BY <1>3
<1>5. PICK c, x : c = sects /\ x = onekpaq
  OBVIOUS
<1>6. PICK v \in Nat, b \in Nat, f \in Nat : v = vm_shift /\ b = b_len /\ f = f_len /\ c_off = b + v
  BY <1>2 DEF Lined, InPlace
<1>7. Layered(x, c) /\ Stacked(c, i - 1, b) /\ Shifted(x, d, c, i - 1, v)
  BY <1>2, <1>4, <1>5, <1>6 DEF Lined
<1>8. PICK l \in Nat : l = Len(c) /\ DOMAIN c = 1 .. l /\ i \in 1 .. l /\ \A n \in 1 .. l : Raw(c[n])
  BY <1>1, <1>2, <1>4, <1>5, <1>7 DEF Layered
<1>9. PICK j, s : j \in 1 .. l /\ j = i /\ s = c[j] /\ s = Cur /\ s.length \in Nat
  BY <1>4, <1>5, <1>8 DEF Cur, Raw
<1>10. c_off \in Nat
  BY <1>6
<1>11. PICK n0 \in Nat : n0 = Nudge /\ (InFile(s) => n0 = 0)
  BY <1>3, <1>9, <1>10, NudgeIs
<1>12. PICK a \in Nat : a = AbsOffset /\ a = b + n0 /\ b <= a
  BY <1>6, <1>11 DEF AbsOffset
<1>13. NeedsShift <=> v = 0 /\ Packs(x, s)
  BY <1>4, <1>5, <1>6, <1>9 DEF NeedsShift, iscompressible, Packs
<1>14. \A n \in DOMAIN c : IsWanted(c[n]) => c[n].length > 0
  BY <1>8 DEF Raw, IsWanted, SectionType
<1>15. IsWanted(c[j]) /\ j \in DOMAIN c
  BY <1>1, <1>8, <1>9
<1>16. v = 0 /\ Packs(x, c[j]) => a <= d
  BY <1>1, <1>4, <1>5, <1>9, <1>12, <1>13
<1>17. PICK w \in Nat : w = ShiftHere /\ w = IF v = 0 /\ Packs(x, c[j]) THEN d - a ELSE v
  <2>1. ShiftHere = IF v = 0 /\ Packs(x, c[j]) THEN d - a ELSE v
    BY <1>4, <1>5, <1>6, <1>9, <1>12, <1>13 DEF ShiftHere
  <2>2. (IF v = 0 /\ Packs(x, c[j]) THEN d - a ELSE v) \in Nat
    BY <1>16
  <2>3. QED
    BY <2>1, <2>2
<1>18. Stacked(c, j - 1, b) /\ Shifted(x, d, c, j - 1, v)
  BY <1>7, <1>9
<1>19. Shifted(x, d, Put(c, j, a, w), j, w)
  BY <1>7, <1>12, <1>17, <1>14, <1>15, <1>16, <1>18, ShiftMore
<1>20. PICK p : p = Put(c, j, a, w) /\ sects' = p
  BY <1>1, <1>4, <1>5, <1>9, <1>12, <1>17
<1>21. Stacked(p, j, a + s.length)
  BY <1>7, <1>9, <1>12, <1>15, <1>18, <1>19, <1>20, StackMore
<1>22. Layered(x, p) /\ Len(p) = l
  <2>1. Layered(x, c) /\ j \in DOMAIN c
    BY <1>7, <1>15
  <2>2. Layered(x, Put(c, j, a, w)) /\ Len(Put(c, j, a, w)) = Len(c)
    BY <2>1, PutLayers
  <2>3. QED
    BY <1>8, <1>20, <2>2
<1>23. b_len' = a + s.length /\ c_off' = b_len' + w /\ b_len' \in Nat
  <2>1. b_len' = b + s.length + n0
    BY <1>1, <1>6, <1>9, <1>11
  <2>2. c_off' = b + v + (IF v = 0 /\ Packs(x, s) THEN w ELSE 0) + s.length + n0
    BY <1>1, <1>6, <1>9, <1>11, <1>13, <1>17
  <2>3. v + (IF v = 0 /\ Packs(x, s) THEN w ELSE 0) = w
    BY <1>9, <1>17, <1>19
  <2>4. QED
    BY <1>9, <1>12, <1>19, <2>1, <2>2, <2>3
<1>24. Lined(j)'
  <2>1. onekpaq' = x /\ program'.decompress_offset = d
    BY <1>1, <1>4, <1>5 DEF onekpaq
  <2>2. vm_shift' = w /\ j \in 0 .. Len(p)
    BY <1>1, <1>9, <1>17, <1>22
  <2>3. QED
    BY <1>19, <1>20, <1>21, <1>22, <1>23, <2>1, <2>2 DEF Lined
<1>25. InPlace(j)'
  <2>1. PICK e : Filed(c, linker_blocks, j - 1, e, b, f)
    BY <1>2, <1>4, <1>5, <1>6, <1>9 DEF InPlace
  <2>2. CASE InFile(s)
    <3>1. a = b /\ n0 = 0
      BY <1>11, <1>12, <2>2
    <3>2. PICK blocks : blocks = linker_blocks
      OBVIOUS
    <3>3. \A n \in DOMAIN blocks : blocks[n] \in Nat
      <4>1. blocks = [n \in 1 .. l + 2 |-> IF n <= e THEN c[n].length ELSE 0] /\ e \in 0 .. j - 1
        BY <1>8, <2>1, <3>2 DEF Filed
      <4>2. \A n \in 1 .. l + 2 : n <= e => n \in 1 .. l
        BY <1>9, <4>1
      <4>3. \A n \in 1 .. l : c[n].length \in Nat
        BY <1>8 DEF Raw
      <4>4. QED
        BY <4>1, <4>2, <4>3
    <3>4. linker_blocks' = WithBlock(blocks, j, s.length)
      <4>1. \A n \in DOMAIN blocks : blocks[n] + Nudge = blocks[n]
        BY <1>11, <3>1, <3>3
      <4>2. QED
        BY <1>1, <1>9, <2>2, <3>2, <4>1 DEF WithBlock
    <3>5. f_len' = f + s.length /\ f_len' \in Nat
      BY <1>1, <1>6, <1>9, <1>11, <2>2, <3>1
    <3>6. Filed(p, linker_blocks', j, j, a + s.length, f + s.length)
      <4>1. a \in Nat /\ w \in Nat /\ b \in Nat /\ f \in Nat /\ InFile(c[j]) /\ a = b
        BY <1>6, <1>9, <1>12, <1>17, <2>2, <3>1
      <4>2. Filed(c, blocks, j - 1, e, b, f)
        BY <2>1, <3>2
      <4>3. Layered(x, c) /\ j \in DOMAIN c /\ IsWanted(c[j])
        BY <1>7, <1>15
      <4>4. Filed(Put(c, j, a, w), WithBlock(blocks, j, c[j].length), j, j,
                  a + c[j].length, f + c[j].length)
        BY <4>1, <4>2, <4>3, FileMore
      <4>5. QED
        BY <1>9, <1>20, <3>4, <4>4, Zenon
    <3>7. QED
      BY <1>20, <1>23, <3>5, <3>6 DEF InPlace
  <2>3. CASE ~InFile(s)
    <3>1. linker_blocks' = linker_blocks /\ f_len' = f
      BY <1>1, <1>6, <1>9, <2>3
    <3>2. Filed(p, linker_blocks, j, e, a + s.length, f)
      BY <1>7, <1>9, <1>15, <1>19, <1>20, <2>1, <2>3, FileStays
    <3>3. QED
      BY <1>20, <1>23, <3>1, <3>2 DEF InPlace
  <2>4. QED
    BY <2>2, <2>3
<1>26. i' - 1 = j /\ i' \in 1 .. Len(sects') + 1
  BY <1>1, <1>9, <1>20, <1>22
<1>27. Lined(i - 1)' /\ InPlace(i - 1)'
  BY <1>24, <1>25, <1>26
<1>28. QED
  BY <1>1, <1>26, <1>27 DEF BinaryInv

-----------------------------------------------------------------------------
(* The blocks in front of the packers.                                     *)

\* Where the blocks begin in the file: e of them, and the next.
Begins(c, blocks, off, e, f) ==
  /\ e \in Nat /\ e <= Len(c) /\ off \in [1 .. e + 1 -> Nat]
  /\ off[1] = 0 /\ off[e + 1] = f
  /\ \A n \in 1 .. e : /\ off[n] = c[n].abs_offset /\ off[n + 1] = off[n] + blocks[n]
                       /\ blocks[n] = c[n].length /\ blocks[n] # 0
  /\ blocks \in Seq(Nat) /\ Len(blocks) = Len(c) + 2
  /\ \A n \in e + 1 .. Len(blocks) : blocks[n] = 0

LEMMA FileBegins ==
  ASSUME NEW x, NEW c, Layered(x, c), NEW k \in 0 .. Len(c), NEW b, NEW f \in Nat, NEW blocks, NEW e,
         Filed(c, blocks, k, e, b, f), \A n \in 1 .. k : IsWanted(c[n])
  PROVE  \E off : Begins(c, blocks, off, e, f)
<1>1. PICK l \in Nat : l = Len(c) /\ DOMAIN c = 1 .. l /\ k \in 0 .. l /\ \A n \in 1 .. l : Raw(c[n])
  BY DEF Layered
<1>2. /\ e \in 0 .. k
      /\ e = 0 => f = 0
      /\ e > 0 => c[1].abs_offset = 0 /\ End(c[e]) = f
      /\ \A n \in 1 .. e - 1 : c[n + 1].abs_offset = End(c[n])
      /\ blocks = [n \in 1 .. l + 2 |-> IF n <= e THEN c[n].length ELSE 0]
  BY <1>1 DEF Filed
<1>3. PICK g \in Nat : g = e /\ g <= k /\ g <= l
  <2>1. k \in Nat /\ k <= l
    BY <1>1
  <2>2. e \in 0 .. k
    BY <1>2
  <2>3. e \in Nat /\ e <= k
    BY <2>2, <2>1
  <2>4. e <= l
    BY <2>1, <2>3
  <2>5. QED
    BY <2>3, <2>4
<1>4. \A n \in 1 .. g : n \in 1 .. l /\ n \in 1 .. k /\ n \in 1 .. l + 2 /\ n <= e
  BY <1>1, <1>3
<1>5. \A n \in 1 .. g : /\ c[n].abs_offset \in Nat /\ c[n].length \in Nat /\ c[n].length # 0
                        /\ blocks[n] = c[n].length
  <2>1. SUFFICES ASSUME NEW n \in 1 .. g
                 PROVE  /\ c[n].abs_offset \in Nat /\ c[n].length \in Nat /\ c[n].length # 0
                        /\ blocks[n] = c[n].length
    OBVIOUS
  <2>2. Raw(c[n]) /\ IsWanted(c[n])
    BY <1>1, <1>4
  <2>3. c[n].length # 0
    BY <2>2 DEF IsWanted, SectionType
  <2>4. blocks[n] = c[n].length
    BY <1>2, <1>4
  <2>5. QED
    BY <2>2, <2>3, <2>4 DEF Raw
<1>6. PICK off : off = [n \in 1 .. g + 1 |-> IF n <= g THEN c[n].abs_offset ELSE f]
  OBVIOUS
<1>7. off \in [1 .. g + 1 -> Nat]
  BY <1>5, <1>6
<1>8. off[1] = 0
  <2>1. CASE g = 0
    BY <1>2, <1>3, <1>6, <2>1
  <2>2. CASE g # 0
    <3>1. c[1].abs_offset = 0 /\ 1 \in 1 .. g + 1 /\ 1 <= g
      BY <1>2, <1>3, <2>2
    <3>2. QED
      BY <1>6, <3>1
  <2>3. QED
    BY <2>1, <2>2
<1>9. off[g + 1] = f
  BY <1>6
<1>10. ASSUME NEW n \in 1 .. g PROVE off[n] = c[n].abs_offset /\ off[n + 1] = off[n] + blocks[n]
  <2>1. off[n] = c[n].abs_offset
    BY <1>6
  <2>2. c[n].abs_offset + blocks[n] = End(c[n])
    BY <1>5 DEF End
  <2>3. CASE n = g
    <3>1. End(c[n]) = f
      BY <1>2, <1>3, <2>3
    <3>2. QED
      BY <1>9, <2>1, <2>2, <2>3, <3>1
  <2>4. CASE n # g
    <3>1. n \in 1 .. g - 1 /\ n + 1 \in 1 .. g + 1 /\ n + 1 <= g
      BY <2>4
    <3>2. c[n + 1].abs_offset = End(c[n])
      BY <1>2, <1>3, <3>1
    <3>3. off[n + 1] = c[n + 1].abs_offset
      BY <1>6, <3>1
    <3>4. QED
      BY <2>1, <2>2, <3>2, <3>3
  <2>5. QED
    BY <2>3, <2>4
<1>11. blocks \in Seq(Nat) /\ Len(blocks) = l + 2
  <2>1. PICK z \in Nat : z = l + 2
    BY <1>1
  <2>2. blocks = [n \in 1 .. z |-> IF n <= e THEN c[n].length ELSE 0]
    BY <1>2, <2>1
  <2>3. \A n \in 1 .. z : (IF n <= e THEN c[n].length ELSE 0) \in Nat
    <3>1. \A n \in 1 .. z : n <= e => n \in 1 .. g
      BY <1>3
    <3>2. QED
      BY <1>5, <3>1
  <2>4. blocks \in Seq(Nat) /\ Len(blocks) = z
    BY <2>2, <2>3
  <2>5. QED
    BY <2>1, <2>4
<1>12. \A n \in g + 1 .. l + 2 : blocks[n] = 0
  <2>1. \A n \in g + 1 .. l + 2 : n \in 1 .. l + 2 /\ ~(n <= e)
    BY <1>3
  <2>2. QED
    BY <1>2, <2>1
<1>13. Begins(c, blocks, off, g, f)
  BY <1>1, <1>3, <1>5, <1>7, <1>8, <1>9, <1>10, <1>11, <1>12 DEF Begins
<1>14. QED
  BY <1>3, <1>13

LEMMA BeginsApart ==
  ASSUME NEW c, NEW blocks, NEW off, NEW e, NEW f, Begins(c, blocks, off, e, f),
         NEW m \in 1 .. e + 1, NEW n \in 1 .. e + 1, m < n
  PROVE  off[m] < off[n]
<1>1. /\ e \in Nat /\ \A y \in 1 .. e + 1 : off[y] \in Nat
      /\ \A y \in 1 .. e : off[y + 1] = off[y] + blocks[y] /\ blocks[y] # 0
      /\ blocks \in Seq(Nat) /\ e <= Len(blocks)
  <2>1. e <= Len(c) /\ Len(blocks) = Len(c) + 2 /\ blocks \in Seq(Nat) /\ e \in Nat
    BY DEF Begins
  <2>2. Len(blocks) \in Nat
    BY <2>1
  <2>3. Len(c) = Len(c) => e <= Len(blocks)
    BY <2>1, <2>2
  <2>4. QED
    BY <2>1, <2>3 DEF Begins
<1>2. \A y \in 1 .. e : blocks[y] \in Nat
  BY <1>1
<1>3. \A y \in 1 .. e : off[y] < off[y + 1]
  <2>1. SUFFICES ASSUME NEW y \in 1 .. e PROVE off[y] < off[y + 1]
    OBVIOUS
  <2>2. y \in 1 .. e + 1
    BY <1>1
  <2>3. PICK u \in Nat, w \in Nat : u = off[y] /\ w = blocks[y] /\ w # 0
    BY <1>1, <1>2, <2>2
  <2>4. off[y + 1] = u + w
    BY <1>1, <2>3
  <2>5. QED
    BY <2>3, <2>4
<1> DEFINE N == {y \in Nat : m + 1 + y <= e + 1 => off[m] < off[m + 1 + y]}
<1>4. 0 \in N
  BY <1>1, <1>3
<1>5. ASSUME NEW y \in N PROVE y + 1 \in N
  <2> SUFFICES ASSUME m + 1 + (y + 1) <= e + 1 PROVE off[m] < off[m + 1 + (y + 1)]
    OBVIOUS
  <2>1. PICK t \in 1 .. e : t = m + 1 + y /\ t + 1 = m + 1 + (y + 1)
    BY <1>1
  <2>2. off[m] < off[t]
    BY <1>1, <2>1
  <2>3. off[t] < off[t + 1] /\ off[t] \in Nat /\ off[t + 1] \in Nat /\ off[m] \in Nat
    BY <1>1, <1>3
  <2>4. QED
    BY <2>1, <2>2, <2>3
<1> HIDE DEF N
<1>6. N = Nat
  <2>1. N \in SUBSET Nat
    BY DEF N
  <2>2. QED
    BY <1>4, <1>5, <2>1, SetInduction
<1>7. PICK y \in Nat : m + 1 + y = n
  <2>1. n - m - 1 \in Nat
    BY <1>1
  <2>2. QED
    BY <1>1, <2>1
<1>8. off[m] < off[m + 1 + y]
  <2>1. y \in N
    BY <1>6
  <2>2. m + 1 + y <= e + 1
    BY <1>1, <1>7
  <2>3. QED
    BY <2>1, <2>2 DEF N
<1>9. QED
  BY <1>7, <1>8

LEMMA SameLeft ==
  ASSUME NEW u \in Nat, NEW w \in Nat, NEW y \in Nat, u - w = y - w
  PROVE  ~(u < y)
OBVIOUS

\* What the blocks from a to z come to.
LEMMA BeginsSum ==
  ASSUME NEW c, NEW blocks, NEW off, NEW e, NEW f, Begins(c, blocks, off, e, f),
         NEW a \in 1 .. e + 1, NEW z \in a - 1 .. e
  PROVE  SumOf(SubSeq(blocks, a, z)) = off[z + 1] - off[a]
<1>1. blocks \in Seq(Nat) /\ e \in Nat /\ off \in [1 .. e + 1 -> Nat]
  BY DEF Begins
<1>2. \A n \in 1 .. e : off[n + 1] = off[n] + blocks[n]
  BY DEF Begins
<1>3. e \in 0 .. Len(blocks)
  <2>1. e <= Len(c) /\ Len(blocks) = Len(c) + 2
    BY DEF Begins
  <2>2. Len(blocks) \in Nat
    BY <1>1
  <2>3. QED
    BY <1>1, <2>1, <2>2
<1>4. QED
  BY <1>1, <1>2, <1>3, StackTotal

\* oneKpaq is handed the blocks from q on: all of the file's.
Lengths(c, q, e) == [n \in 1 .. e - q + 1 |-> c[q + n - 1].length]

HandsOver(c, behind, takes, q, e) == takes # {} /\ SubSeq(behind, 1, Min(takes)) = Lengths(c, q, e)

LEMMA BlocksHanded ==
  ASSUME NEW c, NEW blocks, NEW off, NEW e, NEW f, Begins(c, blocks, off, e, f), NEW q \in 1 .. e
  PROVE  LET behind == SubSeq(blocks, q, Len(blocks))
         IN  HandsOver(c, behind, TakesBlocks(behind, f - off[q]), q, e)
<1>1. /\ blocks \in Seq(Nat) /\ e \in Nat /\ off \in [1 .. e + 1 -> Nat] /\ off[e + 1] = f
      /\ \A n \in 1 .. e : blocks[n] = c[n].length
  BY DEF Begins
<1>2. PICK l \in Nat : l = Len(blocks) /\ e <= l /\ q \in 1 .. l
  <2>1. e <= Len(c) /\ Len(blocks) = Len(c) + 2
    BY DEF Begins
  <2>2. Len(blocks) \in Nat
    BY <1>1
  <2>3. QED
    BY <1>1, <2>1, <2>2
<1>3. PICK r \in Nat : r = e - q + 1 /\ r >= 1 /\ q + r = e + 1
  BY <1>1
<1>4. PICK h \in Nat : h = l - q + 1 /\ r <= h
  <2>1. q \in Nat /\ q <= l /\ e \in Nat /\ e <= l
    BY <1>1, <1>2
  <2>2. l - q + 1 \in Nat /\ r <= l - q + 1
    BY <1>3, <2>1
  <2>3. QED
    BY <2>2
<1>5. PICK s \in Seq(Nat) : s = SubSeq(blocks, q, Len(blocks)) /\ Len(s) = h
  <2>1. \A n \in q .. l : blocks[n] \in Nat
    BY <1>1, <1>2
  <2>2. q \in Int /\ l \in Int /\ q <= l
    BY <1>2
  <2>3. SubSeq(blocks, q, l) \in Seq(Nat) /\ Len(SubSeq(blocks, q, l)) = l - q + 1
    BY <2>1, <2>2, SubSeqProperties
  <2>4. QED
    BY <1>2, <1>4, <2>3
<1>6. \A n \in 1 .. h : SubSeq(s, 1, n) = SubSeq(blocks, q, q + n - 1)
  <2>1. SUFFICES ASSUME NEW n \in 1 .. h PROVE SubSeq(s, 1, n) = SubSeq(blocks, q, q + n - 1)
    OBVIOUS
  <2>2. 1 \in 1 .. l - q + 1 /\ n \in 1 .. l - q + 1 /\ l \in 1 .. Len(blocks) /\ q \in 1 .. Len(blocks)
    BY <1>2, <1>4
  <2>3. SubSeq(SubSeq(blocks, q, l), 1, n) = SubSeq(blocks, q + 1 - 1, q + n - 1)
    BY <1>1, <2>2, SubSeqOfSubSeq
  <2>4. q + 1 - 1 = q
    BY <1>2
  <2>5. QED
    BY <1>2, <1>5, <2>3, <2>4
<1>7. \A n \in 1 .. r : SumOf(SubSeq(s, 1, n)) = off[q + n] - off[q]
  <2>1. SUFFICES ASSUME NEW n \in 1 .. r PROVE SumOf(SubSeq(s, 1, n)) = off[q + n] - off[q]
    OBVIOUS
  <2>2. PICK z \in q - 1 .. e : z = q + n - 1 /\ z + 1 = q + n
    BY <1>1, <1>2, <1>3
  <2>3. q \in 1 .. e + 1 /\ n \in 1 .. h
    <3>1. q \in 1 .. e + 1
      BY <1>1
    <3>2. n \in 1 .. h
      BY <1>3, <1>4
    <3>3. QED
      BY <3>1, <3>2
  <2>4. SumOf(SubSeq(blocks, q, z)) = off[z + 1] - off[q]
    BY <2>2, <2>3, BeginsSum
  <2>5. QED
    BY <1>6, <2>2, <2>3, <2>4
<1>8. PICK T : T = TakesBlocks(SubSeq(blocks, q, Len(blocks)), f - off[q])
  OBVIOUS
<1>9. T = {n \in 0 .. h : SumOf(SubSeq(s, 1, n)) = f - off[q]}
  BY <1>5, <1>8 DEF TakesBlocks
<1>10. r \in T
  <2>1. r \in 1 .. r /\ r \in 0 .. h
    BY <1>3, <1>4
  <2>2. SumOf(SubSeq(s, 1, r)) = off[e + 1] - off[q]
    BY <1>3, <1>7, <2>1
  <2>3. QED
    BY <1>1, <1>9, <2>1, <2>2
<1>11. ASSUME NEW n \in T PROVE r <= n
  <2>1. SUFFICES ASSUME n < r PROVE FALSE
    BY <1>3, <1>9
  <2>2. n \in 0 .. h /\ SumOf(SubSeq(s, 1, n)) = f - off[q]
    BY <1>9
  <2>3. q \in 1 .. e + 1 /\ e + 1 \in 1 .. e + 1 /\ q < e + 1
    BY <1>1, <1>2, <1>3
  <2>4. off[q] < f
    BY <1>1, <2>3, BeginsApart
  <2>5. off[q] \in Nat /\ f \in Nat
    BY <1>1, <2>3
  <2>6. CASE n = 0
    <3>1. SubSeq(s, 1, 0) = <<>>
      BY SubSeqEmpty
    <3>2. SumOf(<<>>) = 0
      BY SumIsTotal, TotalEmpty
    <3>3. SumOf(SubSeq(s, 1, n)) = 0
      BY <2>6, <3>1, <3>2
    <3>4. f - off[q] = 0
      BY <2>2, <3>3
    <3>5. QED
      BY <2>4, <2>5, <3>4
  <2>7. CASE n # 0
    <3>1. PICK t \in 1 .. e + 1 : t = q + n /\ t < e + 1 /\ n \in 1 .. r
      BY <1>2, <1>3, <2>1, <2>2, <2>7
    <3>2. off[t] < f
      BY <1>1, <2>3, <3>1, BeginsApart
    <3>3. off[t] \in Nat
      BY <1>1
    <3>4. off[t] - off[q] = f - off[q]
      BY <1>7, <2>2, <3>1
    <3>5. PICK u \in Nat, w \in Nat, y \in Nat : u = off[t] /\ w = off[q] /\ y = f
      BY <2>5, <3>3
    <3>6. u < y /\ u - w = y - w
      BY <3>2, <3>4, <3>5
    <3>7. QED
      BY <3>5, <3>6, SameLeft
  <2>8. QED
    BY <2>6, <2>7
<1>12. T # {} /\ Min(T) = r
  <2>1. T \in SUBSET Nat /\ T # {}
    BY <1>9, <1>10
  <2>2. Min(T) \in T /\ Min(T) <= r
    BY <1>10, <2>1, MinIs
  <2>3. PICK n \in T : n = Min(T) /\ n <= r
    BY <2>2
  <2>4. n \in Nat /\ r <= n
    BY <1>11, <2>1
  <2>5. QED
    BY <2>1, <2>3, <2>4
<1>13. SubSeq(s, 1, r) = [n \in 1 .. r |-> c[q + n - 1].length]
  <2>1. r \in 1 .. h /\ q + r - 1 = e
    BY <1>1, <1>2, <1>3, <1>4
  <2>2. SubSeq(s, 1, r) = SubSeq(blocks, q, e)
    BY <1>6, <2>1
  <2>3. SubSeq(blocks, q, e) = [n \in 1 .. r |-> blocks[q + n - 1]]
    <3>1. \A n \in q .. e : blocks[n] \in Nat
      BY <1>1, <1>2
    <3>2. q \in Int /\ e \in Int /\ q <= e
      BY <1>1, <1>2
    <3>3. PICK y \in Seq(Nat) : y = SubSeq(blocks, q, e)
      BY <3>1, <3>2, SubSeqProperties
    <3>4. Len(y) = e - q + 1 /\ \A n \in 1 .. e - q + 1 : y[n] = blocks[q + n - 1]
      BY <3>1, <3>2, <3>3, SubSeqProperties
    <3>5. y = [n \in 1 .. r |-> y[n]] /\ \A n \in 1 .. r : y[n] = blocks[q + n - 1]
      BY <1>3, <3>4
    <3>6. y = [n \in 1 .. r |-> blocks[q + n - 1]]
      BY <3>5
    <3>7. QED
      BY <3>3, <3>6
  <2>4. \A n \in 1 .. r : q + n - 1 \in 1 .. e
    BY <1>1, <1>2, <1>3
  <2>5. \A n \in 1 .. r : blocks[q + n - 1] = c[q + n - 1].length
    BY <1>1, <2>4
  <2>6. QED
    BY <1>3, <2>2, <2>3, <2>5
<1>14. Lengths(c, q, e) = [n \in 1 .. r |-> c[q + n - 1].length]
  BY <1>3 DEF Lengths
<1>15. QED
  BY <1>5, <1>8, <1>12, <1>13, <1>14 DEF HandsOver

-----------------------------------------------------------------------------
(* All sections have their places.                                         *)

LEMMA SteadyWhole ==
  ASSUME program' = program, sects' = sects, b_len' = b_len, vm_shift' = vm_shift, c_off' = c_off,
         heap' = heap, NEW k
  PROVE  Whole(k)' <=> Whole(k)
<1>1. onekpaq' = onekpaq
  BY DEF onekpaq
<1>2. Lined(k)' <=> Lined(k)
  BY <1>1 DEF Lined
<1>3. QED
  BY <1>2 DEF Whole

LEMMA SteadyFile ==
  ASSUME sects' = sects, b_len' = b_len, f_len' = f_len, linker_blocks' = linker_blocks, NEW k
  PROVE  InPlace(k)' <=> InPlace(k)
BY DEF InPlace

LEMMA PlacedStep ==
  ASSUME ImportInv, BinaryInv, Placed
  PROVE  BinaryInv'
<1>1. /\ bphase = "place" /\ bphase' = "relocate" /\ ~Wanted
      /\ heap' = Doubled(Segment, b_len + vm_shift + HeapSize)
      /\ program' = program /\ sects' = sects /\ b_len' = b_len /\ vm_shift' = vm_shift
      /\ c_off' = c_off /\ f_len' = f_len /\ linker_blocks' = linker_blocks
  BY DEF Placed, Rest, ivars
<1>2. PICK k : k = i - 1 /\ i \in 1 .. Len(sects) + 1 /\ Lined(k) /\ InPlace(k)
  BY <1>1 DEF BinaryInv
<1>3. PICK l \in Nat : l = Len(sects) /\ DOMAIN sects = 1 .. l /\ k \in 0 .. l /\ i = k + 1
  <2>1. Len(sects) \in Nat /\ DOMAIN sects = 1 .. Len(sects)
    BY <1>2 DEF Lined, Layered
  <2>2. i \in 1 .. Len(sects) + 1 /\ k = i - 1
    BY <1>2
  <2>3. k \in 0 .. Len(sects) /\ i = k + 1
    BY <2>1, <2>2
  <2>4. QED
    BY <2>1, <2>3
<1>4. \A m, n \in 1 .. l : m < n => Layers(onekpaq, sects[m], sects[n])
  BY <1>2, <1>3 DEF Lined, Layered
<1>5. i \in 1 .. l => ~IsWanted(sects[i])
  BY <1>1, <1>3 DEF Wanted, Cur, IsWanted
<1>6. ASSUME NEW n \in DOMAIN sects PROVE IsWanted(sects[n]) <=> n <= k
  <2>1. CASE n <= k
    <3>1. n \in 1 .. k
      BY <1>3, <2>1
    <3>2. IsWanted(sects[n])
      BY <1>2, <3>1 DEF Lined, Stacked
    <3>3. QED
      BY <2>1, <3>2
  <2>2. CASE n = i
    <3>1. ~(n <= k) /\ n \in 1 .. l
      BY <1>3, <2>2
    <3>2. QED
      BY <1>5, <2>2, <3>1
  <2>3. CASE n > i
    <3>1. ~(n <= k) /\ n \in 1 .. l /\ i \in 1 .. l
      BY <1>3, <2>3
    <3>2. IsWanted(sects[n]) => IsWanted(sects[i])
      BY <1>4, <2>3, <3>1 DEF Layers
    <3>3. QED
      BY <1>5, <3>1, <3>2
  <2>4. n <= k \/ n = i \/ n > i
    BY <1>3
  <2>5. QED
    BY <2>1, <2>2, <2>3, <2>4
<1>7. heap' \in Nat /\ b_len + vm_shift + program.heap_size <= heap'
  <2>1. Segment \in Nat \ {0} /\ program.heap_size \in Nat
    BY SizesAssumption, ObjectsAre DEF ImportInv, LinkerInv
  <2>2. PICK h \in Nat, g \in Nat : h = HeapSize /\ g = program.heap_size /\ g <= h
    BY <2>1 DEF HeapSize
  <2>3. PICK b \in Nat, v \in Nat : b = b_len /\ v = vm_shift
    BY <1>2 DEF Lined
  <2>4. PICK n \in Nat : n = b + v + h
    BY <2>2, <2>3
  <2>5. Doubled(Segment, n) \in Nat /\ Doubled(Segment, n) >= n
    BY <2>1, DoubledIs
  <2>6. heap' = Doubled(Segment, n)
    BY <1>1, <2>2, <2>3, <2>4
  <2>7. b + v + g <= n
    BY <2>2, <2>3, <2>4
  <2>8. PICK y \in Nat : y = heap' /\ y >= n
    BY <2>5, <2>6
  <2>9. b + v + g <= y
    BY <2>7, <2>8
  <2>10. QED
    BY <2>2, <2>3, <2>8, <2>9
<1>8. Lined(k)'
  <2>1. onekpaq' = onekpaq
    BY <1>1 DEF onekpaq
  <2>2. QED
    BY <1>1, <1>2, <2>1 DEF Lined
<1>9. Whole(k)'
  <2>1. \A n \in DOMAIN sects' : IsWanted(sects'[n]) <=> n <= k
    BY <1>1, <1>6
  <2>2. heap' \in Nat /\ b_len' + vm_shift' + program'.heap_size <= heap'
    BY <1>1, <1>7
  <2>3. QED
    BY <1>8, <2>1, <2>2 DEF Whole
<1>10. InPlace(k)'
  BY <1>1, <1>2, SteadyFile
<1>11. QED
  BY <1>1, <1>9, <1>10 DEF BinaryInv

\* The first section that is packed is one of the file, and not the last section.
LEMMA FirstIs ==
  ASSUME NEW k, Whole(k), onekpaq
  PROVE  \E q \in DOMAIN sects :
           /\ FirstOf(onekpaq, sects, q) /\ FirstPacked = q
           /\ q + 1 <= Len(sects) /\ q \in 1 .. k /\ InFile(sects[q])
<1>1. /\ Layered(onekpaq, sects)
      /\ \A n \in DOMAIN sects : IsWanted(sects[n]) <=> n <= k
  BY DEF Whole, Lined
<1>2. PICK l \in Nat : l = Len(sects) /\ DOMAIN sects = 1 .. l /\ k \in 0 .. l
  BY DEF Whole, Lined, Layered
<1>3. PICK m \in DOMAIN sects, n \in DOMAIN sects :
        /\ m < n /\ IsWanted(sects[n]) /\ InFile(sects[m])
        /\ Packs(onekpaq, sects[m]) /\ Packs(onekpaq, sects[n])
  BY <1>1 DEF Layered
<1>4. PICK P : P = {y \in DOMAIN sects : iscompressible(sects[y])}
  OBVIOUS
<1>5. P = {y \in 1 .. l : Packs(onekpaq, sects[y])}
  BY <1>2, <1>4 DEF iscompressible, Packs
<1>6. m \in P /\ P \in SUBSET Nat
  <2>1. m \in 1 .. l /\ Packs(onekpaq, sects[m])
    BY <1>2, <1>3
  <2>2. m \in P
    BY <1>5, <2>1, Zenon
  <2>3. \A y \in P : y \in 1 .. l
    BY <1>5, Zenon
  <2>4. QED
    BY <2>2, <2>3
<1>7. PICK q : q = Min(P) /\ q \in P /\ \A y \in P : q <= y
  BY <1>6, MinIs
<1>8. FirstPacked = q
  BY <1>4, <1>7 DEF FirstPacked
<1>9. q \in 1 .. l /\ FirstOf(onekpaq, sects, q)
  <2>1. q \in 1 .. l /\ Packs(onekpaq, sects[q])
    BY <1>5, <1>7
  <2>2. \A y \in 1 .. q - 1 : ~Packs(onekpaq, sects[y])
    <3>1. SUFFICES ASSUME NEW y \in 1 .. q - 1, Packs(onekpaq, sects[y]) PROVE FALSE
      OBVIOUS
    <3>2. y \in 1 .. l
      BY <1>2, <2>1
    <3>3. y \in P
      BY <1>5, <3>1, <3>2, Zenon
    <3>4. q <= y
      BY <1>7, <3>3
    <3>5. QED
      BY <2>1, <3>4
  <2>3. QED
    BY <2>1, <2>2 DEF FirstOf
<1>10. q <= m
  BY <1>6, <1>7
<1>11. q < n /\ n \in 1 .. l /\ m \in 1 .. l /\ n <= k
  BY <1>1, <1>2, <1>3, <1>9, <1>10
<1>12. InFile(sects[q])
  <2>1. CASE q = m
    BY <1>3, <2>1
  <2>2. CASE q # m
    <3>1. q < m /\ m < n
      BY <1>3, <1>9, <1>10, <1>11, <2>2
    <3>2. IsWanted(sects[m])
      BY <1>1, <1>2, <1>3, <1>11 DEF Layered, Layers
    <3>3. QED
      BY <1>1, <1>2, <1>3, <1>9, <1>11, <3>1, <3>2 DEF Layered, Layers
  <2>3. QED
    BY <2>1, <2>2
<1>13. q + 1 <= l /\ q \in 1 .. k
  BY <1>2, <1>9, <1>11
<1>14. QED
  BY <1>2, <1>8, <1>9, <1>12, <1>13

\* Where everything is when the packers start.
LEMMA FileIs ==
  ASSUME NEW k, Whole(k), InPlace(k)
  PROVE  \E e, off : /\ Begins(sects, linker_blocks, off, e, f_len) /\ f_len \in Nat
                     /\ e \in 0 .. k /\ k \in 0 .. Len(sects)
                     /\ \A n \in 1 .. k : InFile(sects[n]) <=> n <= e
<1>1. /\ Layered(onekpaq, sects) /\ k \in 0 .. Len(sects) /\ Stacked(sects, k, b_len)
      /\ f_len \in Nat
  BY DEF Whole, Lined, InPlace
<1>2. PICK e : Filed(sects, linker_blocks, k, e, b_len, f_len)
  BY DEF InPlace
<1>3. \A n \in 1 .. k : IsWanted(sects[n])
  BY <1>1 DEF Stacked
<1>4. PICK f \in Nat : f = f_len
  BY <1>1
<1>5. PICK off : Begins(sects, linker_blocks, off, e, f_len)
  BY <1>1, <1>2, <1>3, <1>4, FileBegins
<1>6. e \in 0 .. k /\ \A n \in 1 .. k : InFile(sects[n]) <=> n <= e
  BY <1>2 DEF Filed
<1>7. QED
  BY <1>1, <1>5, <1>6

-----------------------------------------------------------------------------
(* What the packers make of the blocks.                                    *)

LEMMA HandedRight ==
  ASSUME NEW x, NEW c, NEW blocks, NEW off, NEW e, NEW f \in Nat, Begins(c, blocks, off, e, f),
         NEW q \in 1 .. e, FirstOf(x, c, q), DOMAIN c = 1 .. Len(c),
         \A n \in DOMAIN c : IsWanted(c[n]) /\ InFile(c[n]) => n <= e,
         NEW p, p.start = off[q], p.rf_len = f - off[q],
         p.blocks = Lengths(c, q, e)
  PROVE  PackedRight(x, c, p)
<1>1. /\ e \in Nat /\ e <= Len(c) /\ off \in [1 .. e + 1 -> Nat] /\ off[e + 1] = f
      /\ \A n \in 1 .. e : /\ off[n] = c[n].abs_offset /\ off[n + 1] = off[n] + blocks[n]
                           /\ blocks[n] = c[n].length
      /\ blocks \in Seq(Nat) /\ Len(blocks) = Len(c) + 2
  BY DEF Begins
<1>2. \A m, n \in 1 .. e + 1 : m < n => off[m] < off[n]
  BY BeginsApart
<1>3. PICK l \in Nat : l = Len(c) /\ e <= l
  <2>1. Len(c) \in Nat
    BY <1>1
  <2>2. QED
    BY <1>1, <2>1
<1>4. ASSUME NEW r \in DOMAIN c, FirstOf(x, c, r) PROVE r = q
  <2>1. r \in 1 .. l /\ q \in 1 .. l
    BY <1>1, <1>3
  <2>2. ~(r < q)
    <3>1. SUFFICES ASSUME r < q PROVE FALSE
      OBVIOUS
    <3>2. r \in 1 .. q - 1
      BY <2>1, <3>1
    <3>3. QED
      BY <1>4, <3>2 DEF FirstOf
  <2>3. ~(q < r)
    <3>1. SUFFICES ASSUME q < r PROVE FALSE
      OBVIOUS
    <3>2. q \in 1 .. r - 1
      BY <2>1, <3>1
    <3>3. QED
      BY <1>4, <3>2 DEF FirstOf
  <2>4. QED
    BY <2>1, <2>2, <2>3
<1>5. p.start = c[q].abs_offset
  BY <1>1
<1>6. p.blocks = [n \in DOMAIN p.blocks |-> c[q + n - 1].length]
  BY DEF Lengths
<1>7. ASSUME NEW n \in DOMAIN c, IsWanted(c[n]), Packs(x, c[n]), InFile(c[n])
      PROVE  p.start <= c[n].abs_offset /\ End(c[n]) <= p.start + p.rf_len
  <2>1. n \in 1 .. e
    BY <1>1, <1>3, <1>7
  <2>2. q <= n
    <3>1. SUFFICES ASSUME n < q PROVE FALSE
      BY <2>1, <1>1
    <3>2. n \in 1 .. q - 1
      BY <2>1, <3>1, <1>1
    <3>3. QED
      BY <1>7, <3>2 DEF FirstOf
  <2>3. PICK s \in 1 .. e + 1, t \in 1 .. e + 1, z \in 1 .. e + 1 :
          s = q /\ t = n /\ z = n + 1
    <3>1. e \in Nat
      BY <1>1
    <3>2. q \in 1 .. e + 1 /\ n \in 1 .. e + 1 /\ n + 1 \in 1 .. e + 1
      BY <2>1, <3>1
    <3>3. QED
      BY <3>2
  <2>4. PICK u \in Nat, v \in Nat, w \in Nat :
          u = off[s] /\ v = off[t] /\ w = off[z]
    BY <1>1
  <2>5. u <= v
    <3>1. CASE s = t
      BY <2>4, <3>1
    <3>2. CASE s < t
      BY <1>2, <2>4, <3>2
    <3>3. QED
      BY <1>1, <2>2, <2>3, <3>1, <3>2
  <2>6. w <= f
    <3>1. CASE z = e + 1
      BY <1>1, <2>4, <3>1
    <3>2. CASE z < e + 1
      <4>1. e + 1 \in 1 .. e + 1
        BY <1>1
      <4>2. off[z] < off[e + 1]
        BY <1>2, <3>2, <4>1
      <4>3. QED
        BY <1>1, <2>4, <4>2
    <3>3. e \in Nat
      BY <1>1
    <3>4. z = e + 1 \/ z < e + 1
      BY <2>3, <3>3
    <3>5. QED
      BY <3>1, <3>2, <3>4
  <2>7. c[n].abs_offset = v /\ End(c[n]) = w
    BY <1>1, <2>1, <2>3, <2>4 DEF End
  <2>8. p.start = u /\ p.rf_len = f - u
    BY <2>3, <2>4
  <2>9. p.start + p.rf_len = f
    BY <2>4, <2>8
  <2>10. QED
    BY <2>5, <2>6, <2>7, <2>8, <2>9
<1>8. QED
  BY <1>4, <1>5, <1>6, <1>7 DEF PackedRight

\* In place of what is packed, two blocks.
LEMMA PackedEnds ==
  ASSUME NEW c, NEW blocks, NEW off, NEW e, NEW f, Begins(c, blocks, off, e, f),
         NEW q \in 1 .. e, q + 1 <= Len(c), NEW h \in Nat \ {0}, NEW d \in Nat \ {0}
  PROVE  Ends([n \in DOMAIN blocks |-> CASE n = q     -> h
                                         [] n = q + 1 -> d
                                         [] n = q + 2 -> 0
                                         [] OTHER     -> blocks[n]], off[q] + h + d)
<1>1. /\ e \in Nat /\ off \in [1 .. e + 1 -> Nat] /\ off[1] = 0
      /\ \A n \in 1 .. e : off[n + 1] = off[n] + blocks[n] /\ blocks[n] # 0
      /\ blocks \in Seq(Nat) /\ Len(blocks) = Len(c) + 2
  BY DEF Begins
<1>2. PICK l \in Nat : l = Len(blocks) /\ q + 3 <= l /\ DOMAIN blocks = 1 .. l
                       /\ \A n \in 1 .. l : blocks[n] \in Nat
  <2>1. Len(c) \in Int
    BY <1>1
  <2>2. PICK a \in Nat, z \in Int : a = Len(blocks) /\ z = Len(c) /\ a = z + 2
    BY <1>1, <2>1
  <2>3. q + 3 <= a
    BY <1>1, <2>2
  <2>4. blocks \in Seq(Nat)
    BY <1>1
  <2>5. DOMAIN blocks = 1 .. Len(blocks) /\ \A n \in 1 .. Len(blocks) : blocks[n] \in Nat
    BY <2>4
  <2>6. QED
    BY <2>2, <2>3, <2>5
<1>3. PICK b : b = [n \in DOMAIN blocks |-> CASE n = q     -> h
                                              [] n = q + 1 -> d
                                              [] n = q + 2 -> 0
                                              [] OTHER     -> blocks[n]]
  OBVIOUS
<1>4. q \in Nat /\ q >= 1
  BY <1>1
<1>5. /\ b[q] = h /\ b[q + 1] = d /\ b[q + 2] = 0
      /\ \A n \in 1 .. q - 1 : b[n] = blocks[n]
  <2>1. q \in 1 .. l /\ q + 1 \in 1 .. l /\ q + 2 \in 1 .. l
    BY <1>2, <1>4
  <2>2. \A n \in 1 .. q - 1 : n \in 1 .. l /\ n # q /\ n # q + 1 /\ n # q + 2
    BY <1>2, <1>4
  <2>3. b[q] = h
    BY <1>2, <1>3, <2>1
  <2>4. b[q + 1] = d
    BY <1>2, <1>3, <1>4, <2>1
  <2>5. b[q + 2] = 0
    BY <1>2, <1>3, <1>4, <2>1
  <2>6. \A n \in 1 .. q - 1 : b[n] = blocks[n]
    BY <1>2, <1>3, <2>2
  <2>7. QED
    BY <2>3, <2>4, <2>5, <2>6
<1>6. b \in Seq(Nat) /\ Len(b) = l
  <2>1. \A n \in 1 .. l : b[n] \in Nat
    BY <1>2, <1>3
  <2>2. b = [n \in 1 .. l |-> b[n]]
    BY <1>2, <1>3
  <2>3. QED
    BY <2>1, <2>2
<1>7. PICK o : o = [n \in 1 .. q + 2 |-> CASE n = q + 1 -> off[q] + h
                                           [] n = q + 2 -> off[q] + h + d
                                           [] OTHER     -> off[n]]
  OBVIOUS
<1>8. \A n \in 1 .. q : n \in 1 .. e /\ n \in 1 .. e + 1 /\ n \in 1 .. q + 2 /\ n # q + 1 /\ n # q + 2
  BY <1>1
<1>9. \A n \in 1 .. q : o[n] = off[n] /\ off[n] \in Nat
  BY <1>1, <1>7, <1>8
<1>10. o[q + 1] = off[q] + h /\ o[q + 2] = off[q] + h + d /\ q \in 1 .. q
  BY <1>4, <1>7
<1>11. o \in [1 .. q + 2 -> Nat]
  <2>1. \A n \in 1 .. q + 2 : o[n] \in Nat
    <3>1. SUFFICES ASSUME NEW n \in 1 .. q + 2 PROVE o[n] \in Nat
      OBVIOUS
    <3>2. CASE n \in 1 .. q
      BY <1>9, <3>2
    <3>3. CASE n \notin 1 .. q
      <4>1. n = q + 1 \/ n = q + 2
        BY <1>4, <3>3
      <4>2. off[q] \in Nat
        BY <1>9, <1>10
      <4>3. QED
        BY <1>10, <4>1, <4>2
    <3>4. QED
      BY <3>2, <3>3
  <2>2. QED
    BY <1>7, <2>1
<1>12. \A n \in 1 .. q + 1 : o[n + 1] = o[n] + b[n]
  <2>1. SUFFICES ASSUME NEW n \in 1 .. q + 1 PROVE o[n + 1] = o[n] + b[n]
    OBVIOUS
  <2>2. CASE n \in 1 .. q - 1
    <3>1. n + 1 \in 1 .. q /\ n \in 1 .. q
      BY <1>4, <2>2
    <3>2. o[n + 1] = off[n + 1] /\ o[n] = off[n]
      BY <1>9, <3>1
    <3>3. off[n + 1] = off[n] + blocks[n]
      BY <1>1, <1>8, <3>1
    <3>4. QED
      BY <1>5, <2>2, <3>2, <3>3
  <2>3. CASE n = q
    BY <1>5, <1>9, <1>10, <2>3
  <2>4. CASE n = q + 1
    <3>1. n + 1 = q + 2
      BY <1>4, <2>4
    <3>2. QED
      BY <1>5, <1>10, <2>4, <3>1
  <2>5. QED
    BY <1>4, <2>2, <2>3, <2>4
<1>13. SumOf(SubSeq(b, 1, q + 1)) = off[q] + h + d
  <2>1. PICK z \in Nat : z = q + 1
    BY <1>4
  <2>2. z \in 0 .. Len(b) /\ o \in [1 .. z + 1 -> Nat] /\ \A n \in 1 .. z : o[n + 1] = o[n] + b[n]
    <3>1. z + 1 = q + 2 /\ z \in 0 .. l
      BY <1>2, <1>4, <2>1
    <3>2. QED
      BY <1>6, <1>11, <1>12, <2>1, <3>1
  <2>3. 1 \in 1 .. z + 1 /\ z \in 1 - 1 .. z
    BY <2>1
  <2>4. SumOf(SubSeq(b, 1, z)) = o[z + 1] - o[1]
    BY <1>6, <2>2, <2>3, StackTotal
  <2>5. o[1] = 0
    <3>1. 1 \in 1 .. q
      BY <1>4
    <3>2. QED
      BY <1>1, <1>9, <3>1
  <2>6. z + 1 = q + 2
    BY <1>4, <2>1
  <2>7. off[q] + h + d \in Nat
    <3>1. off[q] \in Nat
      BY <1>9, <1>10
    <3>2. QED
      BY <3>1
  <2>8. QED
    BY <1>10, <2>1, <2>4, <2>5, <2>6, <2>7
<1>14. \A n \in 1 .. q + 1 : b[n] # 0
  <2>1. SUFFICES ASSUME NEW n \in 1 .. q + 1 PROVE b[n] # 0
    OBVIOUS
  <2>2. CASE n \in 1 .. q - 1
    <3>1. n \in 1 .. e
      BY <1>1, <2>2
    <3>2. QED
      BY <1>1, <1>5, <2>2, <3>1
  <2>3. CASE n \notin 1 .. q - 1
    <3>1. n = q \/ n = q + 1
      BY <1>4, <2>3
    <3>2. QED
      BY <1>5, <3>1
  <2>4. QED
    BY <2>2, <2>3
<1>15. PICK z \in Nat \ {0} : z = q + 2 /\ z - 1 = q + 1
  BY <1>4
<1>16. z + 1 <= Len(b) /\ b[z] = 0
  BY <1>2, <1>4, <1>5, <1>6, <1>15
<1>17. off[q] + h + d \in Nat
  <2>1. off[q] \in Nat
    BY <1>9, <1>10
  <2>2. QED
    BY <2>1
<1>18. Ends(b, off[q] + h + d)
  BY <1>6, <1>13, <1>14, <1>15, <1>16, <1>17 DEF Ends
<1>19. QED
  BY <1>3, <1>18

\* Nothing packed: the blocks are those of the file.
LEMMA PlainEnds ==
  ASSUME NEW c, NEW blocks, NEW off, NEW e, NEW f \in Nat, Begins(c, blocks, off, e, f)
  PROVE  Ends(blocks, f)
<1>1. /\ e \in Nat /\ e <= Len(c) /\ off[1] = 0 /\ off[e + 1] = f
      /\ \A n \in 1 .. e : blocks[n] # 0
      /\ blocks \in Seq(Nat) /\ Len(blocks) = Len(c) + 2
      /\ \A n \in e + 1 .. Len(blocks) : blocks[n] = 0
  BY DEF Begins
<1>2. PICK l \in Nat : l = Len(blocks) /\ e + 2 <= l
  <2>1. PICK a \in Nat, z \in Int : a = Len(blocks) /\ z = Len(c) /\ a = z + 2 /\ e <= z
    BY <1>1
  <2>2. e + 2 <= a
    BY <1>1, <2>1
  <2>3. QED
    BY <2>1, <2>2
<1>3. PICK z \in Nat \ {0} : z = e + 1 /\ z - 1 = e /\ z + 1 <= l
  BY <1>1, <1>2
<1>4. blocks[z] = 0
  <2>1. z \in e + 1 .. l
    BY <1>1, <1>3
  <2>2. QED
    BY <1>1, <1>2, <2>1
<1>5. SumOf(SubSeq(blocks, 1, z - 1)) = f
  <2>1. 1 \in 1 .. e + 1 /\ e \in 1 - 1 .. e
    BY <1>1
  <2>2. SumOf(SubSeq(blocks, 1, e)) = off[e + 1] - off[1]
    BY <2>1, BeginsSum
  <2>3. QED
    BY <1>1, <1>3, <2>2
<1>6. QED
  BY <1>1, <1>2, <1>3, <1>4, <1>5 DEF Ends

LEMMA PackStep ==
  ASSUME ImportInv, BinaryInv, Pack
  PROVE  BinaryInv'
<1>1. /\ bphase = "pack" /\ onekpaq /\ bphase' = "pad"
      /\ program' = program /\ sects' = sects /\ b_len' = b_len /\ vm_shift' = vm_shift
      /\ c_off' = c_off /\ heap' = heap
  BY DEF Pack, Rest, ivars
<1>2. PICK p \in Packed :
        /\ packed' = [rf_len |-> Handed.rf_len, start |-> Handed.start, hdrlen |-> p[1],
                      datalen |-> p[2],
                      blocks |-> SubSeq(Behind, 1, Min(TakesBlocks(Behind, Handed.rf_len)))]
        /\ linker_blocks' = [n \in DOMAIN linker_blocks |->
                               CASE n = FirstPacked     -> p[1]
                                 [] n = FirstPacked + 1 -> p[2]
                                 [] n = FirstPacked + 2 -> 0
                                 [] OTHER               -> linker_blocks[n]]
        /\ f_len' = Handed.start + p[1] + p[2]
  BY Zenon DEF Pack
<1>3. PICK k : Whole(k) /\ InPlace(k)
  BY <1>1 DEF BinaryInv
<1>4. PICK e, off : /\ Begins(sects, linker_blocks, off, e, f_len) /\ f_len \in Nat
                    /\ e \in 0 .. k /\ k \in 0 .. Len(sects)
                    /\ \A n \in 1 .. k : InFile(sects[n]) <=> n <= e
  BY <1>3, FileIs
<1>5. PICK q \in DOMAIN sects :
        /\ FirstOf(onekpaq, sects, q) /\ FirstPacked = q
        /\ q + 1 <= Len(sects) /\ q \in 1 .. k /\ InFile(sects[q])
  BY <1>1, <1>3, FirstIs
<1>6. DOMAIN sects = 1 .. Len(sects) /\ \A n \in DOMAIN sects : IsWanted(sects[n]) <=> n <= k
  BY <1>3 DEF Whole, Lined, Layered
<1>7. e \in Nat /\ q \in 1 .. e /\ off \in [1 .. e + 1 -> Nat] /\ off[1] = 0
  <2>1. e \in Nat /\ off \in [1 .. e + 1 -> Nat] /\ off[1] = 0
    BY <1>4 DEF Begins
  <2>2. q <= e
    BY <1>4, <1>5
  <2>3. QED
    BY <1>5, <2>1, <2>2
<1>8. PICK c, blocks, f : c = sects /\ blocks = linker_blocks /\ f = f_len
  OBVIOUS
<1>9. Begins(c, blocks, off, e, f) /\ f \in Nat
  BY <1>4, <1>8
<1>10. Handed.start = off[q] /\ Handed.rf_len = f - off[q]
  <2>1. PICK z \in Nat : z = q - 1 /\ z + 1 = q
    BY <1>7
  <2>2. 1 \in 1 .. e + 1 /\ z \in 1 - 1 .. e
    BY <1>7, <2>1
  <2>3. SumOf(SubSeq(blocks, 1, z)) = off[z + 1] - off[1]
    BY <1>9, <2>2, BeginsSum
  <2>4. off[q] \in Nat
    BY <1>7
  <2>5. SumOf(SubSeq(linker_blocks, 1, FirstPacked - 1)) = off[q]
    BY <1>5, <1>7, <1>8, <2>1, <2>3, <2>4
  <2>6. QED
    BY <1>8, <2>5 DEF Handed
<1>11. Behind = SubSeq(blocks, q, Len(blocks))
  BY <1>5, <1>8 DEF Behind
<1>12. packed'.blocks = Lengths(c, q, e)
  <2>1. SubSeq(Behind, 1, Min(TakesBlocks(Behind, Handed.rf_len)))
          = Lengths(c, q, e)
    <3>1. q \in 1 .. e
      BY <1>7
    <3>2. PICK behind : behind = SubSeq(blocks, q, Len(blocks))
      OBVIOUS
    <3>3. HandsOver(c, behind, TakesBlocks(behind, f - off[q]), q, e)
      BY <1>9, <3>1, <3>2, BlocksHanded
    <3>4. SubSeq(behind, 1, Min(TakesBlocks(behind, f - off[q]))) = Lengths(c, q, e)
      BY <3>3 DEF HandsOver
    <3>5. QED
      BY <1>10, <1>11, <3>2, <3>4, Zenon
  <2>2. QED
    BY <1>2, <2>1
<1>13. packed'.start = off[q] /\ packed'.rf_len = f - off[q]
  BY <1>2, <1>10
<1>14. PackedRight(onekpaq, sects, packed)'
  <2>1. \A n \in DOMAIN c : IsWanted(c[n]) /\ InFile(c[n]) => n <= e
    BY <1>4, <1>6, <1>8
  <2>2. PICK x, p2 : x = onekpaq /\ p2 = packed'
    OBVIOUS
  <2>3. FirstOf(x, c, q) /\ DOMAIN c = 1 .. Len(c)
    BY <1>5, <1>6, <1>8, <2>2
  <2>4. PackedRight(x, c, p2)
    <3>1. q \in 1 .. e
      BY <1>7
    <3>2. /\ p2.start = off[q] /\ p2.rf_len = f - off[q]
          /\ p2.blocks = Lengths(c, q, e)
      BY <1>12, <1>13, <2>2, Zenon
    <3>3. QED
      BY <1>9, <2>1, <2>3, <3>1, <3>2, HandedRight
  <2>5. onekpaq' = onekpaq
    BY <1>1 DEF onekpaq
  <2>6. QED
    BY <1>1, <1>8, <2>2, <2>4, <2>5
<1>15. Ends(linker_blocks, f_len)'
  <2>1. PICK h \in Nat \ {0}, d \in Nat \ {0} : h = p[1] /\ d = p[2]
    BY SizesAssumption
  <2>2. q + 1 <= Len(c)
    BY <1>5, <1>8
  <2>3. Ends([n \in DOMAIN blocks |-> CASE n = q     -> h
                                        [] n = q + 1 -> d
                                        [] n = q + 2 -> 0
                                        [] OTHER     -> blocks[n]], off[q] + h + d)
    BY <1>7, <1>9, <2>1, <2>2, PackedEnds
  <2>4. linker_blocks' = [n \in DOMAIN blocks |-> CASE n = q     -> h
                                                    [] n = q + 1 -> d
                                                    [] n = q + 2 -> 0
                                                    [] OTHER     -> blocks[n]]
    BY <1>2, <1>5, <1>8, <2>1
  <2>5. f_len' = off[q] + h + d
    BY <1>2, <1>10, <2>1
  <2>6. QED
    BY <2>3, <2>4, <2>5
<1>16. Whole(k)'
  BY <1>1, <1>3, SteadyWhole
<1>17. QED
  BY <1>1, <1>14, <1>15, <1>16 DEF BinaryInv

LEMMA PackNothingStep ==
  ASSUME ImportInv, BinaryInv, PackNothing
  PROVE  BinaryInv'
<1>1. /\ bphase = "pack" /\ ~onekpaq /\ bphase' = "pad"
      /\ program' = program /\ sects' = sects /\ b_len' = b_len /\ vm_shift' = vm_shift
      /\ c_off' = c_off /\ heap' = heap /\ f_len' = f_len /\ linker_blocks' = linker_blocks
      /\ packed' = packed
  BY DEF PackNothing, Rest, ivars
<1>2. PICK k : Whole(k) /\ InPlace(k)
  BY <1>1 DEF BinaryInv
<1>3. PICK e, off : Begins(sects, linker_blocks, off, e, f_len) /\ f_len \in Nat
  BY <1>2, FileIs
<1>4. PICK c, blocks, f : c = sects /\ blocks = linker_blocks /\ f = f_len
  OBVIOUS
<1>5. Ends(blocks, f)
  <2>1. Begins(c, blocks, off, e, f) /\ f \in Nat
    BY <1>3, <1>4
  <2>2. QED
    BY <2>1, PlainEnds
<1>6. Ends(linker_blocks, f_len)'
  BY <1>1, <1>4, <1>5
<1>7. PackedRight(onekpaq, sects, packed)'
  <2>1. onekpaq' = onekpaq
    BY <1>1 DEF onekpaq
  <2>2. \A q \in DOMAIN sects' : ~FirstOf(onekpaq', sects', q)
    BY <1>1, <2>1 DEF FirstOf, Packs
  <2>3. QED
    BY <2>2 DEF PackedRight
<1>8. Whole(k)'
  BY <1>1, <1>2, SteadyWhole
<1>9. QED
  BY <1>1, <1>6, <1>7, <1>8 DEF BinaryInv

\* The first empty block of a list that ends.
LEMMA FirstZeroIs ==
  ASSUME NEW b \in Seq(Nat), NEW z \in Nat \ {0}, z <= Len(b), b[z] = 0,
         \A n \in 1 .. z - 1 : b[n] # 0
  PROVE  FirstZero(b) = z
<1>1. PICK Z : Z = {n \in DOMAIN b : b[n] = 0}
  OBVIOUS
<1>2. Z = {n \in 1 .. Len(b) : b[n] = 0} /\ Len(b) \in Nat
  BY <1>1
<1>3. z \in Z /\ Z \in SUBSET Nat
  BY <1>2
<1>4. PICK y \in Z : y = Min(Z) /\ y <= z
  BY <1>3, MinIs
<1>5. y = z
  <2>1. SUFFICES ASSUME y < z PROVE FALSE
    BY <1>2, <1>4
  <2>2. y \in 1 .. z - 1
    BY <1>2, <2>1
  <2>3. QED
    BY <1>2, <2>2
<1>6. QED
  BY <1>1, <1>4, <1>5 DEF FirstZero

LEMMA GreaterOf ==
  ASSUME NEW a \in Nat, NEW b \in Nat
  PROVE  Max({a, b}) = IF a >= b THEN a ELSE b
<1>1. PICK m \in Nat : m = a + b
  OBVIOUS
<1>2. {a, b} \in SUBSET (0 .. m) /\ {a, b} # {}
  BY <1>1
<1>3. PICK y \in {a, b} : y = Max({a, b}) /\ \A x \in {a, b} : x <= y
  BY <1>2, MaxIs
<1>4. a <= y /\ b <= y /\ (y = a \/ y = b)
  BY <1>3
<1>5. QED
  BY <1>3, <1>4

\* One more block makes a short file long enough.
LEMMA Padded ==
  ASSUME NEW b \in Seq(Nat), NEW z \in Nat \ {0}, z + 1 <= Len(b), b[z] = 0,
         \A n \in 1 .. z - 1 : b[n] # 0, NEW w \in Nat \ {0}
  PROVE  LET t == [b EXCEPT ![z] = w, ![z + 1] = 0]
         IN  /\ FirstZero(t) = z + 1
             /\ SumOf(SubSeq(t, 1, FirstZero(t) - 1)) = SumOf(SubSeq(b, 1, z - 1)) + w
<1>1. PICK l \in Nat : l = Len(b) /\ DOMAIN b = 1 .. l /\ \A n \in 1 .. l : b[n] \in Nat
  OBVIOUS
<1>2. PICK t : t = [b EXCEPT ![z] = w, ![z + 1] = 0]
  OBVIOUS
<1>3. z \in 1 .. l /\ z + 1 \in 1 .. l /\ z # z + 1
  BY <1>1
<1>4. t = [n \in 1 .. l |-> IF n = z + 1 THEN 0 ELSE IF n = z THEN w ELSE b[n]]
  BY <1>1, <1>2, <1>3
<1>5. t \in Seq(Nat) /\ Len(t) = l
  <2>1. \A n \in 1 .. l : (IF n = z + 1 THEN 0 ELSE IF n = z THEN w ELSE b[n]) \in Nat
    BY <1>1
  <2>2. QED
    BY <1>4, <2>1
<1>6. t[z] = w /\ t[z + 1] = 0
  BY <1>3, <1>4
<1>7. \A n \in 1 .. z - 1 : t[n] = b[n]
  <2>1. \A n \in 1 .. z - 1 : n \in 1 .. l /\ n # z + 1 /\ n # z
    BY <1>3
  <2>2. QED
    BY <1>4, <2>1
<1>8. PICK y \in Nat \ {0} : y = z + 1 /\ y - 1 = z
  OBVIOUS
<1>9. FirstZero(t) = y
  <2>1. \A n \in 1 .. y - 1 : t[n] # 0
    <3>1. \A n \in 1 .. z : n = z \/ n \in 1 .. z - 1
      OBVIOUS
    <3>2. QED
      BY <1>6, <1>7, <1>8, <3>1
  <2>2. t[y] = 0 /\ y <= Len(t)
    BY <1>1, <1>5, <1>6, <1>8
  <2>3. QED
    BY <1>5, <2>1, <2>2, FirstZeroIs
<1>10. SubSeq(t, 1, z) = Append(SubSeq(t, 1, z - 1), w) /\ SubSeq(t, 1, z - 1) \in Seq(Nat)
  <2>1. 1 \in Nat \ {0} /\ z \in 1 .. Len(t)
    BY <1>3, <1>5
  <2>2. QED
    BY <1>5, <1>6, <2>1, OneMore
<1>11. SubSeq(t, 1, z - 1) = SubSeq(b, 1, z - 1)
  <2>1. SubSeq(t, 1, z - 1) = [n \in 1 .. z - 1 |-> t[n]]
    BY <1>5
  <2>2. SubSeq(b, 1, z - 1) = [n \in 1 .. z - 1 |-> b[n]]
    BY <1>1
  <2>3. QED
    BY <1>7, <2>1, <2>2
<1>12. SumOf(SubSeq(t, 1, z)) = SumOf(SubSeq(b, 1, z - 1)) + w
  <2>1. SubSeq(t, 1, z - 1) \in Seq(Int) /\ w \in Int
    BY <1>10
  <2>2. Total(Append(SubSeq(t, 1, z - 1), w)) = Total(SubSeq(t, 1, z - 1)) + w
    BY <2>1, TotalAppend
  <2>3. QED
    BY <1>10, <1>11, <2>2, SumIsTotal
<1>13. QED
  BY <1>2, <1>8, <1>9, <1>12

LEMMA PadStep ==
  ASSUME ImportInv, BinaryInv, Pad
  PROVE  BinaryInv'
<1>1. /\ bphase = "pad" /\ bphase' = "file"
      /\ program' = program /\ sects' = sects /\ b_len' = b_len /\ vm_shift' = vm_shift
      /\ c_off' = c_off /\ heap' = heap /\ packed' = packed
  BY DEF Pad, Rest, ivars
<1>2. PICK b, f : b = linker_blocks /\ f = f_len
  OBVIOUS
<1>3. f \in Nat /\ b \in Seq(Nat)
  BY <1>1, <1>2 DEF BinaryInv, Ends
<1>4. PICK z \in Nat \ {0} :
        /\ z + 1 <= Len(b) /\ b[z] = 0 /\ \A n \in 1 .. z - 1 : b[n] # 0
        /\ SumOf(SubSeq(b, 1, z - 1)) = f
  BY <1>1, <1>2 DEF BinaryInv, Ends
<1>5. FirstZero(b) = z
  <2>1. z <= Len(b)
    <3>1. Len(b) \in Nat
      BY <1>3
    <3>2. QED
      BY <1>4, <3>1
  <2>2. QED
    BY <1>3, <1>4, <2>1, FirstZeroIs
<1>6. PICK t : t = (IF f >= MinFile THEN b ELSE [b EXCEPT ![z] = MinFile - f, ![z + 1] = 0])
  OBVIOUS
<1>7. file' = [blocks |-> SubSeq(t, 1, FirstZero(t) - 1), length |-> Max({f, MinFile})]
  BY <1>2, <1>5, <1>6 DEF Pad
<1>8. MinFile \in Nat
  BY SizesAssumption
<1>9. Max({f, MinFile}) = IF f >= MinFile THEN f ELSE MinFile
  BY <1>3, <1>8, GreaterOf
<1>10. SumOf(file.blocks)' = file'.length
  <2>1. CASE f >= MinFile
    BY <1>4, <1>5, <1>6, <1>7, <1>9, <2>1
  <2>2. CASE ~(f >= MinFile)
    <3>1. PICK w \in Nat \ {0} : w = MinFile - f /\ f + w = MinFile
      <4>1. MinFile - f \in Nat \ {0} /\ f + (MinFile - f) = MinFile
        BY <1>3, <1>8, <2>2
      <4>2. QED
        BY <4>1
    <3>2. t = [b EXCEPT ![z] = w, ![z + 1] = 0]
      BY <1>6, <2>2, <3>1
    <3>3. SumOf(SubSeq(t, 1, FirstZero(t) - 1)) = SumOf(SubSeq(b, 1, z - 1)) + w
      BY <1>3, <1>4, <3>2, Padded
    <3>4. QED
      BY <1>4, <1>7, <1>9, <2>2, <3>1, <3>3
  <2>3. QED
    BY <2>1, <2>2
<1>11. PackedRight(onekpaq, sects, packed)'
  <2>1. onekpaq' = onekpaq
    BY <1>1 DEF onekpaq
  <2>2. QED
    BY <1>1, <2>1 DEF BinaryInv
<1>12. PICK k : Whole(k)
  BY <1>1 DEF BinaryInv
<1>13. Whole(k)'
  BY <1>1, <1>12, SteadyWhole
<1>14. QED
  BY <1>1, <1>10, <1>11, <1>13 DEF BinaryInv

-----------------------------------------------------------------------------
(* Every step of link_binary.                                              *)

\* Steps that move no section.
LEMMA SteadyPlaces ==
  ASSUME BinaryInv, program' = program, sects' = sects, b_len' = b_len, vm_shift' = vm_shift,
         c_off' = c_off, heap' = heap, f_len' = f_len, linker_blocks' = linker_blocks,
         \/ /\ bphase \in {"relocate", "translate", "pack"}
            /\ bphase' \in {"relocate", "translate", "pack"}
         \/ bphase' = "refused"
         \/ bphase' = bphase /\ i' = i /\ packed' = packed /\ file' = file
  PROVE  BinaryInv'
<1>1. onekpaq' = onekpaq
  BY DEF onekpaq
<1>2. \A k : (Whole(k)' <=> Whole(k)) /\ (InPlace(k)' <=> InPlace(k)) /\ (Lined(k)' <=> Lined(k))
  BY <1>1, SteadyWhole, SteadyFile DEF Lined
<1>3. CASE bphase \in {"relocate", "translate", "pack"}
           /\ bphase' \in {"relocate", "translate", "pack"}
  <2>1. PICK k : Whole(k) /\ InPlace(k)
    BY <1>3 DEF BinaryInv
  <2>2. Whole(k)' /\ InPlace(k)'
    BY <1>2, <2>1
  <2>3. QED
    BY <1>3, <2>2 DEF BinaryInv
<1>4. CASE bphase' = "refused"
  BY <1>4 DEF BinaryInv
<1>5. CASE bphase' = bphase /\ i' = i /\ packed' = packed /\ file' = file
  <2>1. bphase \in {"off", "place", "relocate", "translate", "pack", "pad", "file", "refused"}
    BY DEF BinaryInv
  <2>2. CASE bphase = "off"
    BY <1>5, <2>2 DEF BinaryInv
  <2>3. CASE bphase = "place"
    <3>1. PICK k : k = i - 1 /\ Lined(k) /\ InPlace(k) /\ i \in 1 .. Len(sects) + 1
      BY <2>3 DEF BinaryInv
    <3>2. Lined(k)' /\ InPlace(k)' /\ i' - 1 = k
      BY <1>2, <1>5, <3>1
    <3>3. Lined(i - 1)' /\ InPlace(i - 1)'
      BY <3>2
    <3>4. QED
      BY <1>5, <2>3, <3>1, <3>3 DEF BinaryInv
  <2>4. CASE bphase \in {"relocate", "translate", "pack"}
    BY <1>3, <1>5, <2>4
  <2>5. CASE bphase \in {"pad", "file"}
    <3>1. PICK k : Whole(k)
      BY <2>5 DEF BinaryInv
    <3>2. Whole(k)'
      BY <1>2, <3>1
    <3>3. PackedRight(onekpaq, sects, packed)'
      BY <1>1, <1>5, <2>5 DEF BinaryInv
    <3>4. bphase = "pad" => Ends(linker_blocks, f_len)'
      BY DEF BinaryInv
    <3>5. bphase = "file" => SumOf(file.blocks)' = file'.length
      BY <1>5 DEF BinaryInv
    <3>6. QED
      BY <1>5, <2>5, <3>2, <3>3, <3>4, <3>5 DEF BinaryInv
  <2>6. CASE bphase = "refused"
    BY <1>4, <1>5, <2>6
  <2>7. QED
    BY <2>1, <2>2, <2>3, <2>4, <2>5, <2>6
<1>6. QED
  BY <1>3, <1>4, <1>5

LEMMA RestSteps ==
  ASSUME BinaryInv, TooSmallArea \/ Relocate \/ CannotRelocate \/ Relocated \/ CLink
  PROVE  BinaryInv'
<1>1. CASE TooSmallArea
  BY <1>1, SteadyPlaces DEF TooSmallArea, Rest, ivars
<1>2. CASE Relocate
  <2>1. /\ program' = program /\ sects' = sects /\ b_len' = b_len /\ vm_shift' = vm_shift
        /\ c_off' = c_off /\ heap' = heap /\ f_len' = f_len /\ linker_blocks' = linker_blocks
        /\ bphase = "relocate" /\ bphase' = bphase
    BY <1>2 DEF Relocate, Rest, ivars
  <2>2. QED
    BY <2>1, SteadyPlaces
<1>3. CASE CannotRelocate
  BY <1>3, SteadyPlaces DEF CannotRelocate, Rest, ivars
<1>4. CASE Relocated
  BY <1>4, SteadyPlaces DEF Relocated, Rest, ivars
<1>5. CASE FindCall
  BY <1>5, SteadyPlaces DEF FindCall, ivars, bvars
<1>6. CASE TranslateCalls
  BY <1>6, SteadyPlaces DEF TranslateCalls, ivars
<1>7. CASE CannotTranslate
  BY <1>7, SteadyPlaces DEF CannotTranslate, ivars
<1>8. QED
  BY <1>1, <1>2, <1>3, <1>4, <1>5, <1>6, <1>7 DEF CLink

\* Steps that touch neither the program nor its image.
LEMMA SteadyBinary ==
  ASSUME BinaryInv, program' = program, UNCHANGED bvars
  PROVE  BinaryInv'
BY SteadyPlaces DEF bvars

LEMMA BinaryInit == Init => BinaryInv
BY DEF Init, BInit, BinaryInv

LEMMA BinaryNext == ImportInv /\ BinaryInv /\ [Next]_vars => BinaryInv'
<1> SUFFICES ASSUME ImportInv, BinaryInv, [Next]_vars PROVE BinaryInv'
  OBVIOUS
<1>1. CASE Import
  <2>1. program' = program /\ UNCHANGED bvars
    BY <1>1 DEF Import, INext, Resolve, CannotResolve, Sort, FindParents, AskParent, Answer,
                FoundParents, AllParents, Enter, TryCombination, Mark, mapvars,
                WriteEntry, CannotWrite, WriteEnd
  <2>2. QED
    BY <2>1, SteadyBinary
<1>2. CASE Link
  BY <1>2, CollectStep, PlaceStep, PlacedStep, PackStep, PackNothingStep, PadStep, RestSteps
     DEF Link, BNext
<1>3. CASE Load
  <2>1. program' = program /\ UNCHANGED bvars
    <3>1. CASE LNext /\ UNCHANGED <<bvars, cvars>>
      BY <3>1 DEF LNext, Start, BrowseMach, NextSymbol, FoundSymbol, NextGroup, NextImage,
                  FoundImage, ivars
    <3>2. CASE CLoad
      BY <3>2 DEF CLoad, StartRestore, RestoreCall, ivars
    <3>3. QED
      BY <1>3, <3>1, <3>2 DEF Load
  <2>2. QED
    BY <2>1, SteadyBinary
<1>4. CASE UNCHANGED vars
  BY <1>4, SteadyBinary DEF vars, ivars
<1>5. QED
  BY <1>1, <1>2, <1>3, <1>4 DEF Next, Terminating

\* What was packed runs where the decompressor puts it.
LEMMA ResidesIs ==
  ASSUME NEW k, Whole(k), PackedRight(onekpaq, sects, packed), program.decompress_offset \in Nat,
         NEW n \in 1 .. k
  PROVE  Resides(sects[n]) = Runs(sects[n])
<1>1. PICK c, x : c = sects /\ x = onekpaq
  OBVIOUS
<1>2. PICK v \in Nat, d \in Nat :
        c = sects /\ x = onekpaq /\ v = vm_shift /\ d = program.decompress_offset
  BY <1>1 DEF Whole, Lined
<1>3. Layered(x, c) /\ k \in 0 .. Len(c) /\ Shifted(x, d, c, k, v)
  BY <1>2 DEF Whole, Lined
<1>4. PICK l \in Nat : l = Len(c) /\ DOMAIN c = 1 .. l /\ k \in 0 .. l
                       /\ \A m \in 1 .. l : Raw(c[m])
  BY <1>3 DEF Layered
<1>5. PICK s : s = c[n] /\ s.abs_offset \in Nat /\ s.vm_shift = IF Packs(x, s) THEN v ELSE 0
  BY <1>3, <1>4 DEF Raw, Shifted
<1>6. iscompressible(s) <=> Packs(x, s)
  BY <1>2 DEF iscompressible, Packs
<1>7. CASE ~InFile(s) \/ ~iscompressible(s)
  BY <1>2, <1>5, <1>7 DEF Resides
<1>8. CASE InFile(s) /\ Packs(x, s)
  <2>1. onekpaq
    BY <1>2, <1>8 DEF Packs
  <2>2. PICK q \in DOMAIN sects : FirstOf(onekpaq, sects, q) /\ q \in 1 .. k
    BY <2>1, FirstIs
  <2>3. packed.start = c[q].abs_offset
    BY <1>2, <2>2 DEF PackedRight
  <2>4. c[q].abs_offset + v = d /\ c[q].abs_offset \in Nat
    BY <1>2, <1>3, <1>4, <2>2 DEF Shifted, Raw
  <2>5. Resides(s) = d + s.abs_offset - packed.start
    BY <1>2, <1>6, <1>8 DEF Resides
  <2>6. Runs(s) = s.abs_offset + v
    BY <1>5, <1>8 DEF Runs
  <2>7. PICK a \in Nat, b \in Nat : a = c[q].abs_offset /\ b = s.abs_offset
    BY <1>5, <2>4
  <2>8. a + v = d /\ Resides(s) = d + b - a /\ Runs(s) = b + v
    BY <2>3, <2>4, <2>5, <2>6, <2>7
  <2>9. QED
    BY <1>2, <1>5, <2>7, <2>8
<1>9. QED
  BY <1>6, <1>7, <1>8

LEMMA ApartAtLast == ImportInv /\ BinaryInv => SectionsApart
<1> SUFFICES ASSUME ImportInv, BinaryInv, Linked PROVE SectionsApart
  BY DEF SectionsApart
<1>1. PICK k : Whole(k)
  BY DEF Linked, BinaryInv
<1>2. PackedRight(onekpaq, sects, packed)
  BY DEF Linked, BinaryInv
<1>3. program.decompress_offset \in Nat /\ program.heap_size \in Nat
  BY SizesAssumption, ObjectsAre DEF ImportInv, LinkerInv
<1>4. PICK c, x : c = sects /\ x = onekpaq
  OBVIOUS
<1>5. PICK v \in Nat, d \in Nat, b \in Nat :
        /\ c = sects /\ x = onekpaq /\ v = vm_shift /\ d = program.decompress_offset /\ b = b_len
  BY <1>4, <1>1, <1>3 DEF Whole, Lined
<1>6. /\ Layered(x, c) /\ k \in 0 .. Len(c) /\ Shifted(x, d, c, k, v) /\ Stacked(c, k, b)
      /\ b + v + program.heap_size <= heap
  BY <1>1, <1>5 DEF Whole, Lined
<1>7. PICK l \in Nat : l = Len(c) /\ DOMAIN c = 1 .. l /\ k \in 0 .. l
                       /\ \A m \in 1 .. l : Raw(c[m])
  BY <1>6 DEF Layered
<1>8. Everything = 1 .. k
  <2>1. \A n \in DOMAIN c : IsWanted(c[n]) <=> n <= k
    BY <1>1, <1>5 DEF Whole
  <2>2. \A n : n \in Everything <=> n \in 1 .. l /\ n <= k
    BY <1>5, <1>7, <2>1 DEF Everything, IsWanted
  <2>3. \A n : n \in Everything <=> n \in 1 .. k
    BY <1>7, <2>2
  <2>4. QED
    BY <2>3
<1>9. \A n \in 1 .. k : Resides(c[n]) = c[n].abs_offset + c[n].vm_shift
  BY <1>1, <1>2, <1>3, <1>5, ResidesIs DEF Runs
<1>10. \A n \in 1 .. k : /\ c[n].abs_offset \in Nat /\ c[n].length \in Nat
                        /\ c[n].vm_shift = IF Packs(x, c[n]) THEN v ELSE 0
  BY <1>6, <1>7 DEF Raw, Shifted
<1>11. ASSUME NEW m \in 1 .. k, NEW n \in 1 .. k, m < n
       PROVE  Resides(c[m]) + c[m].length <= Resides(c[n])
  <2>1. c[m].abs_offset + c[m].length <= c[n].abs_offset
    BY <1>6, <1>11 DEF Stacked, End
  <2>2. Packs(x, c[m]) => Packs(x, c[n])
    <3>1. m \in DOMAIN c /\ n \in DOMAIN c /\ IsWanted(c[n])
      BY <1>6, <1>7 DEF Stacked
    <3>2. QED
      BY <1>6, <1>11, <3>1 DEF Layered, Layers
  <2>3. c[m].vm_shift <= c[n].vm_shift /\ c[m].vm_shift \in Nat /\ c[n].vm_shift \in Nat
    BY <1>10, <2>2
  <2>4. PICK a \in Nat, g \in Nat, h \in Nat, y \in Nat, z \in Nat :
          /\ a = c[m].abs_offset /\ g = c[m].length /\ h = c[n].abs_offset
          /\ y = c[m].vm_shift /\ z = c[n].vm_shift
    BY <1>10, <2>3
  <2>5. a + y + g <= h + z
    BY <2>1, <2>3, <2>4
  <2>6. QED
    BY <1>9, <2>4, <2>5
<1>12. ASSUME NEW n \in 1 .. k
       PROVE  Resides(c[n]) + c[n].length + program.heap_size <= heap
  <2>1. c[n].abs_offset + c[n].length <= b
    BY <1>6 DEF Stacked, End
  <2>2. c[n].vm_shift <= v /\ c[n].vm_shift \in Nat
    BY <1>10
  <2>3. PICK a \in Nat, g \in Nat, y \in Nat, h \in Nat :
          /\ a = c[n].abs_offset /\ g = c[n].length /\ y = c[n].vm_shift /\ h = program.heap_size
    BY <1>3, <1>10, <2>2
  <2>4. a + g <= b /\ y <= v /\ Resides(c[n]) = a + y
    BY <1>9, <2>1, <2>2, <2>3
  <2>5. b + v + h <= heap
    BY <1>6, <2>3
  <2>6. a + y + g + h <= b + v + h
    BY <2>3, <2>4
  <2>7. heap \in Nat
    BY <1>1 DEF Whole
  <2>8. QED
    BY <2>3, <2>4, <2>5, <2>6, <2>7
<1>13. QED
  <2>1. SUFFICES ASSUME NEW n \in 1 .. k
                 PROVE  /\ \A m \in (1 .. k) \ {n} :
                             \/ Resides(c[n]) + c[n].length <= Resides(c[m])
                             \/ Resides(c[m]) + c[m].length <= Resides(c[n])
                        /\ Resides(c[n]) + c[n].length + program.heap_size <= heap
    BY <1>5, <1>8 DEF SectionsApart
  <2>2. \A m \in (1 .. k) \ {n} : m < n \/ n < m
    BY <1>7
  <2>3. QED
    BY <1>11, <1>12, <2>2

-----------------------------------------------------------------------------
(* Sums.                                                                   *)

\* T is the sum of s so far.
Sums(T, s) ==
  /\ T \in [0 .. Len(s) -> Int] /\ T[0] = 0
  /\ \A k \in 1 .. Len(s) : T[k] = T[k - 1] + s[k]

LEMMA TotalsExist ==
  ASSUME NEW s \in Seq(Int)
  PROVE  \E T : Sums(T, s) /\ T[Len(s)] = Total(s)
<1>1. PICK n \in Nat : n = Len(s) /\ DOMAIN s = 1 .. n /\ \A k \in 1 .. n : s[k] \in Int
  OBVIOUS
<1>2. \A k \in 0 .. n : SubSeq(s, 1, k) \in Seq(Int)
  BY <1>1
<1>3. ASSUME NEW q \in Seq(Int) PROVE Total(q) \in Int
  <2>1. Total(q) = Fold(Adding, 0, q)
    BY TotalIsFold
  <2>2. Fold(Adding, 0, q) \in Int
    BY AddingKeeps, FoldType
  <2>3. QED
    BY <2>1, <2>2
<1>4. PICK T : T = [k \in 0 .. n |-> Total(SubSeq(s, 1, k))]
  OBVIOUS
<1>5. T \in [0 .. n -> Int]
  BY <1>2, <1>3, <1>4
<1>6. T[0] = 0
  <2>1. SubSeq(s, 1, 0) = <<>>
    BY <1>1
  <2>2. 0 \in 0 .. n
    OBVIOUS
  <2>3. T[0] = Total(SubSeq(s, 1, 0))
    BY <1>4, <2>2
  <2>4. QED
    BY <2>1, <2>3, TotalEmpty
<1>7. ASSUME NEW k \in 1 .. n PROVE T[k] = T[k - 1] + s[k]
  <2>1. PICK j \in Nat : j = k - 1 /\ k = j + 1 /\ j + 1 <= n /\ j \in 0 .. n
    OBVIOUS
  <2>2. SubSeq(s, 1, j + 1) = Append(SubSeq(s, 1, j), s[j + 1]) /\ SubSeq(s, 1, j) \in Seq(Int) /\ s[j + 1] \in Int
    BY <1>1, <2>1, Grow
  <2>3. PICK q \in Seq(Int), x \in Int : q = SubSeq(s, 1, j) /\ x = s[j + 1]
    BY <2>2
  <2>4. Total(Append(q, x)) = Total(q) + x
    BY TotalAppend
  <2>5. T[k] = Total(SubSeq(s, 1, j + 1)) /\ T[j] = Total(SubSeq(s, 1, j))
    BY <1>4, <2>1
  <2>6. QED
    BY <2>1, <2>2, <2>3, <2>4, <2>5
<1>8. T[n] = Total(s)
  <2>1. SubSeq(s, 1, n) = s
    BY <1>1
  <2>2. QED
    BY <1>4, <2>1
<1>9. QED
  BY <1>1, <1>5, <1>6, <1>7, <1>8 DEF Sums

LEMMA SumsOnce ==
  ASSUME NEW s, Len(s) \in Nat, NEW T, NEW U, Sums(T, s), Sums(U, s)
  PROVE  T[Len(s)] = U[Len(s)]
<1>1. PICK n \in Nat : n = Len(s)
  OBVIOUS
<1> DEFINE N == {k \in Nat : k <= n => T[k] = U[k]}
<1>2. 0 \in N
  BY DEF Sums
<1>3. ASSUME NEW k \in N PROVE k + 1 \in N
  <2> SUFFICES ASSUME k + 1 <= n PROVE T[k + 1] = U[k + 1]
    OBVIOUS
  <2>1. PICK j \in 1 .. n : j = k + 1 /\ j - 1 = k
    OBVIOUS
  <2>2. T[j] = T[j - 1] + s[j] /\ U[j] = U[j - 1] + s[j]
    BY <1>1 DEF Sums
  <2>3. T[k] = U[k]
    OBVIOUS
  <2>4. QED
    BY <2>1, <2>2, <2>3
<1> HIDE DEF N
<1>4. N = Nat
  <2>1. N \in SUBSET Nat
    BY DEF N
  <2>2. QED
    BY <1>2, <1>3, <2>1, SetInduction
<1>5. QED
  BY <1>1, <1>4 DEF N

\* The sum of s is that of its own sums.
LEMMA TotalBy ==
  ASSUME NEW s \in Seq(Int), NEW T, Sums(T, s)
  PROVE  Total(s) = T[Len(s)]
<1>1. PICK U : Sums(U, s) /\ U[Len(s)] = Total(s)
  BY TotalsExist
<1>2. Len(s) \in Nat
  OBVIOUS
<1>3. QED
  BY <1>1, <1>2, SumsOnce

\* s without its j-th element.
Without(s, j, n) == [m \in 1 .. n |-> IF m < j THEN s[m] ELSE s[m + 1]]

LEMMA TotalWithout ==
  ASSUME NEW n \in Nat, NEW s \in [1 .. n + 1 -> Int], NEW j \in 1 .. n + 1
  PROVE  Without(s, j, n) \in [1 .. n -> Int] /\ Total(s) = Total(Without(s, j, n)) + s[j]
<1>1. PICK u : u = Without(s, j, n)
  OBVIOUS
<1>2. u \in [1 .. n -> Int] /\ \A m \in 1 .. n : u[m] = IF m < j THEN s[m] ELSE s[m + 1]
  BY <1>1 DEF Without
<1>3. s \in Seq(Int) /\ Len(s) = n + 1 /\ u \in Seq(Int) /\ Len(u) = n
  BY <1>2
<1>4. PICK T : Sums(T, s) /\ T[n + 1] = Total(s)
  BY <1>3, TotalsExist
<1>5. /\ T \in [0 .. n + 1 -> Int] /\ T[0] = 0
      /\ \A k \in 1 .. n + 1 : T[k] = T[k - 1] + s[k]
  BY <1>3, <1>4 DEF Sums
<1>6. PICK U : U = [k \in 0 .. n |-> IF k < j THEN T[k] ELSE T[k + 1] - s[j]]
  OBVIOUS
<1>7. U \in [0 .. n -> Int]
  <2>1. ASSUME NEW k \in 0 .. n PROVE (IF k < j THEN T[k] ELSE T[k + 1] - s[j]) \in Int
    <3>1. k \in 0 .. n + 1 /\ k + 1 \in 0 .. n + 1
      OBVIOUS
    <3>2. T[k] \in Int /\ T[k + 1] \in Int /\ s[j] \in Int
      BY <1>5, <3>1
    <3>3. QED
      BY <3>2
  <2>2. QED
    BY <1>6, <2>1
<1>8. U[0] = 0
  <2>1. 0 < j /\ 0 \in 0 .. n
    OBVIOUS
  <2>2. QED
    BY <1>5, <1>6, <2>1
<1>9. ASSUME NEW k \in 1 .. n PROVE U[k] = U[k - 1] + u[k]
  <2>1. PICK h \in 0 .. n : h = k - 1 /\ k = h + 1
    OBVIOUS
  <2>2. T[k] = T[h] + s[k] /\ T[k + 1] = T[k] + s[k + 1] /\ T[h] \in Int /\ T[k] \in Int /\ T[k + 1] \in Int
        /\ s[k] \in Int /\ s[k + 1] \in Int /\ s[j] \in Int
    <3>1. /\ k + 1 \in 1 .. n + 1 /\ (k + 1) - 1 = k /\ k \in 1 .. n + 1
          /\ h \in 0 .. n + 1 /\ k \in 0 .. n + 1 /\ k + 1 \in 0 .. n + 1 /\ k - 1 = h
      BY <2>1
    <3>2. T[h] \in Int /\ T[k] \in Int /\ T[k + 1] \in Int
      BY <1>5, <3>1
    <3>3. s[k] \in Int /\ s[k + 1] \in Int /\ s[j] \in Int
      BY <3>1
    <3>4. T[k] = T[k - 1] + s[k] /\ T[k + 1] = T[(k + 1) - 1] + s[k + 1]
      BY <1>5, <3>1
    <3>5. QED
      BY <3>1, <3>2, <3>3, <3>4
  <2>3. CASE k < j
    <3>1. U[k] = T[k] /\ U[h] = T[h] /\ u[k] = s[k]
      BY <1>2, <1>6, <2>1, <2>3
    <3>2. QED
      BY <2>1, <2>2, <3>1
  <2>4. CASE k = j
    <3>1. U[k] = T[k + 1] - s[j] /\ U[h] = T[h] /\ u[k] = s[k + 1]
      BY <1>2, <1>6, <2>1, <2>4
    <3>2. QED
      BY <2>1, <2>2, <2>4, <3>1
  <2>5. CASE k > j
    <3>1. U[k] = T[k + 1] - s[j] /\ U[h] = T[k] - s[j] /\ u[k] = s[k + 1]
      BY <1>2, <1>6, <2>1, <2>5
    <3>2. QED
      BY <2>1, <2>2, <3>1
  <2>6. QED
    BY <2>3, <2>4, <2>5
<1>10. Sums(U, u)
  BY <1>3, <1>7, <1>8, <1>9 DEF Sums
<1>11. Total(u) = U[n]
  BY <1>3, <1>10, TotalBy
<1>12. T[n + 1] = U[n] + s[j]
  <2>1. CASE n < j
    <3>1. j = n + 1 /\ U[n] = T[n] /\ T[n + 1] = T[n] + s[n + 1]
      <4>1. n + 1 \in 1 .. n + 1 /\ (n + 1) - 1 = n
        OBVIOUS
      <4>2. QED
        BY <1>5, <1>6, <2>1, <4>1
    <3>2. QED
      BY <3>1
  <2>2. CASE ~(n < j)
    <3>1. U[n] = T[n + 1] - s[j] /\ T[n + 1] \in Int /\ s[j] \in Int
      BY <1>5, <1>6, <2>2
    <3>2. QED
      BY <3>1
  <2>3. QED
    BY <2>1, <2>2
<1>13. QED
  BY <1>1, <1>2, <1>4, <1>11, <1>12

\* Where its x-th element gets to.
Past(x, j) == IF x < j THEN x ELSE x - 1

LEMMA ClosingUp ==
  ASSUME NEW m \in Nat, NEW j \in 1 .. m + 1, NEW x \in 1 .. m + 1, x # j,
         NEW y \in 1 .. m + 1, y # j
  PROVE  /\ Past(x, j) \in 1 .. m /\ (Past(x, j) = Past(y, j) => x = y)
         /\ x = IF Past(x, j) < j THEN Past(x, j) ELSE Past(x, j) + 1
<1>1. x < j \/ x > j
  OBVIOUS
<1>2. y < j \/ y > j
  OBVIOUS
<1>3. CASE x < j
  <2>1. Past(x, j) = x
    BY <1>3 DEF Past
  <2>2. y < j => Past(y, j) = y
    BY DEF Past
  <2>3. y > j => Past(y, j) = y - 1
    BY DEF Past
  <2>4. QED
    BY <1>2, <1>3, <2>1, <2>2, <2>3
<1>4. CASE x > j
  <2>1. Past(x, j) = x - 1
    BY <1>4 DEF Past
  <2>2. y < j => Past(y, j) = y
    BY DEF Past
  <2>3. y > j => Past(y, j) = y - 1
    BY DEF Past
  <2>4. QED
    BY <1>2, <1>4, <2>1, <2>2, <2>3
<1>5. QED
  BY <1>1, <1>3, <1>4

\* p is an order of n things, and t is s in that order.
Permutes(p, n) == p \in [1 .. n -> 1 .. n] /\ \A k, l \in 1 .. n : p[k] = p[l] => k = l

Rearranged(t, s, p, n) == t = [k \in 1 .. n |-> s[p[k]]]

\* The order does not matter.
LEMMA TotalPermuted ==
  ASSUME NEW n \in Nat, NEW s \in [1 .. n -> Int], NEW p, Permutes(p, n),
         NEW t, Rearranged(t, s, p, n)
  PROVE  Total(t) = Total(s)
<1> DEFINE N == {m \in Nat : \A a \in [1 .. m -> Int] : \A q \in [1 .. m -> 1 .. m] :
                   Permutes(q, m) => Total([k \in 1 .. m |-> a[q[k]]]) = Total(a)}
<1>1. 0 \in N
  <2>1. SUFFICES ASSUME NEW a \in [1 .. 0 -> Int], NEW q \in [1 .. 0 -> 1 .. 0]
                 PROVE  [k \in 1 .. 0 |-> a[q[k]]] = a
    OBVIOUS
  <2>2. QED
    OBVIOUS
<1>2. ASSUME NEW m \in N PROVE m + 1 \in N
  <2>0. m \in Nat /\ m + 1 \in Nat
    OBVIOUS
  <2>1. SUFFICES ASSUME NEW a \in [1 .. m + 1 -> Int], NEW q \in [1 .. m + 1 -> 1 .. m + 1],
                        Permutes(q, m + 1)
                 PROVE  Total([k \in 1 .. m + 1 |-> a[q[k]]]) = Total(a)
    BY <2>0
  <2>2. PICK e \in Nat : e = m + 1
    OBVIOUS
  <2>3. PICK j \in 1 .. e : j = q[e]
    BY <2>2
  <2>4. PICK b : b = [k \in 1 .. e |-> a[q[k]]]
    OBVIOUS
  <2>5. b \in [1 .. e -> Int] /\ a \in [1 .. e -> Int] /\ b[e] = a[j]
    BY <2>2, <2>3, <2>4
  <2>6. PICK u, v : u = Without(a, j, m) /\ v = Without(b, e, m)
    OBVIOUS
  <2>7. u \in [1 .. m -> Int] /\ Total(a) = Total(u) + a[j]
    BY <2>2, <2>3, <2>6, TotalWithout
  <2>8. v \in [1 .. m -> Int] /\ Total(b) = Total(v) + b[e]
    <3>1. e \in 1 .. m + 1
      BY <2>2
    <3>2. QED
      BY <2>2, <2>5, <2>6, <3>1, TotalWithout
  <2>9. PICK r : r = [k \in 1 .. m |-> Past(q[k], j)]
    OBVIOUS
  <2>10. \A k \in 1 .. m : q[k] \in 1 .. e /\ q[k] # j /\ k \in 1 .. e
    <3>1. ASSUME NEW k \in 1 .. m PROVE k \in 1 .. e /\ k # e /\ e \in 1 .. e
      BY <2>2
    <3>2. QED
      BY <2>1, <2>2, <2>3, <3>1 DEF Permutes
  <2>11. r \in [1 .. m -> 1 .. m]
    <3>1. ASSUME NEW k \in 1 .. m PROVE Past(q[k], j) \in 1 .. m
      <4>1. q[k] \in 1 .. m + 1 /\ q[k] # j /\ j \in 1 .. m + 1
        BY <2>2, <2>10
      <4>2. QED
        BY <2>0, <4>1, ClosingUp
    <3>2. QED
      BY <2>9, <3>1
  <2>12. Permutes(r, m)
    <3>1. ASSUME NEW k \in 1 .. m, NEW l \in 1 .. m, r[k] = r[l] PROVE k = l
      <4>1. q[k] \in 1 .. m + 1 /\ q[k] # j /\ q[l] \in 1 .. m + 1 /\ q[l] # j /\ j \in 1 .. m + 1
        BY <2>2, <2>10
      <4>2. Past(q[k], j) = Past(q[l], j)
        BY <2>9, <3>1
      <4>3. q[k] = q[l]
        <5>1. PICK x, y : x = q[k] /\ y = q[l]
          OBVIOUS
        <5>2. /\ x \in 1 .. m + 1 /\ x # j /\ y \in 1 .. m + 1 /\ y # j /\ j \in 1 .. m + 1
              /\ Past(x, j) = Past(y, j)
          BY <4>1, <4>2, <5>1
        <5>3. x = y
          BY <2>0, <5>2, ClosingUp
        <5>4. QED
          BY <5>1, <5>3
      <4>4. QED
        BY <2>1, <2>2, <2>10, <4>3 DEF Permutes
    <3>2. QED
      BY <2>11, <3>1 DEF Permutes
  <2>13. v = [k \in 1 .. m |-> u[r[k]]]
    <3>1. ASSUME NEW k \in 1 .. m PROVE v[k] = u[r[k]]
      <4>1. PICK x \in 1 .. e : x = q[k] /\ x # j
        BY <2>10
      <4>2. v[k] = a[x]
        <5>1. k < e /\ k \in 1 .. e
          BY <2>2
        <5>2. v[k] = b[k]
          BY <2>6, <5>1 DEF Without
        <5>3. QED
          BY <2>4, <4>1, <5>1, <5>2
      <4>3. r[k] \in 1 .. m /\ r[k] = Past(x, j)
        BY <2>9, <2>11, <4>1
      <4>4. u[r[k]] = IF r[k] < j THEN a[r[k]] ELSE a[r[k] + 1]
        BY <2>6, <4>3 DEF Without
      <4>5. x = IF r[k] < j THEN r[k] ELSE r[k] + 1
        <5>1. x \in 1 .. m + 1 /\ x # j /\ j \in 1 .. m + 1
          BY <2>2, <4>1
        <5>2. QED
          BY <2>0, <4>3, <5>1, ClosingUp
      <4>6. QED
        BY <4>2, <4>4, <4>5
    <3>2. QED
      BY <2>8, <3>1
  <2>14. Total(v) = Total(u)
    BY <2>7, <2>11, <2>12, <2>13
  <2>15. QED
    BY <2>2, <2>4, <2>5, <2>7, <2>8, <2>14
<1> HIDE DEF N
<1>3. N = Nat
  <2>1. N \in SUBSET Nat
    BY DEF N
  <2>2. QED
    BY <1>1, <1>2, <2>1, SetInduction
<1>4. QED
  <2>1. p \in [1 .. n -> 1 .. n]
    BY DEF Permutes
  <2>2. Total([k \in 1 .. n |-> s[p[k]]]) = Total(s)
    BY <1>3, <2>1 DEF N
  <2>3. QED
    BY <2>2 DEF Rearranged

-----------------------------------------------------------------------------
(* Numbers of Field bytes.                                                 *)

\* A digit more.
LEMMA OneDigitMore ==
  ASSUME NEW p \in Nat \ {0}, NEW v \in Nat \ {0}, NEW t \in 0 .. p - 1, NEW d \in 0 .. v - 1
  PROVE  d * p \in Nat /\ d * p <= v * p - p /\ t + d * p \in 0 .. v * p - 1 /\ v * p \in Nat \ {0}
<1>1. PICK u \in Nat : u = v - 1 /\ d <= u /\ d \in Nat
  OBVIOUS
<1>2. d * p \in Nat /\ v * p \in Nat \ {0}
  BY <1>1
<1>3. d * p <= u * p
  BY <1>1
<1>4. u * p = v * p - p
  BY <1>1
<1>5. PICK a \in Nat, c \in Nat : a = d * p /\ c = v * p
  BY <1>2
<1>6. a <= c - p
  BY <1>3, <1>4, <1>5
<1>7. \A f, e \in Nat : f <= e - p => t + f \in 0 .. e - 1
  OBVIOUS
<1>8. t + a \in 0 .. c - 1
  BY <1>5, <1>6, <1>7
<1>9. QED
  BY <1>2, <1>5, <1>6, <1>8

\* Multiples of p and one more digit above them.
LEMMA Multiples ==
  ASSUME NEW p \in Int, NEW q \in Int, NEW t \in Int, NEW d \in Int, NEW e \in Int, NEW v \in Int
  PROVE  /\ (p * q + t) + d * (p * e) = p * (q + d * e) + t
         /\ v * (p * e) = p * (v * e)
<1>1. v * (p * e) = p * (v * e)
  OBVIOUS
<1>2. d * (p * e) = p * (d * e)
  OBVIOUS
<1>3. PICK x \in Int : x = d * e
  OBVIOUS
<1>4. p * (q + x) = p * q + p * x
  OBVIOUS
<1>5. PICK a \in Int, b \in Int : a = p * q /\ b = p * x
  OBVIOUS
<1>6. (a + t) + b = (a + b) + t
  BY <1>5
<1>7. QED
  BY <1>1, <1>2, <1>3, <1>4, <1>5, <1>6

LEMMA QuotientIs ==
  ASSUME NEW m \in Nat \ {0}, NEW x \in Int, NEW q \in Int, NEW r \in 0 .. m - 1, x = m * q + r
  PROVE  x % m = r /\ x \div m = q
<1>1. PICK s \in 0 .. m - 1, p \in Int : s = x % m /\ p = x \div m /\ x = m * p + s
  <2>1. x % m \in 0 .. m - 1 /\ x \div m \in Int /\ x = m * (x \div m) + (x % m)
    OBVIOUS
  <2>2. QED
    BY <2>1
<1>2. p = q
  <2>1. CASE p <= q - 1
    <3>1. m * p <= m * (q - 1)
      BY <2>1
    <3>2. m * (q - 1) = m * q - m
      OBVIOUS
    <3>3. PICK a \in Int, b \in Int : a = m * p /\ b = m * q
      OBVIOUS
    <3>4. a <= b - m /\ a + s = b + r
      BY <1>1, <3>1, <3>2, <3>3
    <3>5. QED
      BY <3>3, <3>4
  <2>2. CASE q <= p - 1
    <3>1. m * q <= m * (p - 1)
      BY <2>2
    <3>2. m * (p - 1) = m * p - m
      OBVIOUS
    <3>3. PICK a \in Int, b \in Int : a = m * p /\ b = m * q
      OBVIOUS
    <3>4. b <= a - m /\ a + s = b + r
      BY <1>1, <3>1, <3>2, <3>3
    <3>5. QED
      BY <3>3, <3>4
  <2>3. QED
    BY <1>1, <2>1, <2>2
<1>3. s = r
  BY <1>1, <1>2
<1>4. QED
  BY <1>1, <1>2, <1>3

LEMMA QuotientExists ==
  ASSUME NEW m \in Nat \ {0}, NEW x \in Int
  PROVE  \E q \in Int, r \in 0 .. m - 1 :
           x = m * q + r /\ q = x \div m /\ r = x % m /\ (x \in Nat => q \in Nat)
<1>1. x % m \in 0 .. m - 1 /\ x \div m \in Int /\ x = m * (x \div m) + (x % m)
  OBVIOUS
<1>2. PICK q \in Int, r \in 0 .. m - 1 : q = x \div m /\ r = x % m /\ x = m * q + r
  BY <1>1
<1>3. ASSUME x \in Nat PROVE q \in Nat
  <2>1. SUFFICES ASSUME q <= 0 - 1 PROVE FALSE
    BY <1>2
  <2>2. m * q <= m * (0 - 1)
    BY <1>2, <2>1
  <2>3. PICK a \in Int : a = m * q
    BY <1>2
  <2>4. a <= 0 - m
    BY <2>2, <2>3
  <2>5. QED
    BY <1>2, <1>3, <2>3, <2>4
<1>4. QED
  BY <1>2, <1>3

LEMMA PowerIs ==
  /\ Field \in Nat \ {0} /\ ByteValues \in Nat \ {0}
  /\ Power \in [0 .. Field -> Nat \ {0}] /\ Power[0] = 1
  /\ \A k \in 1 .. Field : Power[k] = ByteValues * Power[k - 1]
<1>1. Field \in Nat \ {0} /\ ByteValues \in Nat \ {0}
  BY SizesAssumption
<1>2. PICK T : T = Nat \ {0}
  OBVIOUS
<1>3. PICK step \in [T -> T] : step = [x \in T |-> ByteValues * x]
  <2>1. \A x \in T : ByteValues * x \in T
    BY <1>1, <1>2
  <2>2. QED
    BY <2>1
<1>4. PICK F \in [0 .. Field -> T] : Climbs(F, 1, step, Field)
  <2>1. 1 \in T /\ Field \in Nat
    BY <1>1, <1>2
  <2>2. QED
    BY <1>3, <2>1, ClimbExists
<1>5. F = [k \in 0 .. Field |-> IF k = 0 THEN 1 ELSE step[F[k - 1]]]
  BY <1>4 DEF Climbs
<1>6. F = [k \in 0 .. Field |-> IF k = 0 THEN 1 ELSE ByteValues * F[k - 1]]
  <2>1. ASSUME NEW k \in 0 .. Field, k # 0 PROVE step[F[k - 1]] = ByteValues * F[k - 1]
    <3>1. k - 1 \in 0 .. Field
      BY <1>1, <2>1
    <3>2. F[k - 1] \in T
      BY <1>4, <3>1
    <3>3. QED
      BY <1>3, <3>2
  <2>2. QED
    BY <1>5, <2>1
<1>7. Power = CHOOSE G : G = [k \in 0 .. Field |-> IF k = 0 THEN 1 ELSE ByteValues * G[k - 1]]
  BY DEF Power
<1>8. Power = [k \in 0 .. Field |-> IF k = 0 THEN 1 ELSE ByteValues * Power[k - 1]]
  BY <1>6, <1>7
<1>9. 0 \in 0 .. Field /\ \A k \in 1 .. Field : k \in 0 .. Field /\ k # 0
  BY <1>1
<1>10. Power[0] = 1 /\ \A k \in 1 .. Field : Power[k] = ByteValues * Power[k - 1]
  BY <1>8, <1>9
<1> DEFINE N == {n \in Nat : n <= Field => Power[n] \in Nat \ {0}}
<1>11. 0 \in N
  BY <1>10
<1>12. ASSUME NEW n \in N PROVE n + 1 \in N
  <2> SUFFICES ASSUME n + 1 <= Field PROVE Power[n + 1] \in Nat \ {0}
    OBVIOUS
  <2>1. n \in Nat /\ n <= Field /\ Power[n] \in Nat \ {0} /\ n + 1 \in 1 .. Field /\ (n + 1) - 1 = n
    BY <1>1
  <2>2. Power[n + 1] = ByteValues * Power[n]
    BY <1>10, <2>1
  <2>3. QED
    BY <1>1, <2>1, <2>2
<1> HIDE DEF N
<1>13. N = Nat
  <2>1. N \in SUBSET Nat
    BY DEF N
  <2>2. QED
    BY <1>11, <1>12, <2>1, SetInduction
<1>14. \A k \in 0 .. Field : Power[k] \in Nat \ {0}
  <2>1. \A k \in 0 .. Field : k \in N /\ k <= Field
    BY <1>1, <1>13
  <2>2. QED
    BY <2>1 DEF N
<1>15. Power \in [0 .. Field -> Nat \ {0}]
  BY <1>8, <1>14
<1>16. QED
  BY <1>1, <1>10, <1>15

LEMMA WordsIs == Words \in Nat \ {0} /\ Words = Power[Field]
<1>1. Field \in 0 .. Field
  BY PowerIs
<1>2. QED
  BY <1>1, PowerIs DEF Words

\* Bytes, what each of a word's stands for, and the bytes of a number.
Bytes == 0 .. ByteValues - 1
Digits(b) == [k \in 1 .. Field |-> b[k] * Power[k - 1]]
LEMMA BytesAre == Bytes \in SUBSET Int
BY PowerIs DEF Bytes

DigitsOf(n) == [k \in 1 .. Field |-> (n \div Power[k - 1]) % ByteValues]

LEMMA DigitsAre ==
  ASSUME NEW b \in [1 .. Field -> Bytes]
  PROVE  /\ Digits(b) \in Seq(Int) /\ Len(Digits(b)) = Field
         /\ \E T : Sums(T, Digits(b)) /\ T[Field] = Total(Digits(b))
<1>1. \A k \in 1 .. Field : b[k] * Power[k - 1] \in Int
  <2>1. ASSUME NEW k \in 1 .. Field PROVE b[k] * Power[k - 1] \in Int
    <3>1. k - 1 \in 0 .. Field
      BY PowerIs
    <3>2. b[k] \in Int
      BY BytesAre
    <3>3. Power[k - 1] \in Int
      BY <3>1, PowerIs
    <3>4. QED
      BY <3>2, <3>3
  <2>2. QED
    BY <2>1
<1>2. Digits(b) \in Seq(Int) /\ Len(Digits(b)) = Field
  BY <1>1, PowerIs DEF Digits
<1>3. QED
  BY <1>2, TotalsExist

\* What the first k digits come to.
LEMMA DigitSums ==
  ASSUME NEW b \in [1 .. Field -> Bytes], NEW T, Sums(T, Digits(b))
  PROVE  /\ T \in [0 .. Field -> Int] /\ T[0] = 0
         /\ \A k \in 0 .. Field : T[k] \in 0 .. Power[k] - 1
         /\ \A k \in 1 .. Field : T[k] = T[k - 1] + b[k] * Power[k - 1]
<1>1. T \in [0 .. Field -> Int] /\ T[0] = 0
  BY DigitsAre DEF Sums
<1>2. \A k \in 1 .. Field : T[k] = T[k - 1] + b[k] * Power[k - 1]
  <2>1. \A k \in 1 .. Field : T[k] = T[k - 1] + Digits(b)[k]
    BY DigitsAre DEF Sums
  <2>2. QED
    BY <2>1 DEF Digits
<1> DEFINE N == {k \in Nat : k <= Field => T[k] \in 0 .. Power[k] - 1}
<1>3. 0 \in N
  BY <1>1, PowerIs
<1>4. ASSUME NEW k \in N PROVE k + 1 \in N
  <2> SUFFICES ASSUME k + 1 <= Field PROVE T[k + 1] \in 0 .. Power[k + 1] - 1
    OBVIOUS
  <2>1. k \in Nat /\ k <= Field /\ k + 1 \in 1 .. Field /\ (k + 1) - 1 = k /\ k \in 0 .. Field
    BY PowerIs
  <2>2. PICK t \in Int, p \in Nat \ {0} : t = T[k] /\ p = Power[k] /\ t \in 0 .. p - 1
    BY <1>1, <2>1, PowerIs
  <2>3. PICK d \in Bytes : d = b[k + 1]
    BY <2>1
  <2>4. T[k + 1] = t + d * p /\ Power[k + 1] = ByteValues * p
    BY <1>2, <2>1, <2>2, <2>3, PowerIs
  <2>5. t + d * p \in 0 .. ByteValues * p - 1
    <3>1. PICK v \in Nat \ {0} : v = ByteValues
      BY PowerIs
    <3>2. d \in 0 .. v - 1
      BY <2>3, <3>1 DEF Bytes
    <3>3. t + d * p \in 0 .. v * p - 1
      BY <2>2, <3>1, <3>2, OneDigitMore
    <3>4. QED
      BY <3>1, <3>3
  <2>6. QED
    BY <2>4, <2>5
<1> HIDE DEF N
<1>5. N = Nat
  <2>1. N \in SUBSET Nat
    BY DEF N
  <2>2. QED
    BY <1>3, <1>4, <2>1, SetInduction
<1>6. \A k \in 0 .. Field : T[k] \in 0 .. Power[k] - 1
  <2>1. \A k \in 0 .. Field : k \in N /\ k <= Field
    BY <1>5, PowerIs
  <2>2. QED
    BY <2>1 DEF N
<1>7. QED
  BY <1>1, <1>2, <1>6

\* The digits of a number that is made of digits.
LEMMA DigitsBack ==
  ASSUME NEW b \in [1 .. Field -> Bytes]
  PROVE  Total(Digits(b)) \in 0 .. Words - 1 /\ DigitsOf(Total(Digits(b))) = b
<1>1. PICK T : Sums(T, Digits(b)) /\ T[Field] = Total(Digits(b))
  BY DigitsAre
<1>2. /\ T \in [0 .. Field -> Int] /\ T[0] = 0
      /\ \A k \in 0 .. Field : T[k] \in 0 .. Power[k] - 1
      /\ \A k \in 1 .. Field : T[k] = T[k - 1] + b[k] * Power[k - 1]
  BY <1>1, DigitSums
<1>3. T[Field] \in 0 .. Words - 1
  <2>1. Field \in 0 .. Field
    BY PowerIs
  <2>2. QED
    BY <1>2, <2>1, WordsIs
<1>4. ASSUME NEW j \in 1 .. Field
      PROVE  \A k \in j .. Field : \E q \in Int, e \in Int :
               T[k] = Power[j] * q + T[j] /\ Power[k] = Power[j] * e
  <2> DEFINE N == {m \in Nat : j + m <= Field =>
                     \E q \in Int, e \in Int :
                       T[j + m] = Power[j] * q + T[j] /\ Power[j + m] = Power[j] * e}
  <2>1. j \in 0 .. Field /\ Power[j] \in Nat \ {0} /\ T[j] \in Int
    <3>1. j \in 0 .. Field
      BY PowerIs
    <3>2. QED
      BY <1>2, <3>1, PowerIs
  <2>2. 0 \in N
    <3>1. T[j] = Power[j] * 0 + T[j] /\ Power[j] = Power[j] * 1 /\ j + 0 = j
      BY <2>1
    <3>2. QED
      BY <3>1
  <2>3. ASSUME NEW m \in N PROVE m + 1 \in N
    <3> SUFFICES ASSUME j + (m + 1) <= Field
                 PROVE  \E q \in Int, e \in Int :
                          T[j + (m + 1)] = Power[j] * q + T[j] /\ Power[j + (m + 1)] = Power[j] * e
      OBVIOUS
    <3>1. PICK k \in Nat : k = j + m /\ k + 1 = j + (m + 1) /\ k + 1 <= Field
      OBVIOUS
    <3>2. k + 1 \in 1 .. Field /\ (k + 1) - 1 = k /\ k <= Field
      BY <3>1, PowerIs
    <3>3. PICK q \in Int, e \in Int : T[k] = Power[j] * q + T[j] /\ Power[k] = Power[j] * e
      BY <3>1, <3>2
    <3>4. PICK p \in Nat \ {0}, t \in Int : p = Power[j] /\ t = T[j]
      BY <2>1
    <3>5. PICK d \in Int, v \in Nat : d = b[k + 1] /\ v = ByteValues
      BY <3>2, PowerIs DEF Bytes
    <3>6. T[k + 1] = (p * q + t) + d * (p * e) /\ Power[k + 1] = v * (p * e)
      <4>1. T[k + 1] = T[k] + b[k + 1] * Power[k] /\ Power[k + 1] = ByteValues * Power[k]
        BY <1>2, <3>2, PowerIs
      <4>2. T[k] = p * q + t /\ Power[k] = p * e
        BY <3>3, <3>4
      <4>3. QED
        BY <3>5, <4>1, <4>2
    <3>7. (p * q + t) + d * (p * e) = p * (q + d * e) + t /\ v * (p * e) = p * (v * e)
      <4>1. p \in Int /\ q \in Int /\ t \in Int /\ d \in Int /\ e \in Int /\ v \in Int
        OBVIOUS
      <4>2. QED
        BY <4>1, Multiples
    <3>8. q + d * e \in Int /\ v * e \in Int
      BY <3>3, <3>5
    <3>9. PICK x \in Int, y \in Int : x = q + d * e /\ y = v * e
      BY <3>8
    <3>10. T[k + 1] = p * x + t /\ Power[k + 1] = p * y
      BY <3>6, <3>7, <3>9
    <3>11. QED
      BY <3>1, <3>4, <3>9, <3>10
  <2> HIDE DEF N
  <2>4. N = Nat
    <3>1. N \in SUBSET Nat
      BY DEF N
    <3>2. QED
      BY <2>2, <2>3, <3>1, SetInduction
  <2>5. SUFFICES ASSUME NEW k \in j .. Field
                 PROVE  \E q \in Int, e \in Int : T[k] = Power[j] * q + T[j] /\ Power[k] = Power[j] * e
    OBVIOUS
  <2>6. PICK m \in Nat : k = j + m /\ j + m <= Field
    <3>1. k - j \in Nat /\ k = j + (k - j) /\ k <= Field
      BY PowerIs
    <3>2. QED
      BY <3>1
  <2>7. m \in N
    BY <2>4
  <2>8. QED
    BY <2>6, <2>7 DEF N
<1>5. ASSUME NEW k \in 1 .. Field
      PROVE  (T[Field] \div Power[k - 1]) % ByteValues = b[k]
  <2>1. k \in 0 .. Field /\ k - 1 \in 0 .. Field /\ Field \in k .. Field
    BY PowerIs
  <2>2. PICK p \in Nat \ {0}, v \in Nat \ {0}, t \in Int :
          p = Power[k - 1] /\ v = ByteValues /\ t = T[k - 1] /\ t \in 0 .. p - 1
    BY <1>2, <2>1, PowerIs
  <2>3. PICK d \in 0 .. v - 1 : d = b[k]
    BY <2>2 DEF Bytes
  <2>4. PICK q \in Int : T[Field] = Power[k] * q + T[k]
    BY <1>4, <2>1
  <2>5. Power[k] = v * p /\ T[k] = t + d * p
    BY <1>2, <2>2, <2>3, PowerIs
  <2>6. T[Field] = (v * p) * q + (t + d * p)
    BY <2>4, <2>5
  <2>7. (v * p) * q + (t + d * p) = p * (v * q + d) + t
    BY <2>2, <2>3, <2>4, SMTT(20)
  <2>8. PICK y \in Int : y = v * q + d
    BY <2>2, <2>3, <2>4
  <2>9. PICK x \in Int : x = T[Field] /\ x = p * y + t
    BY <1>3, <2>6, <2>7, <2>8
  <2>10. x \div p = y
    <3>1. x \in Int /\ y \in Int /\ t \in 0 .. p - 1 /\ p \in Nat \ {0}
      BY <2>2
    <3>2. x = p * y + t
      BY <2>9
    <3>3. QED
      BY <3>1, <3>2, QuotientIs
  <2>11. y % v = d
    <3>1. y \in Int /\ q \in Int /\ d \in 0 .. v - 1 /\ v \in Nat \ {0}
      BY <2>3
    <3>2. y = v * q + d
      BY <2>8
    <3>3. QED
      BY <3>1, <3>2, QuotientIs
  <2>12. QED
    BY <2>2, <2>3, <2>9, <2>10, <2>11
<1>6. DigitsOf(T[Field]) = b
  BY <1>5 DEF DigitsOf
<1>7. QED
  BY <1>1, <1>3, <1>6

\* The number that the digits of a number make.
LEMMA NumberBack ==
  ASSUME NEW n \in 0 .. Words - 1
  PROVE  DigitsOf(n) \in [1 .. Field -> Bytes] /\ Total(Digits(DigitsOf(n))) = n
<1>1. PICK b : b = DigitsOf(n)
  OBVIOUS
<1>2. n \in Nat /\ n < Words
  BY WordsIs
<1>3. \A k \in 1 .. Field : b[k] = (n \div Power[k - 1]) % ByteValues
  BY <1>1 DEF DigitsOf
<1>4. b \in [1 .. Field -> Bytes]
  <2>1. ASSUME NEW k \in 1 .. Field PROVE (n \div Power[k - 1]) % ByteValues \in Bytes
    <3>1. k - 1 \in 0 .. Field
      BY PowerIs
    <3>2. PICK p \in Nat \ {0}, v \in Nat \ {0} : p = Power[k - 1] /\ v = ByteValues
      BY <3>1, PowerIs
    <3>3. PICK q \in Int : q = n \div p
      BY <1>2, <3>2, QuotientExists
    <3>4. q % v \in 0 .. v - 1
      BY <3>2, <3>3
    <3>5. QED
      BY <3>2, <3>3, <3>4 DEF Bytes
  <2>2. QED
    BY <1>1, <2>1 DEF DigitsOf
<1>5. PICK T : Sums(T, Digits(b)) /\ T[Field] = Total(Digits(b))
  BY <1>4, DigitsAre
<1>6. /\ T \in [0 .. Field -> Int] /\ T[0] = 0
      /\ \A k \in 1 .. Field : T[k] = T[k - 1] + b[k] * Power[k - 1]
  BY <1>4, <1>5, DigitSums
<1> DEFINE N == {k \in Nat : k <= Field => n = Power[k] * (n \div Power[k]) + T[k]}
<1>7. 0 \in N
  <2>1. n \div 1 = n
    <3>1. n = 1 * n + 0 /\ 1 \in Nat \ {0} /\ 0 \in 0 .. 1 - 1 /\ n \in Int
      BY <1>2
    <3>2. QED
      BY <3>1, QuotientIs
  <2>2. n = 1 * n + 0
    BY <1>2
  <2>3. QED
    BY <1>6, <2>1, <2>2, PowerIs
<1>8. ASSUME NEW k \in N PROVE k + 1 \in N
  <2> SUFFICES ASSUME k + 1 <= Field
               PROVE  n = Power[k + 1] * (n \div Power[k + 1]) + T[k + 1]
    OBVIOUS
  <2>1. k \in Nat /\ k <= Field /\ k + 1 \in 1 .. Field /\ (k + 1) - 1 = k /\ k \in 0 .. Field
    BY PowerIs
  <2>2. PICK p \in Nat \ {0}, v \in Nat \ {0}, t \in Int : p = Power[k] /\ v = ByteValues /\ t = T[k]
    BY <1>6, <2>1, PowerIs
  <2>3. PICK q \in Int, r \in 0 .. p - 1 : n = p * q + r /\ q = n \div p
    <3>1. n \in Int /\ p \in Nat \ {0}
      BY <1>2
    <3>2. QED
      BY <3>1, QuotientExists
  <2>4. PICK q2 \in Int, d \in 0 .. v - 1 : q = v * q2 + d /\ d = q % v
    BY <2>2, <2>3, QuotientExists
  <2>5. b[k + 1] = d
    BY <1>3, <2>1, <2>2, <2>3, <2>4
  <2>6. T[k + 1] = t + d * p /\ Power[k + 1] = v * p
    BY <1>6, <2>1, <2>2, <2>5, PowerIs
  <2>7. n = p * q + t
    BY <2>1, <2>2, <2>3
  <2>8. p * (v * q2 + d) = (v * p) * q2 + d * p
    BY <2>2, <2>4
  <2>9. PICK m \in Nat \ {0}, a \in Nat : m = v * p /\ a = d * p /\ a <= m - p
    <3>1. 0 \in 0 .. p - 1
      BY <2>2
    <3>2. v * p \in Nat \ {0} /\ d * p \in Nat /\ d * p <= v * p - p
      BY <2>2, <2>4, <3>1, OneDigitMore
    <3>3. QED
      BY <3>2
  <2>10. n = m * q2 + (a + r)
    <3>1. PICK x \in Int, y \in Int : x = p * q /\ y = m * q2
      BY <2>2, <2>3, <2>4, <2>9
    <3>2. x = y + a
      BY <2>4, <2>8, <2>9, <3>1
    <3>3. n = x + r
      BY <2>3, <3>1
    <3>4. QED
      BY <2>3, <2>9, <3>1, <3>2, <3>3
  <2>11. a + r \in 0 .. m - 1
    BY <2>2, <2>3, <2>9
  <2>12. n \div m = q2
    <3>1. PICK s \in 0 .. m - 1 : s = a + r /\ n = m * q2 + s
      BY <2>10, <2>11
    <3>2. n \in Int
      BY <1>2
    <3>3. QED
      BY <2>4, <2>9, <3>1, <3>2, QuotientIs
  <2>13. n = m * q2 + (t + a)
    <3>1. PICK x \in Int, y \in Int : x = p * q /\ y = m * q2
      BY <2>2, <2>3, <2>4, <2>9
    <3>2. x = y + a
      BY <2>4, <2>8, <2>9, <3>1
    <3>3. n = x + t
      BY <2>7, <3>1
    <3>4. QED
      BY <2>2, <2>9, <3>1, <3>2, <3>3
  <2>14. QED
    BY <2>6, <2>9, <2>12, <2>13
<1> HIDE DEF N
<1>9. N = Nat
  <2>1. N \in SUBSET Nat
    BY DEF N
  <2>2. QED
    BY <1>7, <1>8, <2>1, SetInduction
<1>10. n = Words * (n \div Words) + T[Field]
  <2>1. Field \in N /\ Field <= Field
    BY <1>9, PowerIs
  <2>2. QED
    BY <2>1, WordsIs DEF N
<1>11. n \div Words = 0
  <2>1. PICK w \in Nat \ {0} : w = Words
    BY WordsIs
  <2>2. n = w * 0 + n /\ n \in 0 .. w - 1 /\ n \in Int
    BY <1>2, <2>1
  <2>3. n \div w = 0
    BY <2>2, QuotientIs
  <2>4. QED
    BY <2>1, <2>3
<1>12. T[Field] = n
  <2>1. Field \in 0 .. Field
    BY PowerIs
  <2>2. PICK t \in Int, w \in Int : t = T[Field] /\ w = Words
    BY <1>6, <2>1, WordsIs
  <2>3. n = w * 0 + t
    BY <1>10, <1>11, <2>2
  <2>4. QED
    BY <1>2, <2>2, <2>3
<1>13. QED
  BY <1>1, <1>4, <1>5, <1>12

\* Absolute and relative again.
LEMMA ThereAndBack ==
  ASSUME NEW x \in 0 .. Words - 1, NEW a \in Int
  PROVE  (x + a) % Words \in 0 .. Words - 1 /\ (((x + a) % Words) - a) % Words = x
<1>1. PICK w \in Nat \ {0} : w = Words
  BY WordsIs
<1>2. PICK y \in Int : y = x + a
  BY <1>1
<1>3. PICK q \in Int, r \in 0 .. w - 1 : y = w * q + r /\ r = y % w
  BY <1>1, <1>2, QuotientExists
<1>4. PICK z \in Int, m \in Int : z = r - a /\ m = 0 - q
  <2>1. r - a \in Int /\ 0 - q \in Int
    OBVIOUS
  <2>2. QED
    BY <2>1
<1>5. z = w * m + x
  <2>1. w * m = 0 - w * q
    BY <1>1, <1>3, <1>4
  <2>2. PICK e \in Int : e = w * q
    BY <1>1, <1>3
  <2>3. x \in Int
    BY <1>1
  <2>4. z = (0 - e) + x
    BY <1>2, <1>3, <1>4, <2>2, <2>3
  <2>5. QED
    BY <2>1, <2>2, <2>4
<1>6. z % w = x
  <2>1. x \in 0 .. w - 1 /\ z \in Int /\ m \in Int
    BY <1>1
  <2>2. QED
    BY <1>1, <1>5, <2>1, QuotientIs
<1>7. QED
  BY <1>1, <1>2, <1>3, <1>4, <1>6

-----------------------------------------------------------------------------
(* Operands in code.                                                       *)

\* An operand at address f is inside of code of n bytes; its bytes, and their places.
Fits(f, n) == f \in Int /\ low_addr <= f /\ f - low_addr + Field <= n
Operand(bytes, f) == [k \in 1 .. Field |-> bytes[f - low_addr + k]]
Covers(f, k) == k - (f - low_addr) \in 1 .. Field

LEMMA FieldIs == Field \in Nat \ {0}
BY SizesAssumption

LEMMA WordIs ==
  ASSUME low_addr \in Nat, NEW n \in Nat, NEW bytes \in [1 .. n -> Bytes], NEW f, Fits(f, n)
  PROVE  /\ Operand(bytes, f) \in [1 .. Field -> Bytes]
         /\ WordAt(bytes, f) = Total(Digits(Operand(bytes, f)))
         /\ WordAt(bytes, f) \in 0 .. Words - 1
         /\ DigitsOf(WordAt(bytes, f)) = Operand(bytes, f)
<1>1. PICK b : b = Operand(bytes, f)
  OBVIOUS
<1>2. ASSUME NEW k \in 1 .. Field PROVE bytes[f - low_addr + k] \in Bytes
  <2>1. f - low_addr + k \in 1 .. n
    BY PowerIs DEF Fits
  <2>2. QED
    BY <2>1
<1>3. b \in [1 .. Field -> Bytes]
  BY <1>1, <1>2 DEF Operand
<1>4. Digits(b) = [k \in 1 .. Field |-> bytes[f - low_addr + k] * Power[k - 1]]
  BY <1>1 DEF Operand, Digits
<1>5. WordAt(bytes, f) = Total(Digits(b))
  BY <1>4, SumIsTotal DEF WordAt
<1>6. QED
  BY <1>1, <1>3, <1>5, DigitsBack

LEMMA WithWordIs ==
  ASSUME low_addr \in Nat, NEW n \in Nat, NEW bytes \in [1 .. n -> Bytes], NEW f, Fits(f, n),
         NEW w \in 0 .. Words - 1, NEW x, x = WithWord(bytes, f, w)
  PROVE  /\ x \in [1 .. n -> Bytes] /\ Operand(x, f) = DigitsOf(w)
         /\ \A k \in 1 .. n : ~Covers(f, k) => x[k] = bytes[k]
<1>1. PICK d : d = DigitsOf(w) /\ d \in [1 .. Field -> Bytes]
  BY NumberBack
<1>2. \A k \in 1 .. Field : d[k] = (w \div Power[k - 1]) % ByteValues
  BY <1>1 DEF DigitsOf
<1>3. x = [k \in 1 .. n |-> IF k - (f - low_addr + 1) \in 0 .. Field - 1
                            THEN (w \div Power[k - (f - low_addr + 1)]) % ByteValues ELSE bytes[k]]
  BY DEF WithWord
<1>4. ASSUME NEW k \in 1 .. n
      PROVE  IF Covers(f, k) THEN x[k] = d[k - (f - low_addr)] ELSE x[k] = bytes[k]
  <2>1. PICK c \in Int : c = k - (f - low_addr) /\ c - 1 = k - (f - low_addr + 1)
    BY DEF Fits
  <2>2. c \in 1 .. Field <=> c - 1 \in 0 .. Field - 1
    BY <2>1, FieldIs
  <2>3. x[k] = IF c \in 1 .. Field THEN (w \div Power[c - 1]) % ByteValues ELSE bytes[k]
    BY <1>3, <2>1, <2>2
  <2>4. CASE c \in 1 .. Field
    BY <1>2, <2>1, <2>3, <2>4 DEF Covers
  <2>5. CASE c \notin 1 .. Field
    BY <2>1, <2>3, <2>5 DEF Covers
  <2>6. QED
    BY <2>4, <2>5
<1>5. \A k \in 1 .. n : x[k] \in Bytes
  BY <1>1, <1>4 DEF Covers
<1>6. x \in [1 .. n -> Bytes]
  BY <1>3, <1>5
<1>7. ASSUME NEW k \in 1 .. Field PROVE x[f - low_addr + k] = d[k]
  <2>1. PICK m \in 1 .. n : m = f - low_addr + k /\ m - (f - low_addr) = k
    <3>1. f - low_addr + k \in 1 .. n /\ (f - low_addr + k) - (f - low_addr) = k
      BY PowerIs DEF Fits
    <3>2. QED
      BY <3>1
  <2>2. Covers(f, m)
    BY <2>1 DEF Covers
  <2>3. QED
    BY <1>4, <2>1, <2>2
<1>8. Operand(x, f) = d
  BY <1>1, <1>7 DEF Operand
<1>9. QED
  BY <1>1, <1>4, <1>6, <1>8

-----------------------------------------------------------------------------
(* Calls.                                                                  *)

\* Where the scan goes on behind the j-th call.
Resume(found, j) == IF j = 0 THEN low_addr ELSE found[j] + Field

\* What the linker's scan has found in bytes, n of them.
Chain(bytes, n, found) ==
  /\ Len(found) \in Nat /\ found \in [1 .. Len(found) -> Int]
  /\ \A j \in 1 .. Len(found) :
       /\ Resume(found, j - 1) + 1 <= found[j] /\ Fits(found[j], n)
       /\ bytes[found[j] - low_addr] = CallByte
       /\ \A a \in Resume(found, j - 1) .. found[j] - 2 : bytes[a - low_addr + 1] # CallByte

LEMMA Further ==
  ASSUME NEW a \in Int, NEW b \in Int, NEW c \in Int, NEW p \in Nat, NEW m \in Nat, NEW D \in Nat,
         a + p + 2 * m <= b, b + (D + 1) + 1 <= c
  PROVE  a + (p + D) + 2 * (m + 1) <= c /\ p + D \in Nat
OBVIOUS

\* Calls are apart.
LEMMA CallsApart ==
  ASSUME low_addr \in Nat, NEW n \in Nat, NEW bytes, NEW found, Chain(bytes, n, found),
         NEW k \in 1 .. Len(found), NEW j \in k .. Len(found)
  PROVE  /\ (j - k) * (Field - 1) \in Nat
         /\ found[k] + (j - k) * (Field - 1) + 2 * (j - k) <= found[j]
<1>1. PICK D \in Nat : D = Field - 1 /\ Field = D + 1
  BY PowerIs
<1>2. PICK l \in Nat : l = Len(found) /\ \A m \in 1 .. l : found[m] \in Int
  BY DEF Chain
<1>3. \A m \in 1 .. l : Resume(found, m - 1) + 1 <= found[m]
  BY <1>2 DEF Chain
<1> DEFINE N == {m \in Nat : k + m <= l => m * D \in Nat /\ found[k] + m * D + 2 * m <= found[k + m]}
<1>4. 0 \in N
  <2>1. 0 * D = 0 /\ found[k] \in Int /\ k + 0 = k /\ 2 * 0 = 0
    BY <1>2
  <2>2. QED
    BY <2>1
<1>5. ASSUME NEW m \in N PROVE m + 1 \in N
  <2> SUFFICES ASSUME k + (m + 1) <= l
               PROVE  (m + 1) * D \in Nat /\ found[k] + (m + 1) * D + 2 * (m + 1) <= found[k + (m + 1)]
    OBVIOUS
  <2>1. PICK h \in 1 .. l : h = k + m /\ h + 1 = k + (m + 1) /\ h + 1 \in 1 .. l /\ (h + 1) - 1 = h /\ h # 0
    BY <1>2
  <2>2. PICK p \in Nat : p = m * D /\ found[k] + p + 2 * m <= found[h]
    BY <2>1
  <2>3. (m + 1) * D = p + D
    BY <1>1, <2>2
  <2>4. found[h] + Field + 1 <= found[h + 1]
    BY <1>3, <2>1 DEF Resume
  <2>5. found[h] \in Int /\ found[h + 1] \in Int /\ found[k] \in Int /\ m \in Nat
    BY <1>2, <2>1
  <2>6. PICK a \in Int, b \in Int, c \in Int : a = found[k] /\ b = found[h] /\ c = found[h + 1]
    BY <2>5
  <2>7. a + p + 2 * m <= b /\ b + (D + 1) + 1 <= c /\ m \in Nat /\ p \in Nat
    BY <1>1, <2>2, <2>4, <2>5, <2>6
  <2>9. a + (p + D) + 2 * (m + 1) <= c /\ p + D \in Nat
    BY <2>7, Further
  <2>8. QED
    BY <2>1, <2>3, <2>6, <2>9
<1> HIDE DEF N
<1>6. N = Nat
  <2>1. N \in SUBSET Nat
    BY DEF N
  <2>2. QED
    BY <1>4, <1>5, <2>1, SetInduction
<1>7. PICK m \in Nat : m = j - k /\ j = k + m /\ k + m <= l
  <2>1. j - k \in Nat /\ j = k + (j - k) /\ j <= Len(found)
    OBVIOUS
  <2>2. QED
    BY <1>2, <2>1
<1>8. m * D \in Nat /\ found[k] + m * D + 2 * m <= found[k + m]
  <2>1. m \in N
    BY <1>6
  <2>2. QED
    BY <1>7, <2>1 DEF N
<1>9. QED
  BY <1>1, <1>7, <1>8

\* An address has one operand at most, and no call byte of the scan is in one.
LEMMA OneOperand ==
  ASSUME low_addr \in Nat, NEW n \in Nat, NEW bytes, NEW found, Chain(bytes, n, found),
         NEW j \in 1 .. Len(found), NEW m \in 1 .. Len(found), NEW k \in Int
  PROVE  /\ Covers(found[j], k) /\ Covers(found[m], k) => j = m
         /\ Resume(found, m - 1) - low_addr < k /\ k <= found[m] - low_addr => ~Covers(found[j], k)
<1>1. PICK l \in Nat : l = Len(found) /\ j \in 1 .. l /\ m \in 1 .. l /\ \A h \in 1 .. l : found[h] \in Int
  BY DEF Chain
<1>2. PICK D \in Nat : D = Field - 1 /\ Field = D + 1
  BY PowerIs
<1>3. \A g \in 1 .. l : \A h \in g + 1 .. l : found[g] + Field < found[h]
  <2> SUFFICES ASSUME NEW g \in 1 .. l, NEW h \in g + 1 .. l PROVE found[g] + Field < found[h]
    OBVIOUS
  <2>1. h \in g .. l /\ h \in 1 .. l /\ g + 1 \in 1 .. l /\ h \in g + 1 .. l /\ (g + 1) - 1 = g /\ g # 0
    BY <1>1
  <2>2. (h - (g + 1)) * (Field - 1) \in Nat
        /\ found[g + 1] + (h - (g + 1)) * (Field - 1) + 2 * (h - (g + 1)) <= found[h]
    BY <1>1, <2>1, CallsApart
  <2>3. PICK p \in Nat, q \in Nat : p = (h - (g + 1)) * (Field - 1) /\ q = 2 * (h - (g + 1))
    BY <2>1, <2>2
  <2>4. found[g] + Field + 1 <= found[g + 1]
    BY <1>1, <2>1 DEF Chain, Resume
  <2>5. PICK a \in Int, b \in Int, c \in Int : a = found[g] /\ b = found[g + 1] /\ c = found[h]
    BY <1>1, <2>1
  <2>6. b + p + q <= c /\ a + Field + 1 <= b
    BY <2>2, <2>3, <2>4, <2>5
  <2>7. a + Field < c
    BY <1>2, <2>6
  <2>8. QED
    BY <2>5, <2>7
<1>4. PICK a \in Int, b \in Int : a = found[j] /\ b = found[m]
  BY <1>1
<1>5. Covers(a, k) <=> a - low_addr + 1 <= k /\ k <= a - low_addr + Field
  BY <1>2 DEF Covers
<1>6. Covers(b, k) <=> b - low_addr + 1 <= k /\ k <= b - low_addr + Field
  BY <1>2 DEF Covers
<1>7. (j < m => a + Field < b) /\ (m < j => b + Field < a)
  <2>1. (j < m => m \in j + 1 .. l) /\ (m < j => j \in m + 1 .. l)
    BY <1>1
  <2>2. QED
    BY <1>1, <1>3, <1>4, <2>1
<1>8. ASSUME Covers(a, k), Covers(b, k) PROVE j = m
  BY <1>1, <1>2, <1>5, <1>6, <1>7, <1>8
<1>9. ASSUME Resume(found, m - 1) - low_addr < k, k <= b - low_addr PROVE ~Covers(a, k)
  <2>1. CASE m <= j
    <3>1. b <= a
      BY <1>1, <1>2, <1>4, <1>7, <2>1
    <3>2. QED
      BY <1>5, <1>9, <3>1
  <2>2. CASE j < m
    <3>1. m - 1 \in 1 .. l /\ m - 1 # 0
      BY <1>1, <2>2
    <3>2. PICK c \in Int : c = found[m - 1] /\ Resume(found, m - 1) = c + Field
      BY <1>1, <3>1 DEF Resume
    <3>3. a <= c
      <4>1. CASE j = m - 1
        BY <1>4, <3>2, <4>1
      <4>2. CASE j # m - 1
        <5>1. m - 1 \in j + 1 .. l
          BY <1>1, <2>2, <4>2
        <5>2. a + Field < c
          BY <1>1, <1>3, <1>4, <3>2, <5>1
        <5>3. QED
          BY <1>2, <5>2
      <4>3. QED
        BY <4>1, <4>2
    <3>4. (c + Field) - low_addr < k
      <4>1. Resume(found, m - 1) - low_addr = (c + Field) - low_addr
        BY <3>2, Zenon
      <4>2. QED
        BY <1>9, <4>1
    <3>5. QED
      BY <1>2, <1>5, <3>3, <3>4
  <2>3. QED
    BY <1>1, <2>1, <2>2
<1>10. QED
  BY <1>4, <1>8, <1>9

-----------------------------------------------------------------------------
(* Translated code.                                                        *)

\* What the linker makes of the operand at f.
AbsoluteOf(orig, f) == (WordAt(orig, f) + f) % Words

\* The operands of the calls behind from, up to the call to, are absolute.
Shape(bytes, orig, n, found, from, to) ==
  /\ bytes \in [1 .. n -> Bytes]
  /\ \A j \in from + 1 .. to : Operand(bytes, found[j]) = DigitsOf(AbsoluteOf(orig, found[j]))
  /\ \A k \in 1 .. n : (\A j \in from + 1 .. to : ~Covers(found[j], k)) => bytes[k] = orig[k]

LEMMA ShapeNone ==
  ASSUME NEW n \in Nat, NEW orig \in [1 .. n -> Bytes], NEW bytes, NEW found, NEW t \in Nat
  PROVE  Shape(bytes, orig, n, found, t, t) <=> bytes = orig
<1>1. \A j \in t + 1 .. t : FALSE
  OBVIOUS
<1>2. ASSUME Shape(bytes, orig, n, found, t, t) PROVE bytes = orig
  BY <1>1, <1>2 DEF Shape
<1>3. ASSUME bytes = orig PROVE Shape(bytes, orig, n, found, t, t)
  BY <1>1, <1>3 DEF Shape
<1>4. QED
  BY <1>2, <1>3

\* Bytes of an operand.
LEMMA OperandPlaces ==
  ASSUME low_addr \in Nat, NEW n \in Nat, NEW f, Fits(f, n)
  PROVE  /\ \A c \in 1 .. Field : f - low_addr + c \in 1 .. n /\ Covers(f, f - low_addr + c)
         /\ \A k \in 1 .. n : Covers(f, k) =>
              \E c \in 1 .. Field : c = k - (f - low_addr) /\ k = f - low_addr + c
<1>1. PICK d \in Nat : d = f - low_addr /\ d + Field <= n
  BY DEF Fits
<1>2. \A c \in 1 .. Field : d + c \in 1 .. n /\ (d + c) - d = c
  BY <1>1, FieldIs
<1>3. \A k \in 1 .. n : k - d \in 1 .. Field => k = d + (k - d)
  BY <1>1
<1>4. QED
  BY <1>1, <1>2, <1>3 DEF Covers

\* Operands with the same bytes are the same words.
LEMMA SameWord ==
  ASSUME low_addr \in Nat, NEW n \in Nat, NEW a \in [1 .. n -> Bytes], NEW b \in [1 .. n -> Bytes],
         NEW f, Fits(f, n), \A k \in 1 .. n : Covers(f, k) => a[k] = b[k]
  PROVE  Operand(a, f) = Operand(b, f) /\ WordAt(a, f) = WordAt(b, f)
<1>1. Operand(a, f) = Operand(b, f)
  BY OperandPlaces DEF Operand
<1>2. QED
  BY <1>1, WordIs

LEMMA FoundFits ==
  ASSUME NEW n \in Nat, NEW orig, NEW found, Chain(orig, n, found), NEW j \in 1 .. Len(found)
  PROVE  Fits(found[j], n) /\ found[j] \in Int
BY DEF Chain

LEMMA ShapeMore ==
  ASSUME low_addr \in Nat, NEW n \in Nat, NEW orig \in [1 .. n -> Bytes], NEW found,
         Chain(orig, n, found), NEW m \in Nat, m + 1 <= Len(found), NEW bytes,
         Shape(bytes, orig, n, found, 0, m), NEW f, f = found[m + 1],
         NEW x, x = WithWord(bytes, f, (WordAt(bytes, f) + f) % Words)
  PROVE  Shape(x, orig, n, found, 0, m + 1)
<1>1. PICK l \in Nat : l = Len(found) /\ m + 1 \in 1 .. l /\ \A j \in 1 .. m + 1 : j \in 1 .. l
  <2>1. Len(found) \in Nat
    BY DEF Chain
  <2>2. QED
    BY <2>1
<1>2. Fits(f, n) /\ f \in Int /\ \A j \in 1 .. l : Fits(found[j], n) /\ found[j] \in Int
  BY <1>1, FoundFits
<1>3. bytes \in [1 .. n -> Bytes]
  BY DEF Shape
<1>4. \A k \in 1 .. n : \A j \in 1 .. m : Covers(f, k) => ~Covers(found[j], k)
  <2> SUFFICES ASSUME NEW k \in 1 .. n, NEW j \in 1 .. m, Covers(f, k), Covers(found[j], k) PROVE FALSE
    OBVIOUS
  <2>1. j \in 1 .. l /\ j # m + 1 /\ k \in Int
    BY <1>1
  <2>2. QED
    BY <1>1, <2>1, OneOperand
<1>5. \A k \in 1 .. n : Covers(f, k) => bytes[k] = orig[k]
  <2>1. \A j \in 0 + 1 .. m : j \in 1 .. m
    OBVIOUS
  <2>2. QED
    BY <1>4, <2>1 DEF Shape
<1>6. WordAt(bytes, f) = WordAt(orig, f)
  BY <1>2, <1>3, <1>5, SameWord
<1>7. WordAt(orig, f) \in 0 .. Words - 1
  BY <1>2, WordIs
<1>8. PICK w \in 0 .. Words - 1 : w = AbsoluteOf(orig, f)
  BY <1>2, <1>7, ThereAndBack DEF AbsoluteOf
<1>9. /\ x \in [1 .. n -> Bytes] /\ Operand(x, f) = DigitsOf(w)
      /\ \A k \in 1 .. n : ~Covers(f, k) => x[k] = bytes[k]
  <2>1. x = WithWord(bytes, f, w)
    BY <1>6, <1>8 DEF AbsoluteOf
  <2>2. QED
    BY <1>2, <1>3, <2>1, WithWordIs
<1>10. ASSUME NEW j \in 0 + 1 .. m + 1
       PROVE  Operand(x, found[j]) = DigitsOf(AbsoluteOf(orig, found[j]))
  <2>1. CASE j = m + 1
    BY <1>8, <1>9, <2>1
  <2>2. CASE j # m + 1
    <3>1. j \in 1 .. m /\ j \in 0 + 1 .. m /\ j \in 1 .. l
      BY <1>1, <2>2
    <3>2. \A k \in 1 .. n : Covers(found[j], k) => x[k] = bytes[k]
      BY <1>4, <1>9, <3>1
    <3>3. Operand(x, found[j]) = Operand(bytes, found[j])
      <4>1. PICK g : g = found[j] /\ Fits(g, n) /\ \A k \in 1 .. n : Covers(g, k) => x[k] = bytes[k]
        BY <1>2, <3>1, <3>2
      <4>2. Operand(x, g) = Operand(bytes, g)
        BY <1>3, <1>9, <4>1, SameWord
      <4>3. QED
        BY <4>1, <4>2
    <3>4. QED
      BY <3>1, <3>3 DEF Shape
  <2>3. QED
    BY <2>1, <2>2
<1>11. ASSUME NEW k \in 1 .. n, \A j \in 0 + 1 .. m + 1 : ~Covers(found[j], k) PROVE x[k] = orig[k]
  <2>1. m + 1 \in 0 + 1 .. m + 1 /\ \A j \in 0 + 1 .. m : j \in 0 + 1 .. m + 1
    OBVIOUS
  <2>2. ~Covers(f, k) /\ \A j \in 0 + 1 .. m : ~Covers(found[j], k)
    BY <1>11, <2>1
  <2>3. QED
    BY <1>9, <2>2 DEF Shape
<1>12. QED
  BY <1>9, <1>10, <1>11 DEF Shape

\* The loader undoes the first of the calls that are left.
LEMMA ShapeLess ==
  ASSUME low_addr \in Nat, NEW n \in Nat, NEW orig \in [1 .. n -> Bytes], NEW found,
         Chain(orig, n, found), NEW last \in 1 .. Len(found), NEW m \in Nat, m < last, NEW bytes,
         Shape(bytes, orig, n, found, m, last), NEW f, f = found[m + 1],
         NEW x, x = WithWord(bytes, f, (WordAt(bytes, f) - f) % Words)
  PROVE  Shape(x, orig, n, found, m + 1, last)
<1>1. PICK l \in Nat : l = Len(found) /\ m + 1 \in 1 .. l /\ m + 1 \in m + 1 .. last
                       /\ \A j \in m + 1 .. last : j \in 1 .. l
  <2>1. Len(found) \in Nat
    BY DEF Chain
  <2>2. QED
    BY <2>1
<1>2. Fits(f, n) /\ f \in Int /\ \A j \in 1 .. l : Fits(found[j], n) /\ found[j] \in Int
  BY <1>1, FoundFits
<1>3. bytes \in [1 .. n -> Bytes]
  BY DEF Shape
<1>4. PICK w \in 0 .. Words - 1 : w = WordAt(orig, f)
  BY <1>2, WordIs
<1>5. PICK t \in 0 .. Words - 1 : t = AbsoluteOf(orig, f) /\ (t - f) % Words = w
  BY <1>2, <1>4, ThereAndBack DEF AbsoluteOf
<1>6. WordAt(bytes, f) = t
  <2>1. Operand(bytes, f) = DigitsOf(t)
    BY <1>1, <1>5 DEF Shape
  <2>2. WordAt(bytes, f) = Total(Digits(DigitsOf(t)))
    BY <1>2, <1>3, <2>1, WordIs
  <2>3. QED
    BY <2>2, NumberBack
<1>7. x = WithWord(bytes, f, w)
  BY <1>5, <1>6
<1>8. /\ x \in [1 .. n -> Bytes] /\ Operand(x, f) = DigitsOf(w)
      /\ \A k \in 1 .. n : ~Covers(f, k) => x[k] = bytes[k]
  BY <1>2, <1>3, <1>7, WithWordIs
<1>9. Operand(x, f) = Operand(orig, f)
  BY <1>2, <1>4, <1>8, WordIs
<1>10. ASSUME NEW k \in 1 .. n, Covers(f, k) PROVE x[k] = orig[k]
  <2>1. PICK c \in 1 .. Field : k = f - low_addr + c
    BY <1>2, <1>10, OperandPlaces
  <2>2. Operand(x, f)[c] = x[k] /\ Operand(orig, f)[c] = orig[k]
    BY <2>1 DEF Operand
  <2>3. QED
    BY <1>9, <2>2
<1>11. ASSUME NEW j \in (m + 1) + 1 .. last
       PROVE  Operand(x, found[j]) = DigitsOf(AbsoluteOf(orig, found[j]))
  <2>1. j \in m + 1 .. last /\ j \in 1 .. l /\ j # m + 1
    BY <1>1
  <2>2. \A k \in 1 .. n : Covers(found[j], k) => x[k] = bytes[k]
    <3> SUFFICES ASSUME NEW k \in 1 .. n, Covers(found[j], k) PROVE x[k] = bytes[k]
      OBVIOUS
    <3>1. k \in Int
      OBVIOUS
    <3>2. ~Covers(f, k)
      BY <1>1, <2>1, <3>1, OneOperand
    <3>3. QED
      BY <1>8, <3>2
  <2>3. Operand(x, found[j]) = Operand(bytes, found[j])
    <3>1. PICK g : g = found[j] /\ Fits(g, n) /\ \A k \in 1 .. n : Covers(g, k) => x[k] = bytes[k]
      BY <1>2, <2>1, <2>2
    <3>2. Operand(x, g) = Operand(bytes, g)
      BY <1>3, <1>8, <3>1, SameWord, ZenonT(30)
    <3>3. QED
      BY <3>1, <3>2
  <2>4. QED
    BY <2>1, <2>3 DEF Shape
<1>12. ASSUME NEW k \in 1 .. n, \A j \in (m + 1) + 1 .. last : ~Covers(found[j], k) PROVE x[k] = orig[k]
  <2>1. CASE Covers(f, k)
    BY <1>10, <2>1
  <2>2. CASE ~Covers(f, k)
    <3>1. \A j \in m + 1 .. last : j = m + 1 \/ j \in (m + 1) + 1 .. last
      OBVIOUS
    <3>2. \A j \in m + 1 .. last : ~Covers(found[j], k)
      BY <1>12, <2>2, <3>1
    <3>3. QED
      BY <1>8, <2>2, <3>2 DEF Shape
  <2>3. QED
    BY <2>1, <2>2
<1>13. QED
  BY <1>8, <1>11, <1>12 DEF Shape

\* What the scans see is what was linked.
LEMMA ScanSees ==
  ASSUME low_addr \in Nat, NEW n \in Nat, NEW orig \in [1 .. n -> Bytes], NEW found,
         Chain(orig, n, found), NEW last \in 1 .. Len(found), NEW m \in Nat, m < last, NEW bytes,
         Shape(bytes, orig, n, found, m, last), NEW a \in Resume(found, m) .. found[m + 1] - 1
  PROVE  bytes[a - low_addr + 1] = orig[a - low_addr + 1]
<1>1. PICK l \in Nat : l = Len(found) /\ m + 1 \in 1 .. l /\ (m + 1) - 1 = m
                       /\ \A j \in m + 1 .. last : j \in 1 .. l
  <2>1. Len(found) \in Nat
    BY DEF Chain
  <2>2. QED
    BY <2>1
<1>2. /\ \A j \in 1 .. l : Fits(found[j], n) /\ found[j] \in Int
  BY <1>1, FoundFits
<1>3. Resume(found, m) \in Int /\ low_addr <= Resume(found, m)
  <2>1. CASE m = 0
    BY <2>1 DEF Resume
  <2>2. CASE m # 0
    <3>1. m \in 1 .. l
      BY <1>1, <2>2
    <3>2. QED
      BY <1>2, <2>2, <3>1, FieldIs DEF Resume, Fits
  <2>3. QED
    BY <2>1, <2>2
<1>4. PICK r \in Int, b \in Int : r = Resume(found, m) /\ b = found[m + 1] /\ low_addr <= r
  BY <1>1, <1>2, <1>3
<1>5. b - low_addr + Field <= n
  BY <1>1, <1>2, <1>4 DEF Fits
<1>6. PICK k \in 1 .. n : k = a - low_addr + 1 /\ r - low_addr < k /\ k <= b - low_addr
  <2>1. a \in Int /\ r <= a /\ a <= b - 1
    BY <1>4
  <2>2. a - low_addr + 1 \in 1 .. n /\ r - low_addr < a - low_addr + 1 /\ a - low_addr + 1 <= b - low_addr
    BY <1>4, <1>5, <2>1, FieldIs, SMTT(20)
  <2>3. QED
    BY <2>2
<1>7. ASSUME NEW j \in m + 1 .. last PROVE ~Covers(found[j], k)
  <2>1. j \in 1 .. l /\ k \in Int
    BY <1>1
  <2>2. Resume(found, (m + 1) - 1) - low_addr < k /\ k <= found[m + 1] - low_addr
    BY <1>1, <1>4, <1>6
  <2>3. QED
    BY <1>1, <2>1, <2>2, OneOperand
<1>8. QED
  BY <1>6, <1>7 DEF Shape

-----------------------------------------------------------------------------
(* The linker's loop.                                                      *)

\* The n-th call is translated, and the first ones up to last.
TranslateOne(bytes, found, n) == WithWord(bytes, found[n], (WordAt(bytes, found[n]) + found[n]) % Words)
TranslateAll(orig, found, last) ==
  FoldLeft(LAMBDA bytes, n : WithWord(bytes, found[n], (WordAt(bytes, found[n]) + found[n]) % Words),
           orig, [n \in 1 .. last |-> n])

\* The loop, by the calls that are done.
Translating(F, orig, found, s, last) ==
  F = [S \in SUBSET (1 .. last) |->
         IF S = {} THEN orig ELSE TranslateOne(F[S \ {Max(S)}], found, s[Max(S)])]

LEMMA TranslateOneIs ==
  ASSUME low_addr \in Nat, NEW n \in Nat, NEW orig, NEW found, Chain(orig, n, found),
         NEW bytes \in [1 .. n -> Bytes], NEW j \in 1 .. Len(found)
  PROVE  TranslateOne(bytes, found, j) \in [1 .. n -> Bytes]
<1>1. PICK f \in Int : f = found[j] /\ Fits(f, n)
  BY FoundFits
<1>2. WordAt(bytes, f) \in 0 .. Words - 1
  BY <1>1, WordIs
<1>3. PICK w \in 0 .. Words - 1 : w = (WordAt(bytes, f) + f) % Words
  BY <1>2, ThereAndBack
<1>4. WithWord(bytes, f, w) \in [1 .. n -> Bytes]
  BY <1>1, WithWordIs
<1>5. QED
  BY <1>1, <1>3, <1>4 DEF TranslateOne

LEMMA TranslateAllIs ==
  ASSUME low_addr \in Nat, NEW n \in Nat, NEW orig \in [1 .. n -> Bytes], NEW found,
         Chain(orig, n, found), NEW last \in 1 .. Len(found)
  PROVE  Shape(TranslateAll(orig, found, last), orig, n, found, 0, last)
<1>1. PICK l \in Nat : l = Len(found) /\ last \in Nat /\ last \in 1 .. l /\ \A j \in 1 .. last : j \in 1 .. l
  <2>1. Len(found) \in Nat
    BY DEF Chain
  <2>2. QED
    BY <2>1
<1>2. PICK s : s = [j \in 1 .. last |-> j]
  OBVIOUS
<1>11. s \in Seq(1 .. last) /\ Len(s) = last /\ DOMAIN s = 1 .. last /\ \A j \in 1 .. last : s[j] = j
  <2>1. DOMAIN s = 1 .. last /\ \A j \in 1 .. last : s[j] = j
    BY <1>2
  <2>2. s \in [1 .. last -> 1 .. last]
    BY <1>2
  <2>3. QED
    BY <1>1, <2>1, <2>2
<1> DEFINE G == CHOOSE F : Translating(F, orig, found, s, last)
<1>3. TranslateAll(orig, found, last) = G[1 .. last]
  <2>1. TranslateAll(orig, found, last)
          = FoldLeft(LAMBDA bytes, m : WithWord(bytes, found[m], (WordAt(bytes, found[m]) + found[m]) % Words),
                     orig, s)
    BY <1>2 DEF TranslateAll
  <2>2. QED
    BY <1>11, <2>1 DEF FoldLeft, MapThenFoldSet, Translating, TranslateOne
<1>4. Translating(G, orig, found, s, last)
  <2>1. PICK A : A = [1 .. n -> Bytes]
    OBVIOUS
  <2>2. PICK step : step = [p \in A \X (1 .. last) |-> TranslateOne(p[1], found, p[2])]
    OBVIOUS
  <2>3. \A a \in A : \A j \in 1 .. last : step[<<a, j>>] = TranslateOne(a, found, j)
    <3> SUFFICES ASSUME NEW a \in A, NEW j \in 1 .. last PROVE step[<<a, j>>] = TranslateOne(a, found, j)
      OBVIOUS
    <3>1. <<a, j>> \in A \X (1 .. last)
      OBVIOUS
    <3>2. step[<<a, j>>] = TranslateOne(<<a, j>>[1], found, <<a, j>>[2])
      BY <2>2, <3>1, Zenon
    <3>3. QED
      BY <3>2
  <2>4. Keeps(step, orig, A, 1 .. last)
    <3>1. \A a \in A : \A j \in 1 .. last : TranslateOne(a, found, j) \in A
      BY <1>1, <2>1, TranslateOneIs
    <3>2. step \in [A \X (1 .. last) -> A]
      BY <2>2, <3>1
    <3>3. QED
      BY <2>1, <3>2 DEF Keeps
  <2>5. PICK H \in [SUBSET (1 .. last) -> A] : Run(H, step, orig, s)
    BY <1>11, <2>4, RunExists
  <2>6. \A S \in SUBSET (1 .. last) : S # {} =>
          step[<<H[S \ {Max(S)}], s[Max(S)]>>] = TranslateOne(H[S \ {Max(S)}], found, s[Max(S)])
    <3> SUFFICES ASSUME NEW S \in SUBSET (1 .. last), S # {}
                 PROVE  step[<<H[S \ {Max(S)}], s[Max(S)]>>] = TranslateOne(H[S \ {Max(S)}], found, s[Max(S)])
      OBVIOUS
    <3>1. PICK m \in 1 .. last : m = Max(S)
      BY <1>1, GreatestIndex
    <3>2. H[S \ {m}] \in A /\ s[m] = m
      BY <1>11
    <3>3. QED
      BY <2>3, <3>1, <3>2
  <2>7. Translating(H, orig, found, s, last)
    BY <1>11, <2>5, <2>6 DEF Run, RunTo, Translating
  <2>8. QED
    BY <2>7
<1> HIDE DEF G
<1>5. G[{}] = orig /\ \A S \in SUBSET (1 .. last) :
        S # {} => G[S] = TranslateOne(G[S \ {Max(S)}], found, s[Max(S)])
  BY <1>4 DEF Translating
<1> DEFINE N == {m \in Nat : m <= last => Shape(G[1 .. m], orig, n, found, 0, m)}
<1>6. 0 \in N
  <2>1. 1 .. 0 = {}
    OBVIOUS
  <2>2. Shape(orig, orig, n, found, 0, 0)
    BY ShapeNone
  <2>3. QED
    BY <1>5, <2>1, <2>2
<1>7. ASSUME NEW m \in N PROVE m + 1 \in N
  <2> SUFFICES ASSUME m + 1 <= last PROVE Shape(G[1 .. m + 1], orig, n, found, 0, m + 1)
    OBVIOUS
  <2>1. m \in Nat /\ m <= last /\ Shape(G[1 .. m], orig, n, found, 0, m) /\ m + 1 <= Len(found)
    BY <1>1
  <2>2. /\ 1 .. m + 1 \in SUBSET (1 .. last) /\ 1 .. m + 1 # {}
        /\ Max(1 .. m + 1) = m + 1 /\ (1 .. m + 1) \ {m + 1} = 1 .. m
    BY <1>1, <2>1, LastIndex
  <2>3. G[1 .. m + 1] = TranslateOne(G[1 .. m], found, m + 1)
    <3>1. m + 1 \in 1 .. last
      BY <1>1, <2>1
    <3>2. s[m + 1] = m + 1
      BY <1>11, <3>1
    <3>3. QED
      BY <1>5, <2>2, <3>2
  <2>4. PICK b, f : b = G[1 .. m] /\ f = found[m + 1]
    OBVIOUS
  <2>5. G[1 .. m + 1] = WithWord(b, f, (WordAt(b, f) + f) % Words)
    BY <2>3, <2>4 DEF TranslateOne
  <2>6. QED
    BY <2>1, <2>4, <2>5, ShapeMore
<1> HIDE DEF N
<1>8. N = Nat
  <2>1. N \in SUBSET Nat
    BY DEF N
  <2>2. QED
    BY <1>6, <1>7, <2>1, SetInduction
<1>9. last \in N /\ last <= last
  BY <1>1, <1>8
<1>10. QED
  BY <1>3, <1>9 DEF N

-----------------------------------------------------------------------------
(* The scans.                                                              *)

LEMMA ResumeIs ==
  ASSUME low_addr \in Nat, NEW n \in Nat, NEW orig, NEW found, Chain(orig, n, found),
         NEW j \in 0 .. Len(found)
  PROVE  Resume(found, j) \in Nat /\ low_addr <= Resume(found, j) /\ Resume(found, j) <= low_addr + n
<1>1. CASE j = 0
  BY <1>1 DEF Resume
<1>2. CASE j # 0
  <2>1. j \in 1 .. Len(found)
    BY <1>2 DEF Chain
  <2>2. PICK f \in Int : f = found[j] /\ Fits(f, n)
    BY <2>1, FoundFits
  <2>3. Resume(found, j) = f + Field
    BY <1>2, <2>2 DEF Resume
  <2>4. QED
    BY <2>2, <2>3, FieldIs DEF Fits
<1>3. QED
  BY <1>1, <1>2

\* One more call is found.
LEMMA ChainMore ==
  ASSUME low_addr \in Nat, NEW n \in Nat, NEW orig, NEW found, Chain(orig, n, found),
         NEW f \in Int, Resume(found, Len(found)) + 1 <= f, Fits(f, n),
         orig[f - low_addr] = CallByte,
         \A a \in Resume(found, Len(found)) .. f - 2 : orig[a - low_addr + 1] # CallByte
  PROVE  /\ Chain(orig, n, Append(found, f)) /\ Len(Append(found, f)) = Len(found) + 1
         /\ Resume(Append(found, f), Len(found) + 1) = f + Field
<1>1. PICK l \in Nat : l = Len(found)
  BY DEF Chain
<1>2. found \in Seq(Int) /\ found \in [1 .. l -> Int]
  <2>1. found \in [1 .. l -> Int]
    BY <1>1 DEF Chain
  <2>2. QED
    BY <1>1, <2>1
<1>3. PICK t : t = Append(found, f)
  OBVIOUS
<1>4. /\ t \in [1 .. l + 1 -> Int] /\ Len(t) = l + 1
      /\ \A j \in 1 .. l : t[j] = found[j]
      /\ t[l + 1] = f
  <2>1. PICK s \in Seq(Int) : s = found /\ Len(s) = l
    BY <1>1, <1>2
  <2>2. /\ Append(s, f) \in Seq(Int) /\ Len(Append(s, f)) = l + 1
        /\ \A j \in 1 .. l : Append(s, f)[j] = s[j]
        /\ Append(s, f)[l + 1] = f
    BY <2>1
  <2>3. t \in Seq(Int) /\ Len(t) = l + 1
    BY <1>3, <2>1, <2>2
  <2>4. t \in [1 .. l + 1 -> Int]
    BY <2>3
  <2>5. QED
    BY <1>3, <2>1, <2>2, <2>4
<1>5. \A j \in 0 .. l : Resume(t, j) = Resume(found, j)
  <2> SUFFICES ASSUME NEW j \in 0 .. l PROVE Resume(t, j) = Resume(found, j)
    OBVIOUS
  <2>1. j # 0 => j \in 1 .. l
    BY <1>1
  <2>2. QED
    BY <1>4, <2>1 DEF Resume
<1>6. ASSUME NEW j \in 1 .. l + 1
      PROVE  /\ Resume(t, j - 1) + 1 <= t[j] /\ Fits(t[j], n)
             /\ orig[t[j] - low_addr] = CallByte
             /\ \A a \in Resume(t, j - 1) .. t[j] - 2 : orig[a - low_addr + 1] # CallByte
  <2>1. CASE j = l + 1
    <3>1. j - 1 = l /\ l \in 0 .. l /\ t[j] = f
      BY <1>1, <1>4, <2>1
    <3>2. Resume(t, j - 1) = Resume(found, l)
      BY <1>5, <3>1
    <3>3. QED
      BY <1>1, <3>1, <3>2
  <2>2. CASE j # l + 1
    <3>1. j \in 1 .. l /\ j - 1 \in 0 .. l
      BY <1>1, <2>2
    <3>2. Resume(t, j - 1) = Resume(found, j - 1) /\ t[j] = found[j]
      BY <1>4, <1>5, <3>1
    <3>3. QED
      BY <1>1, <3>1, <3>2 DEF Chain
  <2>3. QED
    BY <2>1, <2>2
<1>7. Chain(orig, n, t)
  BY <1>4, <1>6 DEF Chain
<1>8. Resume(t, l + 1) = f + Field
  BY <1>1, <1>4 DEF Resume
<1>9. QED
  BY <1>1, <1>3, <1>4, <1>7, <1>8

LEMMA Counts ==
  ASSUME NEW r \in Nat, NEW a \in Int, NEW b \in Int, NEW p \in Nat, NEW D \in Nat,
         NEW x \in Int, NEW y \in Int, r + 1 <= a, a + p <= b,
         x = ((b + (D + 1)) - r) - (p + D), y = ((b + (D + 1)) - (a + (D + 1))) - p
  PROVE  x \in Nat \ {0} /\ a <= (r + x) - 1 /\ (x - (((a - 1) - r) + 1)) - 1 = y
OBVIOUS

\* What the loader's count is when m of the calls are restored.
LeftAt(found, m, last) == (found[last] + Field) - Resume(found, m) - (last - m) * (Field - 1)

LEMMA CountEnough ==
  ASSUME low_addr \in Nat, NEW n \in Nat, NEW orig, NEW found, Chain(orig, n, found),
         NEW last \in 1 .. Len(found), NEW m \in Nat, m < last
  PROVE  /\ LeftAt(found, m, last) \in Nat \ {0}
         /\ found[m + 1] <= (Resume(found, m) + LeftAt(found, m, last)) - 1
         /\ (LeftAt(found, m, last) - (((found[m + 1] - 1) - Resume(found, m)) + 1)) - 1
              = LeftAt(found, m + 1, last)
<1>1. PICK l \in Nat : l = Len(found) /\ last \in Nat /\ m + 1 \in 1 .. l /\ last \in m + 1 .. l /\ m \in 0 .. l
                       /\ (m + 1) - 1 = m /\ \A j \in 1 .. l : found[j] \in Int
  <2>1. Len(found) \in Nat /\ \A j \in 1 .. Len(found) : found[j] \in Int
    BY DEF Chain
  <2>2. QED
    BY <2>1
<1>2. PICK r \in Nat : r = Resume(found, m)
  BY <1>1, ResumeIs
<1>3. PICK a \in Int, b \in Int : a = found[m + 1] /\ b = found[last] /\ r + 1 <= a
  BY <1>1, <1>2 DEF Chain
<1>4. PICK D \in Nat : D = Field - 1 /\ Field = D + 1
  BY FieldIs
<1>5. PICK g \in Nat : g = last - (m + 1) /\ last - m = g + 1
  BY <1>1
<1>6. PICK p \in Nat : p = g * D /\ a + p + 2 * g <= b
  <2>1. (last - (m + 1)) * (Field - 1) \in Nat
        /\ found[m + 1] + (last - (m + 1)) * (Field - 1) + 2 * (last - (m + 1)) <= found[last]
    BY <1>1, CallsApart
  <2>2. QED
    BY <1>3, <1>4, <1>5, <2>1
<1>7. (g + 1) * D = p + D
  BY <1>4, <1>5, <1>6
<1>8. PICK x \in Int : x = LeftAt(found, m, last) /\ x = ((b + (D + 1)) - r) - (p + D)
  <2>1. (last - m) * (Field - 1) = p + D
    BY <1>4, <1>5, <1>7
  <2>2. LeftAt(found, m, last) = ((b + (D + 1)) - r) - (p + D)
    BY <1>2, <1>3, <1>4, <2>1 DEF LeftAt
  <2>3. QED
    BY <2>2
<1>9. PICK y \in Int : y = LeftAt(found, m + 1, last) /\ y = ((b + (D + 1)) - (a + (D + 1))) - p
  <2>1. Resume(found, m + 1) = a + (D + 1)
    BY <1>1, <1>3, <1>4 DEF Resume
  <2>2. (last - (m + 1)) * (Field - 1) = p
    BY <1>4, <1>5, <1>6
  <2>3. LeftAt(found, m + 1, last) = ((b + (D + 1)) - (a + (D + 1))) - p
    BY <1>3, <1>4, <2>1, <2>2 DEF LeftAt
  <2>4. QED
    BY <2>3
<1>10. a + p <= b
  <2>1. a + p + 2 * g <= b /\ g \in Nat /\ p \in Nat /\ a \in Int /\ b \in Int
    BY <1>5, <1>6
  <2>2. QED
    BY <2>1
<1>11. x \in Nat \ {0} /\ a <= (r + x) - 1 /\ (x - (((a - 1) - r) + 1)) - 1 = y
  <2>1. r + 1 <= a
    BY <1>3
  <2>2. QED
    BY <1>8, <1>9, <1>10, <2>1, Counts
<1>12. QED
  BY <1>2, <1>3, <1>8, <1>9, <1>11

-----------------------------------------------------------------------------
(* Where the objects' code is.                                             *)

\* Lengths that make up the objects' code.
CodeLengths(c) == [n \in DOMAIN c |-> IF IsObjectCode(c[n]) THEN c[n].length ELSE 0]

\* It is all sections from behind the loader's code to the e-th.
CodeBehind(c, q, e) ==
  /\ q \in DOMAIN c /\ e \in DOMAIN c /\ q <= e
  /\ \A n \in DOMAIN c : c[n].obj = 2 /\ c[n].num = 1 <=> n = q
  /\ \A n \in DOMAIN c : IsObjectCode(c[n]) <=> q < n /\ n <= e
Coded(c) ==
  /\ \E q, e \in DOMAIN c : CodeBehind(c, q, e)
  /\ Total(CodeLengths(c)) = Len(program.code)

LEMMA MoreDigits ==
  ASSUME NEW a \in [1 .. 7 -> Int], NEW b \in [1 .. 7 -> Int], KeyBefore(a, b),
         \A m \in 1 .. 4 : a[m] = b[m]
  PROVE  a[5] <= b[5] /\ (a[5] = b[5] => a[6] <= b[6])
<1>1. PICK k \in 1 .. 7 : a[k] < b[k] /\ \A m \in 1 .. k - 1 : a[m] = b[m]
  BY DEF KeyBefore
<1>2. /\ a[1] \in Int /\ a[2] \in Int /\ a[3] \in Int /\ a[4] \in Int /\ a[5] \in Int /\ a[6] \in Int
      /\ b[5] \in Int /\ b[6] \in Int /\ a[1] = b[1] /\ a[2] = b[2] /\ a[3] = b[3] /\ a[4] = b[4]
  OBVIOUS
<1>3. k \notin 1 .. 4
  BY <1>1, <1>2
<1>4. CASE k = 5
  BY <1>1, <1>2, <1>4
<1>5. CASE k >= 6
  <2>1. a[5] = b[5]
    BY <1>1, <1>5
  <2>2. a[6] <= b[6]
    BY <1>1, <1>2, <1>5
  <2>3. QED
    BY <1>2, <2>1, <2>2
<1>6. QED
  BY <1>3, <1>4, <1>5

\* The loader's code comes before all of the objects', and nothing between them.
LEMMA CodeOrder ==
  ASSUME NEW s, NEW t, NEW u, Raw(s), Raw(t), Raw(u), ~onekpaq,
         s.obj = 2, SectionType(s) = TEXT, IsObjectCode(t)
  PROVE  /\ ~SectBefore(t, s)
         /\ SectBefore(s, u) /\ SectBefore(u, t) =>
              IsObjectCode(u) \/ (u.obj = 2 /\ SectionType(u) = TEXT)
<1>1. PICK a, b, d : a = SectKey(s) /\ b = SectKey(t) /\ d = SectKey(u)
  OBVIOUS
<1>2. a \in [1 .. 7 -> Int] /\ b \in [1 .. 7 -> Int] /\ d \in [1 .. 7 -> Int]
  BY <1>1, KeyIs
<1>3. s.obj \in Nat /\ t.obj \in Nat /\ u.obj \in Nat /\ TEXT = 1 /\ DoNotWant = 0
  BY DEF Raw, TEXT, DoNotWant
<1>4. SectionType(t) = TEXT /\ ~(t.obj < 3)
  BY DEF IsObjectCode, isloader
<1>5. a[1] = 0 /\ a[2] = 1 /\ a[3] = 0 /\ a[4] = 1 /\ a[5] = 0 /\ a[6] = 2
  BY <1>1, <1>3 DEF SectKey, isheader, isloader, iscompressible
<1>6. b[1] = 0 /\ b[2] = 1 /\ b[3] = 0 /\ b[4] = 1 /\ b[5] = 1
  BY <1>1, <1>3, <1>4 DEF SectKey, isheader, isloader, iscompressible
<1>7. /\ d[1] = (IF SectionType(u) = DoNotWant THEN 1 ELSE 0)
      /\ d[2] = (IF u.obj = 0 THEN 0 ELSE 1) /\ d[3] = 0 /\ d[4] = SectionType(u)
      /\ d[5] = (IF u.obj < 3 THEN 0 ELSE 1) /\ d[6] = u.obj
  BY <1>1 DEF SectKey, isheader, isloader, iscompressible
<1>8. ~SectBefore(t, s)
  <2>1. SUFFICES ASSUME KeyBefore(b, a) PROVE FALSE
    BY <1>1, BeforeIs
  <2>2. \A m \in 1 .. 4 : b[m] = a[m]
    BY <1>5, <1>6
  <2>3. b[5] <= a[5]
    BY <1>2, <2>1, <2>2, MoreDigits
  <2>4. QED
    BY <1>5, <1>6, <2>3
<1>9. ASSUME SectBefore(s, u), SectBefore(u, t)
      PROVE  IsObjectCode(u) \/ (u.obj = 2 /\ SectionType(u) = TEXT)
  <2>1. KeyBefore(a, d) /\ KeyBefore(d, b)
    BY <1>1, <1>9, BeforeIs
  <2>2. /\ a[1] <= d[1]
        /\ a[1] = d[1] => a[2] <= d[2]
        /\ a[1] = d[1] /\ a[2] = d[2] => a[3] <= d[3]
        /\ a[1] = d[1] /\ a[2] = d[2] /\ a[3] = d[3] => a[4] <= d[4]
    BY <1>2, <2>1, FirstDigits
  <2>3. /\ d[1] <= b[1]
        /\ d[1] = b[1] => d[2] <= b[2]
        /\ d[1] = b[1] /\ d[2] = b[2] => d[3] <= b[3]
        /\ d[1] = b[1] /\ d[2] = b[2] /\ d[3] = b[3] => d[4] <= b[4]
    BY <1>2, <2>1, FirstDigits
  <2>4. d[1] = 0 /\ d[2] = 1 /\ d[3] = 0
    BY <1>5, <1>6, <1>7, <2>2, <2>3
  <2>5. d[4] \in Int
    BY <1>2
  <2>6. d[4] = 1
    BY <1>5, <1>6, <2>2, <2>3, <2>4, <2>5
  <2>7. SectionType(u) = TEXT /\ u.obj # 0
    BY <1>3, <1>7, <2>4, <2>6
  <2>8. \A m \in 1 .. 4 : a[m] = d[m]
    BY <1>5, <2>4, <2>6
  <2>9. a[5] = d[5] => 2 <= u.obj
    BY <1>2, <1>5, <1>7, <2>1, <2>8, MoreDigits
  <2>10. CASE u.obj < 3
    BY <1>3, <1>5, <1>7, <2>7, <2>9, <2>10
  <2>11. CASE ~(u.obj < 3)
    BY <2>7, <2>11 DEF IsObjectCode, isloader
  <2>12. QED
    BY <2>10, <2>11
<1>10. QED
  BY <1>8, <1>9

LEMMA TotalOfNone ==
  ASSUME NEW n \in Nat, NEW s \in [1 .. n -> Int], \A k \in 1 .. n : s[k] = 0
  PROVE  Total(s) = 0
<1>1. PICK T : T = [k \in 0 .. n |-> 0]
  OBVIOUS
<1>2. s \in Seq(Int) /\ Len(s) = n
  OBVIOUS
<1>3. Sums(T, s) /\ T[Len(s)] = 0
  BY <1>1, <1>2 DEF Sums
<1>4. QED
  BY <1>2, <1>3, TotalBy

\* The loader's code is a section of its own among those that are collected, and
\* there is code of objects.
LoaderIn(c) ==
  /\ Total(CodeLengths(c)) = Len(program.code) /\ Len(program.code) # 0
  /\ \E n \in DOMAIN c : c[n].obj = 2 /\ c[n].num = 1 /\ SectionType(c[n]) = TEXT
  /\ \A n \in DOMAIN c : c[n].obj = 2 /\ SectionType(c[n]) = TEXT => c[n].num = 1

LEMMA SortedCode ==
  ASSUME NEW c, CollectedSects(c), LoaderIn(c), ~onekpaq,
         NEW rank, rank = [n \in DOMAIN c |-> Rank(c, n)]
  PROVE  Coded(InOrder(c, rank))
<1>1. PICK N \in Nat :
        /\ N = Len(c) /\ DOMAIN c = 1 .. N
        /\ \E p : /\ p \in [1 .. N -> 1 .. N] /\ \A k, l \in 1 .. N : p[k] = p[l] => k = l
                  /\ \A n \in 1 .. N : \E k \in 1 .. N : p[k] = n
                  /\ InOrder(c, rank) = [k \in 1 .. N |-> c[p[k]]]
                  /\ \A k, l \in 1 .. N : k < l => SectBefore(c[p[k]], c[p[l]])
  BY SortedIs
<1>2. PICK p :
        /\ p \in [1 .. N -> 1 .. N] /\ \A k, l \in 1 .. N : p[k] = p[l] => k = l
        /\ \A n \in 1 .. N : \E k \in 1 .. N : p[k] = n
        /\ InOrder(c, rank) = [k \in 1 .. N |-> c[p[k]]]
        /\ \A k, l \in 1 .. N : k < l => SectBefore(c[p[k]], c[p[l]])
  BY <1>1
<1>3. PICK s : s = [k \in 1 .. N |-> c[p[k]]]
  OBVIOUS
<1>4. \A n \in 1 .. N : Raw(c[n])
  BY <1>1 DEF CollectedSects
<1>5. DOMAIN s = 1 .. N /\ \A k \in 1 .. N : p[k] \in 1 .. N /\ s[k] = c[p[k]]
  BY <1>2, <1>3
<1>6. \A k \in 1 .. N : Raw(s[k])
  BY <1>4, <1>5
<1>7. ASSUME NEW k \in 1 .. N, NEW l \in 1 .. N, k < l PROVE SectBefore(s[k], s[l])
  <2>1. SectBefore(c[p[k]], c[p[l]])
    BY <1>2, <1>7
  <2>2. s[k] = c[p[k]] /\ s[l] = c[p[l]]
    BY <1>5
  <2>3. QED
    BY <2>1, <2>2
<1>8. Total(CodeLengths(s)) = Len(program.code)
  <2>1. PICK g : g = CodeLengths(c)
    OBVIOUS
  <2>2. g \in [1 .. N -> Int]
    <3>1. \A n \in 1 .. N : (IF IsObjectCode(c[n]) THEN c[n].length ELSE 0) \in Int
      BY <1>4 DEF Raw
    <3>2. g = [n \in 1 .. N |-> IF IsObjectCode(c[n]) THEN c[n].length ELSE 0]
      BY <1>1, <2>1 DEF CodeLengths
    <3>3. QED
      BY <3>1, <3>2
  <2>3. CodeLengths(s) = [k \in 1 .. N |-> g[p[k]]]
    <3>1. CodeLengths(s) = [n \in 1 .. N |-> IF IsObjectCode(s[n]) THEN s[n].length ELSE 0]
      BY <1>5 DEF CodeLengths
    <3>2. \A k \in 1 .. N : g[p[k]] = IF IsObjectCode(s[k]) THEN s[k].length ELSE 0
      BY <1>1, <1>5, <2>1 DEF CodeLengths
    <3>3. QED
      BY <3>1, <3>2
  <2>4. Permutes(p, N)
    BY <1>2 DEF Permutes
  <2>5. Total(CodeLengths(s)) = Total(g)
    <3>1. PICK h : h = CodeLengths(s)
      OBVIOUS
    <3>2. h = [k \in 1 .. N |-> g[p[k]]]
      BY <2>3, <3>1
    <3>3. Total(h) = Total(g)
      <4>1. Rearranged(h, g, p, N)
        BY <3>2 DEF Rearranged
      <4>2. QED
        BY <1>1, <2>2, <2>4, <4>1, TotalPermuted, Zenon
    <3>4. QED
      BY <3>1, <3>3
  <2>6. QED
    BY <2>1, <2>5 DEF LoaderIn
<1> DEFINE Codes == {k \in 1 .. N : IsObjectCode(s[k])}
<1>9. Codes # {}
  <2>1. SUFFICES ASSUME Codes = {} PROVE FALSE
    OBVIOUS
  <2>2. PICK h : h = CodeLengths(s)
    OBVIOUS
  <2>3. h = [n \in 1 .. N |-> 0]
    <3>1. h = [n \in 1 .. N |-> IF IsObjectCode(s[n]) THEN s[n].length ELSE 0]
      BY <1>5, <2>2 DEF CodeLengths
    <3>2. \A n \in 1 .. N : ~IsObjectCode(s[n])
      BY <2>1
    <3>3. QED
      BY <3>1, <3>2
  <2>4. h \in [1 .. N -> Int] /\ \A n \in 1 .. N : h[n] = 0
    BY <2>3
  <2>5. Total(h) = 0
    BY <2>4, TotalOfNone
  <2>6. QED
    BY <1>8, <2>2, <2>5 DEF LoaderIn
<1>10. Codes \in SUBSET (0 .. N)
  OBVIOUS
<1>11. PICK e \in Codes : \A k \in Codes : k <= e
  BY <1>9, <1>10, MaxIs
<1>12. PICK q \in 1 .. N : s[q].obj = 2 /\ s[q].num = 1 /\ SectionType(s[q]) = TEXT
  <2>1. PICK n \in 1 .. N : c[n].obj = 2 /\ c[n].num = 1 /\ SectionType(c[n]) = TEXT
    BY <1>1 DEF LoaderIn
  <2>2. PICK k \in 1 .. N : p[k] = n
    BY <1>2
  <2>3. QED
    BY <1>5, <2>1, <2>2
<1>13. ASSUME NEW n \in 1 .. N, s[n].obj = 2, s[n].num = 1 PROVE n = q
  <2>1. p[n] = p[q]
    <3>1. \A k, l \in 1 .. N : k # l => c[k].obj # c[l].obj \/ c[k].num # c[l].num
      BY <1>1, ZenonT(30) DEF CollectedSects
    <3>2. QED
      BY <1>5, <1>12, <1>13, <3>1
  <2>2. QED
    BY <1>2, <2>1
<1>14. ASSUME NEW n \in 1 .. N, s[n].obj = 2, SectionType(s[n]) = TEXT PROVE n = q
  <2>1. s[n].num = 1
    <3>1. p[n] \in DOMAIN c /\ c[p[n]].obj = 2 /\ SectionType(c[p[n]]) = TEXT
      BY <1>1, <1>5, <1>14
    <3>2. c[p[n]].num = 1
      BY <3>1 DEF LoaderIn
    <3>3. QED
      BY <1>5, <3>2
  <2>2. QED
    BY <1>13, <1>14, <2>1
<1>15. ~IsObjectCode(s[q])
  BY <1>12 DEF IsObjectCode, isloader
<1>16. ASSUME NEW n \in 1 .. N, IsObjectCode(s[n]) PROVE q < n /\ n <= e
  <2>1. ~SectBefore(s[n], s[q])
    BY <1>6, <1>12, <1>16, CodeOrder
  <2>2. n # q /\ ~(n < q)
    BY <1>7, <1>15, <1>16, <2>1
  <2>3. QED
    BY <1>11, <1>16, <2>2
<1>17. ASSUME NEW n \in 1 .. N, q < n, n <= e PROVE IsObjectCode(s[n])
  <2>1. CASE n = e
    BY <1>11, <2>1
  <2>2. CASE n # e
    <3>1. IsObjectCode(s[e]) /\ e \in 1 .. N
      BY <1>11
    <3>2. SectBefore(s[q], s[n]) /\ SectBefore(s[n], s[e])
      BY <1>7, <1>17, <2>2, <3>1
    <3>3. IsObjectCode(s[n]) \/ (s[n].obj = 2 /\ SectionType(s[n]) = TEXT)
      BY <1>6, <1>12, <3>1, <3>2, CodeOrder
    <3>4. n # q
      BY <1>17
    <3>5. QED
      BY <1>14, <3>3, <3>4
  <2>3. QED
    BY <2>1, <2>2
<1>18. CodeBehind(s, q, e)
  <2>1. e \in 1 .. N /\ IsObjectCode(s[e])
    BY <1>11
  <2>2. q <= e
    BY <1>16, <2>1
  <2>3. \A n \in 1 .. N : s[n].obj = 2 /\ s[n].num = 1 <=> n = q
    BY <1>12, <1>13
  <2>4. \A n \in 1 .. N : IsObjectCode(s[n]) <=> q < n /\ n <= e
    BY <1>16, <1>17
  <2>5. QED
    BY <1>5, <2>1, <2>2, <2>3, <2>4 DEF CodeBehind
<1>19. Coded(s)
  <2>1. q \in DOMAIN s /\ e \in DOMAIN s
    BY <1>5, <1>11
  <2>2. QED
    BY <1>8, <1>18, <2>1 DEF Coded
<1>20. QED
  BY <1>2, <1>3, <1>19

LEMMA CodeIs ==
  ASSUME program \in Programs
  PROVE  /\ program.absolute \in BOOLEAN
         /\ program.code \in [1 .. Len(program.code) -> Bytes] /\ Len(program.code) \in Nat
         /\ program.absolute =>
              /\ ~onekpaq /\ Len(program.code) # 0
              /\ Total(CodeLengths(program.sects)) = Len(program.code)
<1>1. /\ program.absolute \in BOOLEAN /\ program.code \in Seq(0 .. ByteValues - 1)
      /\ program.absolute =>
           /\ ~program.onekpaq /\ program.code # <<>>
           /\ Len(program.code) = SumOf([n \in DOMAIN program.sects |->
                 IF IsObjectCode(program.sects[n]) THEN program.sects[n].length ELSE 0])
  BY CodeAssumption, Zenon
<1>2. PICK b : b = program.code /\ b \in Seq(Bytes)
  BY <1>1 DEF Bytes
<1>3. b \in [1 .. Len(b) -> Bytes] /\ Len(b) \in Nat /\ (b # <<>> => Len(b) # 0)
  <2>1. PICK B : B = Bytes
    OBVIOUS
  <2>2. b \in Seq(B)
    BY <1>2, <2>1
  <2>3. b \in [1 .. Len(b) -> B] /\ Len(b) \in Nat /\ (b # <<>> => Len(b) # 0)
    BY <2>2
  <2>4. QED
    BY <2>1, <2>3
<1>4. SumOf(CodeLengths(program.sects)) = Total(CodeLengths(program.sects))
  BY SumIsTotal
<1>5. program.absolute => ~onekpaq /\ b # <<>> /\ Total(CodeLengths(program.sects)) = Len(b)
  <2>1. SUFFICES ASSUME program.absolute
                 PROVE  ~onekpaq /\ b # <<>> /\ Total(CodeLengths(program.sects)) = Len(b)
    OBVIOUS
  <2>2. ~onekpaq /\ b # <<>>
    BY <1>1, <1>2, <2>1 DEF onekpaq
  <2>3. Len(program.code) = SumOf(CodeLengths(program.sects))
    BY <1>1, <2>1, Zenon DEF CodeLengths
  <2>4. QED
    BY <1>2, <1>4, <2>2, <2>3
<1>6. QED
  BY <1>1, <1>2, <1>3, <1>5

LEMMA CollectedCode ==
  ASSUME program \in Programs, Listed(lmap), program.absolute
  PROVE  LoaderIn(Collected) /\ CollectedSects(Collected)
<1>1. PICK k \in Nat :
        /\ DOMAIN program.sects = 1 .. k
        /\ \A n \in 1 .. k :
             LET s == program.sects[n]
             IN  /\ s.obj \in Nat /\ s.num \in Nat /\ s.length \in Nat
                 /\ s.num < HashNum
                 /\ \A m \in 1 .. k : m # n =>
                      program.sects[m].obj # s.obj \/ program.sects[m].num # s.num
                 /\ s.obj < 3 => s.seg = "__TEXT" /\ s.name = "__text" /\ s.length > 0
        /\ \E n \in 1 .. k : program.sects[n].obj = 2
  BY ObjectsAre
<1>2. \A n \in 1 .. k : program.sects[n].obj < 3 => program.sects[n].num = 1
  <2>1. \A n \in DOMAIN program.sects :
          program.sects[n].obj < 3 => program.sects[n].num = 1 /\ program.sects[n].seg = "__TEXT"
    BY SizesAssumption, ZenonT(30) DEF ObjectAssumption
  <2>2. QED
    BY <1>1, <2>1
<1>3. PICK w : w = [n \in 1 .. k |-> WithLibraries(program.sects[n])]
  OBVIOUS
<1>4. PICK h, j : h = HashSection /\ j = JumpSection
  OBVIOUS
<1>5. PICK c : c = w \o <<h, j>>
  OBVIOUS
<1>6. Collected = c
  BY <1>1, <1>3, <1>4, <1>5 DEF Collected
<1>7. DOMAIN c = 1 .. k + 2 /\ c[k + 1] = h /\ c[k + 2] = j /\ \A n \in 1 .. k : c[n] = w[n]
  <2>1. PICK W : W = Range(w) \cup {h, j}
    OBVIOUS
  <2>2. \A n \in 1 .. k : w[n] \in W
    BY <1>3, <2>1 DEF Range
  <2>3. w \in Seq(W) /\ Len(w) = k
    BY <1>3, <2>2
  <2>4. PICK f : f = <<h, j>> /\ f \in Seq(W) /\ Len(f) = 2 /\ f[1] = h /\ f[2] = j
    <3>1. h \in W /\ j \in W
      BY <2>1
    <3>2. <<h, j>> \in Seq(W)
      BY <3>1
    <3>3. Len(<<h, j>>) = 2 /\ <<h, j>>[1] = h /\ <<h, j>>[2] = j
      OBVIOUS
    <3>4. QED
      BY <3>2, <3>3
  <2>5. PICK V : V = W
    OBVIOUS
  <2>6. w \in Seq(V) /\ f \in Seq(V)
    BY <2>3, <2>4, <2>5
  <2>7. /\ w \o f \in Seq(V) /\ Len(w \o f) = Len(w) + 2
        /\ \A n \in 1 .. Len(w) : (w \o f)[n] = w[n]
        /\ (w \o f)[Len(w) + 1] = f[1] /\ (w \o f)[Len(w) + 2] = f[2]
    BY <2>4, <2>6, TwoMore
  <2>8. QED
    BY <1>5, <2>3, <2>4, <2>7
<1>8. /\ h.seg = "__DATA" /\ j.seg = "__DATA" /\ h.obj = 2 /\ j.obj = 2
  BY <1>4 DEF HashSection, JumpSection, Added
<1>9. SectionType(h) # TEXT /\ SectionType(j) # TEXT
  BY <1>8 DEF SectionType, TEXT, DATA, BSS, DoNotWant
<1>10. ASSUME NEW n \in 1 .. k
       PROVE  /\ w[n].obj = program.sects[n].obj /\ w[n].num = program.sects[n].num
              /\ program.sects[n].obj < 3 => SectionType(w[n]) = TEXT /\ w[n].num = 1
              /\ IsObjectCode(w[n]) <=> IsObjectCode(program.sects[n])
              /\ IsObjectCode(w[n]) => w[n].length = program.sects[n].length
              /\ program.sects[n].length \in Int
  <2>1. PICK s : s = program.sects[n]
    OBVIOUS
  <2>2. /\ s.obj \in Nat /\ s.num \in Nat /\ s.length \in Nat
        /\ s.obj < 3 => s.seg = "__TEXT" /\ s.name = "__text" /\ s.length > 0 /\ s.num = 1
    BY <1>1, <1>2, <2>1
  <2>3. PICK length \in Nat : length = (IF isheader(s) THEN s.length + LoadCommands ELSE s.length)
                              /\ length >= s.length
    <3>1. LoadCommands \in Nat
      BY CommandsAre
    <3>2. QED
      BY <2>2, <3>1
  <2>4. w[n] = linksect(s, length)
    BY <1>3, <2>1, <2>3 DEF WithLibraries
  <2>5. /\ w[n].obj = s.obj /\ w[n].num = s.num /\ w[n].length = length
        /\ w[n].seg = s.seg /\ w[n].name = s.name
    BY <2>2, <2>4, LinksectIs
  <2>6. s.obj < 3 => SectionType(w[n]) = TEXT
    BY <2>2, <2>3, <2>5 DEF SectionType
  <2>7. CASE s.obj < 3
    BY <2>1, <2>2, <2>5, <2>6, <2>7 DEF IsObjectCode, isloader
  <2>8. CASE ~(s.obj < 3)
    <3>1. length = s.length
      BY <2>2, <2>3, <2>8 DEF isheader
    <3>2. QED
      BY <2>1, <2>2, <2>5, <2>8, <3>1 DEF IsObjectCode, isloader, SectionType
  <2>9. QED
    BY <2>7, <2>8
<1>11. \E n \in DOMAIN c : c[n].obj = 2 /\ c[n].num = 1 /\ SectionType(c[n]) = TEXT
  <2>1. PICK n \in 1 .. k : program.sects[n].obj = 2
    BY <1>1
  <2>2. w[n].obj = 2 /\ w[n].num = 1 /\ SectionType(w[n]) = TEXT
    BY <1>10, <2>1
  <2>3. QED
    BY <1>7, <2>2
<1>12. ASSUME NEW n \in DOMAIN c, c[n].obj = 2, SectionType(c[n]) = TEXT PROVE c[n].num = 1
  <2>1. n \in 1 .. k
    BY <1>7, <1>9, <1>12
  <2>2. QED
    BY <1>7, <1>10, <1>12, <2>1
<1>13. Total(CodeLengths(c)) = Len(program.code)
  <2>1. PICK g : g = CodeLengths(program.sects)
    OBVIOUS
  <2>2. g \in Seq(Int) /\ Len(g) = k /\ \A n \in 1 .. k :
          g[n] = IF IsObjectCode(program.sects[n]) THEN program.sects[n].length ELSE 0
    <3>1. g = [n \in 1 .. k |-> IF IsObjectCode(program.sects[n]) THEN program.sects[n].length ELSE 0]
      BY <1>1, <2>1 DEF CodeLengths
    <3>2. \A n \in 1 .. k :
            (IF IsObjectCode(program.sects[n]) THEN program.sects[n].length ELSE 0) \in Int
      BY <1>10
    <3>3. QED
      BY <3>1, <3>2
  <2>3. CodeLengths(c) = Append(Append(g, 0), 0)
    <3>1. PICK a : a = CodeLengths(c)
      OBVIOUS
    <3>2. a = [n \in 1 .. k + 2 |-> IF IsObjectCode(c[n]) THEN c[n].length ELSE 0]
      BY <1>7, <3>1 DEF CodeLengths
    <3>3. \A n \in 1 .. k : a[n] = g[n]
      BY <1>7, <1>10, <2>2, <3>2
    <3>4. a[k + 1] = 0 /\ a[k + 2] = 0
      BY <1>7, <1>9, <3>2 DEF IsObjectCode
    <3>5. PICK b : b = Append(Append(g, 0), 0)
      OBVIOUS
    <3>6. /\ b \in Seq(Int) /\ Len(b) = k + 2 /\ b[k + 1] = 0 /\ b[k + 2] = 0
          /\ \A n \in 1 .. k : b[n] = g[n]
      BY <2>2, <3>5
    <3>7. b = [n \in 1 .. k + 2 |-> b[n]]
      BY <3>6
    <3>8. \A n \in 1 .. k + 2 : a[n] = b[n]
      <4>1. \A n \in 1 .. k + 2 : n \in 1 .. k \/ n = k + 1 \/ n = k + 2
        OBVIOUS
      <4>2. QED
        BY <3>3, <3>4, <3>6, <4>1
    <3>9. a = b
      BY <3>2, <3>7, <3>8
    <3>10. QED
      BY <3>1, <3>5, <3>9
  <2>4. Append(g, 0) \in Seq(Int) /\ 0 \in Int
    BY <2>2
  <2>5. Total(Append(g, 0)) = Total(g) + 0 /\ Total(Append(Append(g, 0), 0)) = Total(Append(g, 0)) + 0
    BY <2>2, <2>4, TotalAppend
  <2>6. Total(g) = Len(program.code) /\ Len(program.code) \in Nat
    BY <2>1, CodeIs
  <2>7. QED
    BY <2>3, <2>5, <2>6
<1>14. QED
  BY <1>6, <1>11, <1>12, <1>13, CodeIs, CollectedIs DEF LoaderIn

\* A section that only moves is the code it was.
Alike(s, t) ==
  /\ t.obj = s.obj /\ t.num = s.num /\ t.length = s.length /\ t.seg = s.seg /\ t.name = s.name
  /\ t.uaddr = s.uaddr /\ t.jumps = s.jumps /\ t.refs = s.refs

LEMMA PutKeeps ==
  ASSUME NEW c, NEW j, NEW a, NEW v, \A n \in DOMAIN c : DOMAIN c[n] = Fields
  PROVE  /\ DOMAIN Put(c, j, a, v) = DOMAIN c
         /\ \A n \in DOMAIN c : Alike(c[n], Put(c, j, a, v)[n])
         /\ \A n \in DOMAIN c \ {j} : Put(c, j, a, v)[n] = c[n]
         /\ j \in DOMAIN c => Put(c, j, a, v)[j].abs_offset = a /\ Put(c, j, a, v)[j].vm_shift = v
<1>1. PICK p : p = Put(c, j, a, v)
  OBVIOUS
<1>2. PICK s, t, t2 : s = c[j] /\ t = [s EXCEPT !.abs_offset = a] /\ t2 = [t EXCEPT !.vm_shift = v]
  OBVIOUS
<1>3. p = [n \in DOMAIN c |-> IF n = j THEN t2 ELSE c[n]]
  <2>1. CASE j \in DOMAIN c
    BY <1>1, <1>2, <2>1 DEF Put
  <2>2. CASE j \notin DOMAIN c
    BY <1>1, <2>2 DEF Put
  <2>3. QED
    BY <2>1, <2>2
<1>4. j \in DOMAIN c => Alike(s, t2) /\ t2.abs_offset = a /\ t2.vm_shift = v
  <2>1. SUFFICES ASSUME j \in DOMAIN c PROVE Alike(s, t2) /\ t2.abs_offset = a /\ t2.vm_shift = v
    OBVIOUS
  <2>2. DOMAIN s = Fields
    BY <1>2, <2>1
  <2>3. DOMAIN t = Fields /\ \A f \in Fields \ {"abs_offset"} : t[f] = s[f]
    BY <1>2, <2>2
  <2>4. DOMAIN t2 = Fields /\ \A f \in Fields \ {"vm_shift"} : t2[f] = t[f]
    BY <1>2, <2>3
  <2>5. t2.abs_offset = a /\ t2.vm_shift = v
    BY <1>2, <2>2, <2>3 DEF Fields
  <2>6. QED
    BY <2>3, <2>4, <2>5 DEF Fields, Alike
<1>5. ASSUME NEW n \in DOMAIN c PROVE Alike(c[n], p[n])
  <2>1. CASE n = j
    BY <1>2, <1>3, <1>4, <2>1
  <2>2. CASE n # j
    <3>1. p[n] = c[n]
      BY <1>3, <2>2
    <3>2. QED
      BY <3>1 DEF Alike
  <2>3. QED
    BY <2>1, <2>2
<1>6. \A n \in DOMAIN c \ {j} : p[n] = c[n]
  BY <1>3
<1>7. j \in DOMAIN c => p[j].abs_offset = a /\ p[j].vm_shift = v
  BY <1>3, <1>4
<1>8. QED
  BY <1>1, <1>3, <1>5, <1>6, <1>7

LEMMA CodedAlike ==
  ASSUME NEW c, NEW d, DOMAIN d = DOMAIN c, \A n \in DOMAIN c : Alike(c[n], d[n]), Coded(c)
  PROVE  Coded(d)
<1>1. \A n \in DOMAIN c : /\ d[n].obj = c[n].obj /\ d[n].num = c[n].num
                          /\ IsObjectCode(d[n]) <=> IsObjectCode(c[n])
                          /\ d[n].length = c[n].length
  BY DEF Alike, IsObjectCode, SectionType, isloader
<1>2. CodeLengths(d) = CodeLengths(c)
  <2>1. CodeLengths(d) = [n \in DOMAIN c |-> IF IsObjectCode(d[n]) THEN d[n].length ELSE 0]
    BY DEF CodeLengths
  <2>2. CodeLengths(c) = [n \in DOMAIN c |-> IF IsObjectCode(c[n]) THEN c[n].length ELSE 0]
    BY DEF CodeLengths
  <2>3. QED
    BY <1>1, <2>1, <2>2
<1>3. \A q, e \in DOMAIN c : CodeBehind(c, q, e) => CodeBehind(d, q, e)
  BY <1>1 DEF CodeBehind
<1>4. QED
  BY <1>2, <1>3 DEF Coded

\* The layout of a program whose calls are translated.
CodeLaidOut == program.absolute /\ bphase # "off" => Coded(sects)

LEMMA CollectLays ==
  ASSUME ImportInv, BinaryInv, Collect
  PROVE  CodeLaidOut'
<1>1. phase = "linked" /\ program' = program
  BY DEF Collect, Rest, ivars
<1>2. program \in Programs /\ Listed(lmap)
  BY <1>1 DEF ImportInv, LinkerInv
<1>3. SUFFICES ASSUME program.absolute PROVE Coded(sects)'
  BY <1>1 DEF CodeLaidOut
<1>4. PICK given \in {Collected} : \E rank \in {[n \in DOMAIN given |-> Rank(given, n)]} :
        /\ sects' = [k \in DOMAIN given |-> given[CHOOSE n \in DOMAIN given : rank[n] = k - 1]]
        /\ linker_blocks' = [n \in 1 .. Len(given) + 2 |-> 0]
  BY Zenon DEF Collect
<1>5. PICK rank \in {[n \in DOMAIN given |-> Rank(given, n)]} :
        /\ sects' = [k \in DOMAIN given |-> given[CHOOSE n \in DOMAIN given : rank[n] = k - 1]]
        /\ linker_blocks' = [n \in 1 .. Len(given) + 2 |-> 0]
  BY <1>4, Zenon
<1>6. LoaderIn(given) /\ CollectedSects(given)
  BY <1>2, <1>3, <1>4, CollectedCode
<1>7. ~onekpaq
  BY <1>2, <1>3, CodeIs
<1>8. rank = [n \in DOMAIN given |-> Rank(given, n)]
  BY <1>5, Zenon
<1>9. Coded(InOrder(given, rank))
  BY <1>6, <1>7, <1>8, SortedCode, Zenon
<1>10. sects' = InOrder(given, rank)
  BY <1>5, Zenon DEF InOrder
<1>11. Coded(sects')
  BY <1>9, <1>10
<1>12. QED
  BY <1>1, <1>11 DEF Coded

LEMMA SteadyLayout ==
  ASSUME CodeLaidOut, program' = program, sects' = sects, bphase # "off" \/ bphase' = "off"
  PROVE  CodeLaidOut'
BY DEF CodeLaidOut, Coded

LEMMA PlaceLays ==
  ASSUME BinaryInv, CodeLaidOut, Place
  PROVE  CodeLaidOut'
<1>1. /\ bphase = "place" /\ program' = program
      /\ sects' = Put(sects, i, AbsOffset, ShiftHere)
  BY DEF Place, Put, Rest, ivars
<1>2. Layered(onekpaq, sects)
  BY <1>1 DEF BinaryInv, Lined
<1>3. \A n \in DOMAIN sects : DOMAIN sects[n] = Fields
  BY <1>2 DEF Layered, Raw
<1>4. SUFFICES ASSUME program.absolute PROVE Coded(sects)'
  BY <1>1 DEF CodeLaidOut
<1>5. PICK d : d = Put(sects, i, AbsOffset, ShiftHere)
  OBVIOUS
<1>6. DOMAIN d = DOMAIN sects /\ \A n \in DOMAIN sects : Alike(sects[n], d[n])
  BY <1>3, <1>5, PutKeeps
<1>7. Coded(sects)
  BY <1>1, <1>4 DEF CodeLaidOut
<1>8. Coded(d)
  BY <1>6, <1>7, CodedAlike
<1>9. QED
  BY <1>1, <1>5, <1>8 DEF Coded

\* The code's addresses: it begins where the loader's ends.
Spanned == low_addr \in Nat /\ high_addr = low_addr + Len(program.code) /\ CodeEnd = low_addr

LEMMA MinIsLeast ==
  ASSUME NEW S \in SUBSET Nat, NEW x \in S, \A y \in S : x <= y
  PROVE  Min(S) = x
<1>1. Min(S) \in S /\ \A y \in S : Min(S) <= y
  BY MinIs
<1>2. x <= Min(S) /\ Min(S) <= x /\ x \in Nat /\ Min(S) \in Nat
  BY <1>1
<1>3. QED
  BY <1>2

LEMMA MaxIsGreatest ==
  ASSUME NEW S \in SUBSET Nat, NEW x \in S, \A y \in S : y <= x
  PROVE  Max(S) = x
<1>1. x \in Nat /\ S \in SUBSET (0 .. x) /\ S # {}
  OBVIOUS
<1>2. Max(S) \in S /\ \A y \in S : y <= Max(S)
  BY <1>1, MaxIs
<1>3. x <= Max(S) /\ Max(S) <= x /\ Max(S) \in Nat
  BY <1>2
<1>4. QED
  BY <1>3

LEMMA SpanIs ==
  ASSUME Coded(sects), ~onekpaq, Len(program.code) \in Nat \ {0},
         NEW k, Whole(k), InPlace(k)
  PROVE  Spanned
<1>1. PICK c : c = sects
  OBVIOUS
<1>2. PICK q \in DOMAIN c, e \in DOMAIN c : CodeBehind(c, q, e)
  BY <1>1 DEF Coded
<1>3. PICK l \in Nat : l = Len(c) /\ DOMAIN c = 1 .. l /\ k \in 0 .. l /\ \A n \in 1 .. l : Raw(c[n])
  BY <1>1 DEF Whole, Lined, Layered
<1>4. q \in 1 .. l /\ e \in 1 .. l /\ q <= e
  BY <1>2, <1>3 DEF CodeBehind
<1>5. PICK b, f, e1 : Filed(c, linker_blocks, k, e1, b, f)
  BY <1>1 DEF InPlace
<1>6. \A n \in 1 .. l : IsObjectCode(c[n]) <=> q < n /\ n <= e
  BY <1>2, <1>3 DEF CodeBehind
<1>7. Total(CodeLengths(c)) = Len(program.code)
  BY <1>1 DEF Coded
<1>8. q < e
  <2>1. SUFFICES ASSUME q = e PROVE FALSE
    BY <1>4
  <2>2. PICK h : h = CodeLengths(c)
    OBVIOUS
  <2>3. h = [n \in 1 .. l |-> IF IsObjectCode(c[n]) THEN c[n].length ELSE 0]
    BY <1>3, <2>2 DEF CodeLengths
  <2>4. \A n \in 1 .. l : ~IsObjectCode(c[n])
    BY <1>4, <1>6, <2>1
  <2>5. h \in [1 .. l -> Int] /\ \A n \in 1 .. l : h[n] = 0
    BY <2>3, <2>4
  <2>6. Total(h) = 0
    BY <1>3, <2>5, TotalOfNone
  <2>7. QED
    BY <1>7, <2>2, <2>6
<1>9. IsObjectCode(c[e])
  BY <1>4, <1>6, <1>8
<1>10. e <= k /\ e <= e1 /\ e1 \in Nat
  <2>1. IsWanted(c[e]) /\ InFile(c[e])
    BY <1>9 DEF IsObjectCode, IsWanted, InFile, TEXT, DATA, DoNotWant
  <2>2. e <= k
    BY <1>1, <1>3, <1>4, <2>1 DEF Whole
  <2>3. e1 \in 0 .. k /\ \A n \in 1 .. k : InFile(c[n]) <=> n <= e1
    BY <1>5 DEF Filed
  <2>4. e \in 1 .. k
    BY <1>3, <1>4, <2>2
  <2>5. QED
    BY <2>1, <2>2, <2>3, <2>4
<1>11. /\ \A n \in 1 .. k : c[n].vm_shift = 0
       /\ \A m, n \in 1 .. k : m < n => End(c[m]) <= c[n].abs_offset
  <2>1. \A n \in 1 .. k : ~Packs(onekpaq, c[n])
    BY DEF Packs
  <2>2. Stacked(c, k, b_len) /\ Shifted(onekpaq, program.decompress_offset, c, k, vm_shift)
    BY <1>1 DEF Whole, Lined
  <2>3. QED
    BY <2>1, <2>2 DEF Stacked, Shifted
<1>12. \A n \in 1 .. e1 - 1 : c[n + 1].abs_offset = End(c[n])
  BY <1>5 DEF Filed
<1> DEFINE A(n) == c[n].abs_offset
<1>13. \A n \in 1 .. e : A(n) \in Nat /\ c[n].length \in Nat /\ End(c[n]) = A(n) + c[n].length
                         /\ Runs(c[n]) = A(n) /\ End(c[n]) \in Nat
  <2>1. SUFFICES ASSUME NEW n \in 1 .. e
                 PROVE  A(n) \in Nat /\ c[n].length \in Nat /\ End(c[n]) = A(n) + c[n].length
                        /\ Runs(c[n]) = A(n) /\ End(c[n]) \in Nat
    OBVIOUS
  <2>2. n \in 1 .. l /\ n \in 1 .. k
    BY <1>3, <1>4, <1>10
  <2>3. A(n) \in Nat /\ c[n].length \in Nat /\ c[n].vm_shift = 0
    BY <1>3, <1>11, <2>2 DEF Raw
  <2>4. QED
    BY <2>3 DEF End, Runs
<1>14. \A n \in q .. e - 1 : n \in 1 .. e /\ n + 1 \in 1 .. e /\ A(n + 1) = End(c[n])
  BY <1>4, <1>10, <1>12
<1>15. \A m, n \in 1 .. e : m < n => End(c[m]) <= A(n) /\ A(m) <= A(n) /\ End(c[m]) <= End(c[n])
  <2>1. SUFFICES ASSUME NEW m \in 1 .. e, NEW n \in 1 .. e, m < n
                 PROVE  End(c[m]) <= A(n) /\ A(m) <= A(n) /\ End(c[m]) <= End(c[n])
    OBVIOUS
  <2>2. m \in 1 .. k /\ n \in 1 .. k
    BY <1>3, <1>4, <1>10
  <2>3. End(c[m]) <= A(n)
    BY <1>11, <2>1, <2>2
  <2>4. QED
    BY <1>13, <2>3
<1> HIDE DEF A
<1>16. ObjectCode = {c[n] : n \in q + 1 .. e}
  <2>1. \A s : s \in ObjectCode <=> \E n \in 1 .. l : s = c[n] /\ IsObjectCode(c[n])
    BY <1>1, <1>3 DEF ObjectCode, Range
  <2>2. \A s : s \in ObjectCode <=> \E n \in q + 1 .. e : s = c[n]
    BY <1>4, <1>6, <2>1
  <2>3. QED
    BY <2>2
<1>17. low_addr = A(q + 1)
  <2>1. PICK S : S = {Runs(s) : s \in ObjectCode}
    OBVIOUS
  <2>2. \A y : y \in S <=> \E n \in q + 1 .. e : y = A(n)
    <3>1. \A n \in q + 1 .. e : n \in 1 .. e
      BY <1>4
    <3>2. \A n \in q + 1 .. e : Runs(c[n]) = A(n)
      BY <1>13, <3>1
    <3>3. QED
      BY <1>16, <2>1, <3>2
  <2>3. q + 1 \in q + 1 .. e /\ \A n \in q + 1 .. e : A(n) \in Nat /\ A(q + 1) <= A(n)
    <3>1. q + 1 \in 1 .. e /\ q + 1 \in q + 1 .. e
      BY <1>4, <1>8
    <3>2. ASSUME NEW n \in q + 1 .. e PROVE A(n) \in Nat /\ A(q + 1) <= A(n)
      <4>1. n \in 1 .. e /\ (q + 1 < n \/ q + 1 = n)
        BY <1>4
      <4>2. QED
        BY <1>13, <1>15, <3>1, <4>1
    <3>3. QED
      BY <3>1, <3>2
  <2>4. S \in SUBSET Nat /\ A(q + 1) \in S /\ \A y \in S : A(q + 1) <= y
    BY <2>2, <2>3
  <2>5. Min(S) = A(q + 1)
    BY <2>4, MinIsLeast
  <2>6. QED
    BY <2>1, <2>5 DEF low_addr
<1>18. high_addr = End(c[e])
  <2>1. PICK S : S = {Runs(s) + s.length : s \in ObjectCode}
    OBVIOUS
  <2>2. \A y : y \in S <=> \E n \in q + 1 .. e : y = End(c[n])
    <3>1. \A n \in q + 1 .. e : n \in 1 .. e
      BY <1>4
    <3>2. \A n \in q + 1 .. e : Runs(c[n]) + c[n].length = End(c[n])
      BY <1>13, <3>1
    <3>3. QED
      BY <1>16, <2>1, <3>2
  <2>3. e \in q + 1 .. e /\ \A n \in q + 1 .. e : End(c[n]) \in Nat /\ End(c[n]) <= End(c[e])
    <3>1. e \in 1 .. e /\ e \in q + 1 .. e
      BY <1>4, <1>8
    <3>2. ASSUME NEW n \in q + 1 .. e PROVE End(c[n]) \in Nat /\ End(c[n]) <= End(c[e])
      <4>1. n \in 1 .. e /\ (n < e \/ n = e)
        BY <1>4
      <4>2. QED
        BY <1>13, <1>15, <3>1, <4>1
    <3>3. QED
      BY <3>1, <3>2
  <2>4. S \in SUBSET Nat /\ End(c[e]) \in S /\ \A y \in S : y <= End(c[e])
    BY <2>2, <2>3
  <2>5. Max(S) = End(c[e])
    BY <2>4, MaxIsGreatest
  <2>6. QED
    BY <2>1, <2>5 DEF high_addr
<1>19. CodeEnd = End(c[q]) /\ End(c[q]) = A(q + 1)
  <2>1. \A n \in 1 .. l : c[n].obj = 2 /\ c[n].num = 1 <=> n = q
    BY <1>2, <1>3 DEF CodeBehind
  <2>2. \A s \in Range(sects) : s.obj = 2 /\ s.num = 1 <=> s = c[q]
    <3>1. \A s : s \in Range(sects) <=> \E n \in 1 .. l : s = c[n]
      BY <1>1, <1>3 DEF Range
    <3>2. QED
      BY <1>4, <2>1, <3>1
  <2>3. c[q] \in Range(sects)
    BY <1>1, <1>3, <1>4 DEF Range
  <2>4. SectOf(2, 1) = c[q]
    BY <2>2, <2>3 DEF SectOf
  <2>5. q \in 1 .. e /\ q \in q .. e - 1
    BY <1>4, <1>8
  <2>6. Runs(c[q]) + c[q].length = End(c[q]) /\ A(q + 1) = End(c[q])
    BY <1>13, <1>14, <2>5
  <2>7. QED
    BY <2>4, <2>6 DEF CodeEnd
<1>20. End(c[e]) = End(c[q]) + Len(program.code)
  <2>1. PICK h : h = CodeLengths(c)
    OBVIOUS
  <2>2. h = [n \in 1 .. l |-> IF IsObjectCode(c[n]) THEN c[n].length ELSE 0]
    BY <1>3, <2>1 DEF CodeLengths
  <2>3. h \in Seq(Int) /\ Len(h) = l
    <3>1. \A n \in 1 .. l : (IF IsObjectCode(c[n]) THEN c[n].length ELSE 0) \in Int
      BY <1>3 DEF Raw
    <3>2. QED
      BY <2>2, <3>1
  <2>4. PICK z \in Nat : z = End(c[q])
    BY <1>4, <1>13
  <2>5. PICK y \in Nat : y = End(c[e])
    BY <1>4, <1>13
  <2>6. PICK T : T = [n \in 0 .. l |-> IF n <= q THEN 0 ELSE IF n <= e THEN End(c[n]) - z ELSE y - z]
    OBVIOUS
  <2>7. T \in [0 .. l -> Int] /\ T[0] = 0
    <3>1. \A n \in 0 .. l : (IF n <= q THEN 0 ELSE IF n <= e THEN End(c[n]) - z ELSE y - z) \in Int
      <4>1. SUFFICES ASSUME NEW n \in 0 .. l, q < n, n <= e PROVE End(c[n]) - z \in Int
        BY <1>4, <2>4, <2>5
      <4>2. n \in 1 .. e
        BY <1>4, <4>1
      <4>3. QED
        BY <1>13, <2>4, <4>2
    <3>2. QED
      BY <1>4, <2>6, <3>1
  <2>8. ASSUME NEW n \in 1 .. l PROVE T[n] = T[n - 1] + h[n]
    <3>1. n \in 0 .. l /\ n - 1 \in 0 .. l
      BY <1>3
    <3>2. CASE n <= q
      <4>1. T[n] = 0 /\ T[n - 1] = 0
        BY <1>4, <2>6, <3>1, <3>2
      <4>2. h[n] = 0
        BY <1>4, <1>6, <2>2, <3>2
      <4>3. QED
        BY <4>1, <4>2
    <3>3. CASE q < n /\ n <= e
      <4>1. h[n] = c[n].length
        BY <1>6, <2>2, <3>3
      <4>2. T[n] = End(c[n]) - z
        BY <1>4, <2>6, <3>1, <3>3
      <4>3. n - 1 \in q .. e - 1 /\ n - 1 \in 1 .. e /\ n \in 1 .. e /\ (n - 1) + 1 = n
        BY <1>4, <3>3
      <4>4. A(n) = End(c[n - 1])
        BY <1>14, <4>3
      <4>5. T[n - 1] = End(c[n - 1]) - z
        <5>1. CASE n - 1 = q
          BY <1>4, <2>4, <2>6, <3>1, <5>1
        <5>2. CASE n - 1 # q
          BY <1>4, <2>6, <3>1, <3>3, <5>2
        <5>3. QED
          BY <5>1, <5>2
      <4>6. PICK x \in Nat, w \in Nat, r \in Nat :
              x = A(n) /\ w = c[n].length /\ End(c[n]) = r /\ r = x + w
        BY <1>13, <4>3
      <4>7. QED
        BY <2>4, <4>1, <4>2, <4>4, <4>5, <4>6
    <3>4. CASE e < n
      <4>1. h[n] = 0
        BY <1>4, <1>6, <2>2, <3>4
      <4>2. T[n] = y - z
        BY <1>4, <2>6, <3>1, <3>4
      <4>3. T[n - 1] = y - z
        <5>1. CASE n - 1 = e
          BY <1>4, <1>8, <2>5, <2>6, <3>1, <5>1
        <5>2. CASE n - 1 # e
          BY <1>4, <2>6, <3>1, <3>4, <5>2
        <5>3. QED
          BY <5>1, <5>2
      <4>4. QED
        BY <2>4, <2>5, <4>1, <4>2, <4>3
    <3>5. QED
      BY <1>4, <3>2, <3>3, <3>4
  <2>9. Sums(T, h)
    BY <2>3, <2>7, <2>8 DEF Sums
  <2>10. Total(h) = T[l]
    BY <2>3, <2>9, TotalBy
  <2>11. T[l] = y - z
    <3>1. l \in 0 .. l
      BY <1>3
    <3>2. CASE l = e
      BY <1>4, <1>8, <2>5, <2>6, <3>1, <3>2
    <3>3. CASE l # e
      BY <1>4, <2>6, <3>1, <3>3
    <3>4. QED
      BY <3>2, <3>3
  <2>12. QED
    BY <1>7, <2>1, <2>4, <2>5, <2>10, <2>11
<1>21. End(c[q]) \in Nat
  BY <1>4, <1>13
<1>22. QED
  BY <1>17, <1>18, <1>19, <1>20, <1>21 DEF Spanned

-----------------------------------------------------------------------------
(* Calls, from the scan to the restored code.                              *)

\* The linker's list of calls, and what it leaves to the loader.
CodeSize == Len(program.code)
ShapeFrom(m) == Shape(code, program.code, CodeSize, calls.found, m, calls.last)
Scanned ==
  /\ Chain(program.code, CodeSize, calls.found)
  /\ Scan = Resume(calls.found, Len(calls.found))
  /\ calls.last \in 0 .. Len(calls.found)
Translations ==
  /\ calls.last # 0
  /\ lphase \notin {"restore", "done"} => ShapeFrom(0) /\ ctc = LeftAt(calls.found, 0, calls.last)
\* m calls are restored.
Restoring ==
  \E m \in Nat : /\ m < calls.last /\ ShapeFrom(m)
                 /\ cell = Resume(calls.found, m) /\ count = LeftAt(calls.found, m, calls.last)

CodeInv ==
  /\ CodeLaidOut
  /\ DOMAIN calls = {"next", "found", "bad", "last", "last_bad"}
  /\ lphase # "off" => bphase = "file"
  /\ bphase = "translate" \/ lphase \in {"calls", "restore"} => program.absolute
  /\ bphase \in {"off", "place", "relocate", "translate"} \/ ~program.absolute \/ lphase = "done" =>
       code = program.code
  /\ bphase \in {"off", "place", "relocate"} => calls.next = 0 /\ calls.found = <<>> /\ calls.last = 0
  /\ program.absolute /\ bphase \in {"translate", "pack", "pad", "file"} => Spanned /\ Scanned
  /\ program.absolute /\ bphase \in {"pack", "pad", "file"} => Translations
  /\ lphase = "restore" => Restoring

LEMMA SteadySpan ==
  ASSUME sects' = sects, program' = program
  PROVE  /\ low_addr' = low_addr /\ high_addr' = high_addr /\ CodeEnd' = CodeEnd
         /\ Spanned' <=> Spanned
<1>1. ObjectCode' = ObjectCode
  BY DEF ObjectCode
<1>2. low_addr' = low_addr /\ high_addr' = high_addr
  BY <1>1 DEF low_addr, high_addr, Runs
<1>3. CodeEnd' = CodeEnd
  BY DEF CodeEnd, SectOf, Runs
<1>4. QED
  BY <1>2, <1>3 DEF Spanned

LEMMA SteadyScan ==
  ASSUME sects' = sects, program' = program, calls' = calls
  PROVE  /\ Scanned' <=> Scanned
         /\ \A m : LeftAt(calls.found, m, calls.last)' = LeftAt(calls.found, m, calls.last)
         /\ \A m : Resume(calls.found, m)' = Resume(calls.found, m)
         /\ code' = code => \A m : ShapeFrom(m)' <=> ShapeFrom(m)
<1>1. low_addr' = low_addr
  BY SteadySpan
<1>2. \A m : Resume(calls.found, m)' = Resume(calls.found, m)
  BY <1>1 DEF Resume
<1>3. \A m : LeftAt(calls.found, m, calls.last)' = LeftAt(calls.found, m, calls.last)
  BY <1>1 DEF Resume, LeftAt
<1>4. Scanned' <=> Scanned
  BY <1>1 DEF Scanned, Chain, Fits, Resume, CodeSize, Scan
<1>5. code' = code => \A m : ShapeFrom(m)' <=> ShapeFrom(m)
  BY <1>1 DEF ShapeFrom, Shape, Operand, Covers, DigitsOf, AbsoluteOf, WordAt, CodeSize
<1>6. QED
  BY <1>2, <1>3, <1>4, <1>5

LEMMA CodeInit == Init => CodeInv
BY DEF Init, IInit, BInit, LInit, CInit, CodeInv, CodeLaidOut

\* The image is not touched.
LEMMA SteadyCode ==
  ASSUME CodeInv, program' = program, sects' = sects, calls' = calls, code' = code, ctc' = ctc,
         lphase' = lphase, (cell' = cell /\ count' = count) \/ lphase # "restore",
         \/ bphase' = bphase
         \/ /\ lphase = "off" /\ bphase # "off"
            /\ \/ bphase' = "refused"
               \/ bphase = "place" /\ bphase' \in {"place", "relocate"}
               \/ bphase = "pack" /\ bphase' = "pad"
               \/ bphase = "pad" /\ bphase' = "file"
  PROVE  CodeInv'
<1>1. /\ Scanned' <=> Scanned
      /\ \A m : LeftAt(calls.found, m, calls.last)' = LeftAt(calls.found, m, calls.last)
      /\ \A m : Resume(calls.found, m)' = Resume(calls.found, m)
      /\ \A m : ShapeFrom(m)' <=> ShapeFrom(m)
  BY SteadyScan
<1>2. Spanned' <=> Spanned
  BY SteadySpan
<1>3. Translations' <=> Translations
  BY <1>1 DEF Translations
<1>4. lphase = "restore" => Restoring'
  BY <1>1 DEF CodeInv, Restoring
<1>5. CodeLaidOut'
  BY SteadyLayout DEF CodeInv
<1>6. QED
  BY <1>1, <1>2, <1>3, <1>4, <1>5 DEF CodeInv

\* One more call that is found.
LEMMA CallFound ==
  ASSUME Spanned, Scanned, code = program.code, CodeSize \in Nat, CallsAhead # {},
         NEW a, a = Min(CallsAhead), NEW more, more = Append(calls.found, a + 1)
  PROVE  /\ Chain(program.code, CodeSize, more) /\ Len(more) \in Nat
         /\ Len(more) = Len(calls.found) + 1
         /\ Resume(more, Len(more)) = BehindCall(a) /\ BehindCall(a) \in Nat
<1>1. PICK la \in Nat, n \in Nat : la = low_addr /\ n = CodeSize /\ high_addr = la + n
  BY DEF Spanned, CodeSize
<1>2. PICK orig, found : orig = program.code /\ found = calls.found
  OBVIOUS
<1>3. Chain(orig, n, found) /\ Len(found) \in Nat /\ Scan = Resume(found, Len(found))
  BY <1>1, <1>2 DEF Scanned, Chain
<1>4. PICK r \in Nat : r = Resume(found, Len(found)) /\ la <= r /\ r = Scan
  <2>1. Len(found) \in 0 .. Len(found)
    BY <1>3
  <2>2. Resume(found, Len(found)) \in Nat /\ low_addr <= Resume(found, Len(found))
    BY <1>1, <1>3, <2>1, ResumeIs
  <2>3. QED
    BY <1>1, <1>3, <2>2
<1>5. PICK F \in Nat \ {0} : F = Field
  BY FieldIs
<1>6. \A x : x \in CallsAhead <=> x \in r .. (la + n) - F - 2 /\ orig[(x - la) + 1] = CallByte
  BY <1>1, <1>2, <1>4, <1>5 DEF CallsAhead, ByteAt
<1>7. CallsAhead \in SUBSET Nat
  BY <1>4, <1>6
<1>8. a \in CallsAhead /\ \A x \in CallsAhead : a <= x
  BY <1>7, MinIs
<1>9. a \in Nat /\ r <= a /\ a <= (la + n) - F - 2 /\ orig[(a - la) + 1] = CallByte
  BY <1>4, <1>6, <1>8
<1>10. PICK f \in Nat : f = a + 1
  BY <1>9
<1>11. r + 1 <= f /\ f - la = (a - la) + 1
  BY <1>9, <1>10
<1>12. Fits(f, n)
  <2>1. la <= f /\ (f - la) + F <= n
    BY <1>4, <1>9, <1>10
  <2>2. QED
    BY <1>1, <1>5, <2>1 DEF Fits
<1>13. ASSUME NEW x \in r .. f - 2 PROVE orig[(x - la) + 1] # CallByte
  <2>1. x \in r .. (la + n) - F - 2 /\ ~(a <= x)
    BY <1>9, <1>10
  <2>2. QED
    BY <1>6, <1>8, <2>1
<1>14. /\ Chain(orig, n, Append(found, f)) /\ Len(Append(found, f)) = Len(found) + 1
       /\ Resume(Append(found, f), Len(found) + 1) = f + Field
  <2>1. Resume(found, Len(found)) + 1 <= f
    BY <1>4, <1>11
  <2>2. orig[f - low_addr] = CallByte
    BY <1>1, <1>9, <1>11
  <2>3. \A x \in Resume(found, Len(found)) .. f - 2 : orig[x - low_addr + 1] # CallByte
    BY <1>1, <1>4, <1>13
  <2>4. low_addr \in Nat
    BY <1>1
  <2>5. QED
    BY <1>3, <1>12, <2>1, <2>2, <2>3, <2>4, ChainMore
<1>15. more = Append(found, f)
  BY <1>2, <1>10
<1>16. BehindCall(a) = f + Field /\ f + Field \in Nat
  BY <1>5, <1>9, <1>10 DEF BehindCall
<1>17. QED
  BY <1>1, <1>2, <1>3, <1>14, <1>15, <1>16

LEMMA FindCallStep ==
  ASSUME ImportInv, CodeInv, FindCall
  PROVE  CodeInv'
<1>1. /\ bphase = "translate" /\ bphase' = bphase /\ lphase' = lphase /\ program' = program
      /\ sects' = sects /\ code' = code /\ cell' = cell /\ count' = count
      /\ CallsAhead # {}
  BY DEF FindCall, ivars, bvars, lvars
<1>2. /\ program.absolute /\ Spanned /\ Scanned /\ code = program.code /\ lphase = "off"
      /\ CodeLaidOut
  BY <1>1 DEF CodeInv
<1>3. CodeSize \in Nat
  BY CodeIs DEF ImportInv, LinkerInv, CodeSize
<1>4. PICK a, more : a = Min(CallsAhead) /\ more = Append(calls.found, a + 1)
  OBVIOUS
<1>5. /\ Chain(program.code, CodeSize, more) /\ Len(more) \in Nat
      /\ Len(more) = Len(calls.found) + 1
      /\ Resume(more, Len(more)) = BehindCall(a) /\ BehindCall(a) \in Nat
  BY <1>1, <1>2, <1>3, <1>4, CallFound
<1>6. /\ calls'.found = more /\ calls'.next = BehindCall(a) - low_addr
      /\ calls'.last \in 0 .. Len(more)
  <2>1. calls.last \in 0 .. Len(calls.found) /\ Len(calls.found) \in Nat
    BY <1>2 DEF Scanned, Chain
  <2>2. calls.last \in 0 .. Len(more) /\ Len(more) \in 0 .. Len(more)
    BY <1>5, <2>1
  <2>3. DOMAIN calls = {"next", "found", "bad", "last", "last_bad"}
    BY DEF CodeInv
  <2>4. QED
    BY <1>4, <2>2, <2>3 DEF FindCall
<1>7. low_addr' = low_addr /\ low_addr \in Nat /\ Spanned'
  BY <1>1, <1>2, SteadySpan DEF Spanned
<1>8. Scanned'
  <2>1. Scan' = Resume(more, Len(more))
    BY <1>5, <1>6, <1>7 DEF Scan
  <2>2. Resume(calls.found, Len(calls.found))' = Resume(more, Len(more))
    BY <1>6, <1>7 DEF Resume
  <2>3. Chain(program.code, CodeSize, calls.found)'
    BY <1>1, <1>5, <1>6, <1>7 DEF Chain, Fits, Resume, CodeSize
  <2>4. QED
    BY <1>6, <2>1, <2>2, <2>3 DEF Scanned
<1>9. CodeLaidOut'
  BY <1>1, <1>2, SteadyLayout
<1>10. DOMAIN calls' = {"next", "found", "bad", "last", "last_bad"}
  <2>1. DOMAIN calls = {"next", "found", "bad", "last", "last_bad"}
    BY DEF CodeInv
  <2>2. QED
    BY <2>1 DEF FindCall
<1>11. QED
  BY <1>1, <1>2, <1>7, <1>8, <1>9, <1>10 DEF CodeInv

LEMMA TranslateStep ==
  ASSUME ImportInv, CodeInv, TranslateCalls
  PROVE  CodeInv'
<1>1. /\ bphase = "translate" /\ bphase' = "pack" /\ lphase' = lphase /\ program' = program
      /\ sects' = sects /\ calls' = calls /\ calls.last # 0
      /\ code' = TranslateAll(code, calls.found, calls.last)
      /\ ctc' = CountFor(low_addr, calls.found[calls.last], calls.last)
  BY DEF TranslateCalls, ivars, lvars, TranslateAll
<1>2. /\ program.absolute /\ Spanned /\ Scanned /\ code = program.code /\ lphase = "off"
      /\ CodeLaidOut
  BY <1>1 DEF CodeInv
<1>3. CodeSize \in Nat /\ program.code \in [1 .. CodeSize -> Bytes]
  BY CodeIs DEF ImportInv, LinkerInv, CodeSize
<1>4. PICK orig, found, n : orig = program.code /\ found = calls.found /\ n = CodeSize
  OBVIOUS
<1>5. Chain(orig, n, found) /\ Len(found) \in Nat /\ n \in Nat /\ orig \in [1 .. n -> Bytes]
  BY <1>2, <1>3, <1>4 DEF Scanned, Chain
<1>6. PICK last \in 1 .. Len(found) : last = calls.last
  BY <1>1, <1>2, <1>4, <1>5 DEF Scanned
<1>7. low_addr' = low_addr /\ low_addr \in Nat /\ Spanned'
  BY <1>1, <1>2, SteadySpan DEF Spanned
<1>8. Scanned'
  BY <1>1, <1>2, SteadyScan
<1>9. ShapeFrom(0)'
  <2>1. PICK x : x = TranslateAll(orig, found, last)
    OBVIOUS
  <2>2. Shape(x, orig, n, found, 0, last)
    BY <1>5, <1>7, <2>1, TranslateAllIs
  <2>3. code' = x
    BY <1>1, <1>2, <1>4, <1>6, <2>1
  <2>4. QED
    BY <1>1, <1>4, <1>6, <1>7, <2>2, <2>3
       DEF ShapeFrom, Shape, Operand, Covers, DigitsOf, AbsoluteOf, WordAt, CodeSize
<1>10. ctc' = LeftAt(calls.found, 0, calls.last)'
  <2>1. LeftAt(calls.found, 0, calls.last)' = LeftAt(found, 0, last)
    BY <1>1, <1>4, <1>6, <1>7 DEF LeftAt, Resume
  <2>2. PICK g \in Int : g = found[last]
    BY <1>5, FoundFits
  <2>3. PICK F \in Nat \ {0}, la \in Nat : F = Field /\ la = low_addr
    BY <1>7, FieldIs
  <2>4. PICK p \in Int : p = last * (F - 1)
    BY <1>5
  <2>5. LeftAt(found, 0, last) = ((g + F) - la) - p
    <3>1. last - 0 = last
      BY <1>5
    <3>2. QED
      BY <2>2, <2>3, <2>4, <3>1 DEF LeftAt, Resume
  <2>6. CountFor(la, g, last) = LeftAt(found, 0, last)
    BY <1>5, <2>2, <2>3, <2>4, <2>5 DEF CountFor
  <2>7. QED
    BY <1>1, <1>4, <1>6, <2>1, <2>2, <2>3, <2>6
<1>11. Translations'
  BY <1>1, <1>9, <1>10 DEF Translations
<1>12. CodeLaidOut'
  BY <1>1, <1>2, SteadyLayout
<1>13. QED
  BY <1>1, <1>2, <1>7, <1>8, <1>11, <1>12 DEF CodeInv

\* Where the loader's scan is going to stop.
LEMMA NextCall ==
  ASSUME Spanned, Scanned, CodeSize \in Nat, program.code \in [1 .. CodeSize -> Bytes],
         NEW m \in Nat, m < calls.last, ShapeFrom(m),
         cell = Resume(calls.found, m), count = LeftAt(calls.found, m, calls.last)
  PROVE  /\ CallsToRestore # {}
         /\ calls.found[m + 1] \in Nat /\ Min(CallsToRestore) = calls.found[m + 1] - 1
<1>1. PICK la \in Nat, n \in Nat : la = low_addr /\ n = CodeSize /\ high_addr = la + n
  BY DEF Spanned, CodeSize
<1>2. PICK orig, found, bytes : orig = program.code /\ found = calls.found /\ bytes = code
  OBVIOUS
<1>3. Chain(orig, n, found) /\ Len(found) \in Nat /\ orig \in [1 .. n -> Bytes]
  BY <1>1, <1>2 DEF Scanned, Chain
<1>4. PICK last \in 1 .. Len(found) : last = calls.last /\ m < last
  BY <1>2, <1>3 DEF Scanned
<1>5. Shape(bytes, orig, n, found, m, last)
  BY <1>1, <1>2, <1>4 DEF ShapeFrom
<1>6. m + 1 \in 1 .. Len(found) /\ m \in 0 .. Len(found)
  BY <1>4
<1>7. PICK f \in Int : f = found[m + 1] /\ Fits(f, n)
  BY <1>3, <1>6, FoundFits
<1>8. PICK r \in Nat : r = Resume(found, m) /\ la <= r
  BY <1>1, <1>3, <1>6, ResumeIs
<1>9. /\ r + 1 <= f /\ orig[f - la] = CallByte
      /\ \A x \in r .. f - 2 : orig[(x - la) + 1] # CallByte
  <2>1. (m + 1) - 1 = m
    OBVIOUS
  <2>2. QED
    BY <1>1, <1>3, <1>6, <1>7, <1>8, <2>1 DEF Chain
<1>10. PICK w \in Nat : w = LeftAt(found, m, last) /\ f <= (r + w) - 1
  BY <1>1, <1>3, <1>4, <1>7, <1>8, CountEnough
<1>11. \A x : x \in CallsToRestore <=>
               x \in r .. (r + w) - 1 /\ x >= la /\ x < la + n /\ bytes[(x - la) + 1] = CallByte
  BY <1>1, <1>2, <1>4, <1>8, <1>10 DEF CallsToRestore, ByteAt
<1>12. ASSUME NEW x \in r .. f - 1 PROVE bytes[(x - la) + 1] = orig[(x - la) + 1]
  BY <1>1, <1>3, <1>4, <1>5, <1>7, <1>8, ScanSees, SMTT(20)
<1>13. f - 1 \in CallsToRestore
  <2>1. f - 1 \in r .. f - 1 /\ f - 1 \in r .. (r + w) - 1 /\ f - 1 >= la
    BY <1>8, <1>9, <1>10, SMTT(20)
  <2>2. f - 1 < la + n
    <3>1. PICK F \in Nat \ {0} : F = Field
      BY FieldIs
    <3>2. (f - la) + F <= n
      BY <1>1, <1>7, <3>1 DEF Fits
    <3>3. QED
      BY <3>1, <3>2
  <2>3. ((f - 1) - la) + 1 = f - la
    OBVIOUS
  <2>4. bytes[((f - 1) - la) + 1] = CallByte
    BY <1>9, <1>12, <2>1, <2>3
  <2>5. QED
    BY <1>11, <2>1, <2>2, <2>4
<1>14. ASSUME NEW x \in CallsToRestore PROVE f - 1 <= x
  <2>1. x \in r .. (r + w) - 1 /\ bytes[(x - la) + 1] = CallByte
    BY <1>11, <1>14
  <2>2. SUFFICES ASSUME x < f - 1 PROVE FALSE
    BY <2>1
  <2>3. x \in r .. f - 2 /\ x \in r .. f - 1
    BY <2>1, <2>2
  <2>4. QED
    BY <1>9, <1>12, <2>1, <2>3
<1>15. CallsToRestore \in SUBSET Nat
  BY <1>8, <1>10, <1>11
<1>16. Min(CallsToRestore) = f - 1
  BY <1>13, <1>14, <1>15, MinIsLeast
<1>17. f \in Nat
  BY <1>8, <1>9
<1>18. QED
  BY <1>2, <1>7, <1>13, <1>16, <1>17

\* The last call leaves nothing to count, and the code as it was.
LEMMA Restores ==
  ASSUME Spanned, Scanned, CodeSize \in Nat, program.code \in [1 .. CodeSize -> Bytes],
         NEW m \in Nat, m < calls.last, ShapeFrom(m), cell = Resume(calls.found, m),
         count = LeftAt(calls.found, m, calls.last),
         NEW a, a = Min(CallsToRestore), NEW left, left = count - (a - cell + 1) - 1,
         NEW x, x = WithWord(code, a + 1, Restored(a))
  PROVE  /\ Shape(x, program.code, CodeSize, calls.found, m + 1, calls.last)
         /\ a + 1 + Field = Resume(calls.found, m + 1)
         /\ left = LeftAt(calls.found, m + 1, calls.last)
         /\ left = 0 => x = program.code
         /\ left # 0 => m + 1 < calls.last
<1>1. PICK la \in Nat, n \in Nat : la = low_addr /\ n = CodeSize /\ high_addr = la + n
  BY DEF Spanned, CodeSize
<1>2. PICK orig, found, bytes : orig = program.code /\ found = calls.found /\ bytes = code
  OBVIOUS
<1>3. Chain(orig, n, found) /\ Len(found) \in Nat /\ orig \in [1 .. n -> Bytes]
  BY <1>1, <1>2 DEF Scanned, Chain
<1>4. PICK last \in 1 .. Len(found) : last = calls.last /\ m < last
  BY <1>2, <1>3 DEF Scanned
<1>5. Shape(bytes, orig, n, found, m, last)
  BY <1>1, <1>2, <1>4 DEF ShapeFrom
<1>6. PICK f \in Nat : f = found[m + 1] /\ a = f - 1 /\ a + 1 = f
  <2>1. calls.found[m + 1] \in Nat /\ a = calls.found[m + 1] - 1
    BY NextCall
  <2>2. QED
    BY <1>2, <2>1
<1>7. Shape(x, orig, n, found, m + 1, last)
  <2>1. x = WithWord(bytes, f, (WordAt(bytes, f) - f) % Words)
    BY <1>2, <1>6 DEF Restored
  <2>2. QED
    BY <1>1, <1>3, <1>4, <1>5, <1>6, <2>1, ShapeLess
<1>8. a + 1 + Field = Resume(found, m + 1)
  BY <1>6 DEF Resume
<1>9. PICK r \in Nat : r = Resume(found, m) /\ r = cell
  <2>1. m \in 0 .. Len(found)
    BY <1>4
  <2>2. QED
    BY <1>1, <1>2, <1>3, <2>1, ResumeIs
<1>10. PICK w \in Nat : w = LeftAt(found, m, last) /\ w = count
                        /\ (w - (((f - 1) - r) + 1)) - 1 = LeftAt(found, m + 1, last)
  BY <1>1, <1>2, <1>3, <1>4, <1>6, <1>9, CountEnough
<1>11. left = LeftAt(found, m + 1, last)
  BY <1>6, <1>9, <1>10
<1>12. CASE m + 1 = last
  <2>1. Shape(x, orig, n, found, last, last)
    BY <1>7, <1>12
  <2>2. x = orig
    BY <1>3, <1>4, <2>1, ShapeNone
  <2>3. left = 0
    <3>1. PICK F \in Nat \ {0} : F = Field
      BY FieldIs
    <3>2. Resume(found, last) = f + F /\ found[last] + Field = f + F
      BY <1>4, <1>6, <1>12, <3>1 DEF Resume
    <3>3. last - last = 0 /\ 0 * (F - 1) = 0 /\ (f + F) - (f + F) = 0
      BY <1>4, <3>1
    <3>4. LeftAt(found, last, last) = ((f + F) - (f + F)) - (last - last) * (F - 1)
      BY <3>1, <3>2, Zenon DEF LeftAt
    <3>5. LeftAt(found, last, last) = 0 - 0
      BY <3>3, <3>4, Zenon
    <3>6. left = LeftAt(found, last, last)
      BY <1>11, <1>12
    <3>7. 0 - 0 = 0
      OBVIOUS
    <3>8. QED
      BY <3>5, <3>6, <3>7, Zenon
  <2>4. QED
    BY <1>1, <1>2, <1>4, <1>7, <1>8, <1>11, <2>2, <2>3
<1>13. CASE m + 1 # last
  <2>1. m + 1 \in Nat /\ m + 1 < last
    BY <1>4, <1>13
  <2>2. LeftAt(found, m + 1, last) \in Nat \ {0}
    BY <1>1, <1>3, <1>4, <2>1, CountEnough
  <2>3. QED
    BY <1>1, <1>2, <1>4, <1>7, <1>8, <1>11, <2>1, <2>2
<1>14. QED
  BY <1>12, <1>13

LEMMA RestoreStep ==
  ASSUME ImportInv, CodeInv, RestoreCall
  PROVE  CodeInv'
<1>1. /\ lphase = "restore" /\ bphase' = bphase /\ program' = program
      /\ sects' = sects /\ calls' = calls /\ ctc' = ctc /\ CallsToRestore # {}
  BY DEF RestoreCall, ivars, bvars
<1>2. bphase = "file" /\ program.absolute /\ Spanned /\ Scanned /\ Translations /\ Restoring /\ CodeLaidOut
  BY <1>1 DEF CodeInv
<1>3. CodeSize \in Nat /\ program.code \in [1 .. CodeSize -> Bytes]
  BY CodeIs DEF ImportInv, LinkerInv, CodeSize
<1>4. PICK m \in Nat : /\ m < calls.last /\ ShapeFrom(m)
                       /\ cell = Resume(calls.found, m) /\ count = LeftAt(calls.found, m, calls.last)
  BY <1>2 DEF Restoring
<1>5. PICK a, left, x : /\ a = Min(CallsToRestore) /\ left = count - (a - cell + 1) - 1
                        /\ x = WithWord(code, a + 1, Restored(a))
  OBVIOUS
<1>6. /\ code' = x /\ cell' = a + 1 + Field /\ count' = left
      /\ lphase' = IF left = 0 THEN "done" ELSE "restore"
  BY <1>5 DEF RestoreCall
<1>7. /\ Shape(x, program.code, CodeSize, calls.found, m + 1, calls.last)
      /\ a + 1 + Field = Resume(calls.found, m + 1)
      /\ left = LeftAt(calls.found, m + 1, calls.last)
      /\ left = 0 => x = program.code
      /\ left # 0 => m + 1 < calls.last
  BY <1>2, <1>3, <1>4, <1>5, Restores
<1>8. low_addr' = low_addr /\ Spanned' /\ Scanned' /\ CodeLaidOut'
  BY <1>1, <1>2, SteadySpan, SteadyScan, SteadyLayout
<1>9. Translations'
  BY <1>1, <1>2, <1>6 DEF Translations
<1>10. CASE left = 0
  <2>1. lphase' = "done" /\ code' = program'.code
    BY <1>1, <1>6, <1>7, <1>10
  <2>2. QED
    BY <1>1, <1>2, <1>8, <1>9, <2>1 DEF CodeInv
<1>11. CASE left # 0
  <2>1. lphase' = "restore"
    BY <1>6, <1>11
  <2>2. PICK k \in Nat : k = m + 1 /\ k < calls.last
    BY <1>7, <1>11
  <2>3. ShapeFrom(k)'
    BY <1>1, <1>6, <1>7, <1>8, <2>2
       DEF ShapeFrom, Shape, Operand, Covers, DigitsOf, AbsoluteOf, WordAt, CodeSize
  <2>4. cell' = Resume(calls.found, k)' /\ count' = LeftAt(calls.found, k, calls.last)'
    BY <1>1, <1>6, <1>7, <2>2, SteadyScan
  <2>5. Restoring'
    BY <1>1, <2>2, <2>3, <2>4 DEF Restoring
  <2>6. QED
    BY <1>1, <1>2, <1>8, <1>9, <2>1, <2>5 DEF CodeInv
<1>12. QED
  BY <1>10, <1>11

LEMMA CollectKeepsCode ==
  ASSUME ImportInv, BinaryInv, CodeInv, Collect, UNCHANGED <<lvars, cvars>>
  PROVE  CodeInv'
<1>1. /\ bphase = "off" /\ bphase' = "place" /\ program' = program /\ code' = code
      /\ calls' = calls /\ lphase' = lphase
  BY DEF Collect, Rest, ivars, lvars, cvars
<1>2. CodeLaidOut'
  BY CollectLays
<1>3. lphase = "off"
  BY <1>1 DEF CodeInv
<1>4. QED
  BY <1>1, <1>2, <1>3 DEF CodeInv

LEMMA PlaceKeepsCode ==
  ASSUME BinaryInv, CodeInv, Place, UNCHANGED <<lvars, cvars>>
  PROVE  CodeInv'
<1>1. /\ bphase = "place" /\ bphase' = "place" /\ program' = program /\ code' = code
      /\ calls' = calls /\ lphase' = lphase
  BY DEF Place, Rest, ivars, lvars, cvars
<1>2. CodeLaidOut'
  BY PlaceLays DEF CodeInv
<1>3. lphase = "off"
  BY <1>1 DEF CodeInv
<1>4. QED
  BY <1>1, <1>2, <1>3 DEF CodeInv

\* The code's addresses are known when the last reference is.
LEMMA RelocatedCode ==
  ASSUME ImportInv, BinaryInv, CodeInv, Relocated, UNCHANGED <<lvars, cvars>>
  PROVE  CodeInv'
<1>1. /\ bphase = "relocate" /\ program' = program /\ code' = code /\ sects' = sects
      /\ calls' = calls /\ lphase' = lphase
      /\ bphase' = IF program.absolute THEN "translate" ELSE "pack"
  BY DEF Relocated, Rest, ivars, lvars, cvars
<1>2. /\ lphase = "off" /\ code = program.code /\ CodeLaidOut
      /\ calls.next = 0 /\ calls.found = <<>> /\ calls.last = 0
  BY <1>1 DEF CodeInv
<1>3. CodeLaidOut'
  BY <1>1, <1>2, SteadyLayout
<1>4. program.absolute => Spanned' /\ Scanned'
  <2>1. SUFFICES ASSUME program.absolute PROVE Spanned' /\ Scanned'
    OBVIOUS
  <2>2. ~onekpaq /\ Len(program.code) \in Nat \ {0}
    BY <2>1, CodeIs DEF ImportInv, LinkerInv
  <2>3. PICK k : Whole(k) /\ InPlace(k)
    BY <1>1 DEF BinaryInv
  <2>4. Coded(sects)
    BY <1>1, <1>2, <2>1 DEF CodeLaidOut
  <2>5. Spanned
    BY <2>2, <2>3, <2>4, SpanIs
  <2>6. Scanned
    <3>1. low_addr \in Nat
      BY <2>5 DEF Spanned
    <3>2. Len(calls.found) = 0 /\ calls.found \in [1 .. 0 -> Int]
      BY <1>2
    <3>3. Chain(program.code, CodeSize, calls.found)
      BY <3>2 DEF Chain
    <3>4. Scan = Resume(calls.found, Len(calls.found))
      BY <1>2, <3>1, <3>2 DEF Scan, Resume
    <3>5. QED
      BY <1>2, <3>2, <3>3, <3>4 DEF Scanned
  <2>7. QED
    BY <1>1, <2>5, <2>6, SteadySpan, SteadyScan
<1>5. QED
  BY <1>1, <1>2, <1>3, <1>4 DEF CodeInv

LEMMA LinkerKeepsCode ==
  ASSUME ImportInv, BinaryInv, CodeInv, Link
  PROVE  CodeInv'
<1>1. CASE FindCall \/ TranslateCalls
  BY <1>1, FindCallStep, TranslateStep
<1>2. CASE CannotTranslate
  <2>1. bphase = "translate" /\ bphase' = "refused"
    BY <1>2 DEF CannotTranslate
  <2>2. lphase = "off"
    BY <2>1 DEF CodeInv
  <2>3. /\ program' = program /\ sects' = sects /\ calls' = calls /\ code' = code /\ ctc' = ctc
        /\ lphase' = lphase /\ cell' = cell /\ count' = count
    BY <1>2 DEF CannotTranslate, ivars, lvars, cvars
  <2>4. QED
    BY <2>1, <2>2, <2>3, SteadyCode
<1>3. CASE BNext /\ UNCHANGED <<lvars, cvars>>
  <2>1. CASE Collect
    BY <1>3, <2>1, CollectKeepsCode
  <2>2. CASE Place
    BY <1>3, <2>2, PlaceKeepsCode
  <2>3. CASE Relocated
    BY <1>3, <2>3, RelocatedCode
  <2>4. CASE TooSmallArea \/ Placed \/ Relocate \/ CannotRelocate \/ Pack \/ PackNothing \/ Pad
    <3>1. /\ program' = program /\ sects' = sects
          /\ \/ bphase = "place" /\ bphase' \in {"refused", "relocate"}
             \/ bphase = "relocate" /\ bphase' \in {"relocate", "refused"}
             \/ bphase = "pack" /\ bphase' = "pad"
             \/ bphase = "pad" /\ bphase' = "file"
      <4>1. CASE TooSmallArea \/ Placed
        BY <4>1 DEF TooSmallArea, Placed, Rest, ivars
      <4>2. CASE Relocate \/ CannotRelocate
        BY <4>2 DEF Relocate, CannotRelocate, Rest, ivars
      <4>3. CASE Pack
        BY <4>3 DEF Pack, Rest, ivars
      <4>4. CASE PackNothing \/ Pad
        BY <4>4 DEF PackNothing, Pad, Rest, ivars
      <4>5. QED
        BY <2>4, <4>1, <4>2, <4>3, <4>4
    <3>2. lphase = "off"
      BY <3>1 DEF CodeInv
    <3>3. /\ calls' = calls /\ code' = code /\ ctc' = ctc
          /\ lphase' = lphase /\ cell' = cell /\ count' = count
      BY <1>3 DEF lvars, cvars
    <3>4. QED
      BY <3>1, <3>2, <3>3, SteadyCode
  <2>5. QED
    BY <1>3, <2>1, <2>2, <2>3, <2>4 DEF BNext
<1>4. QED
  BY <1>1, <1>2, <1>3 DEF Link, CLink

\* The loader before it comes to the calls.
LEMMA BindingKeepsCode ==
  ASSUME CodeInv, bphase = "file", program' = program, sects' = sects, bphase' = bphase,
         UNCHANGED cvars, lphase \notin {"calls", "restore", "done"}, lphase' # "restore",
         lphase' = "calls" => program.absolute, lphase' = "done" => ~program.absolute
  PROVE  CodeInv'
<1>1. calls' = calls /\ code' = code /\ ctc' = ctc
  BY DEF cvars
<1>2. /\ Scanned' <=> Scanned
      /\ \A m : LeftAt(calls.found, m, calls.last)' = LeftAt(calls.found, m, calls.last)
      /\ \A m : ShapeFrom(m)' <=> ShapeFrom(m)
  BY <1>1, SteadyScan
<1>3. Spanned' <=> Spanned
  BY SteadySpan
<1>4. Translations => Translations'
  BY <1>1, <1>2 DEF Translations
<1>5. CodeLaidOut'
  BY SteadyLayout DEF CodeInv
<1>6. QED
  BY <1>1, <1>2, <1>3, <1>4, <1>5 DEF CodeInv

LEMMA StartRestoreStep ==
  ASSUME CodeInv, StartRestore
  PROVE  CodeInv'
<1>1. /\ lphase = "calls" /\ lphase' = "restore" /\ bphase' = bphase /\ program' = program
      /\ sects' = sects /\ calls' = calls /\ ctc' = ctc /\ code' = code
      /\ count' = ctc /\ cell' = CodeEnd
  BY DEF StartRestore, ivars, bvars, cvars
<1>2. bphase = "file" /\ program.absolute /\ Spanned /\ Scanned /\ Translations /\ CodeLaidOut
  BY <1>1 DEF CodeInv
<1>3. Spanned' /\ Scanned' /\ CodeLaidOut'
  BY <1>1, <1>2, SteadySpan, SteadyScan, SteadyLayout
<1>4. Translations'
  BY <1>1, <1>2 DEF Translations
<1>5. Restoring'
  <2>1. 0 < calls.last
    BY <1>2 DEF Scanned, Translations
  <2>2. ShapeFrom(0) /\ ctc = LeftAt(calls.found, 0, calls.last)
    BY <1>1, <1>2 DEF Translations
  <2>3. CodeEnd = Resume(calls.found, 0)
    BY <1>2 DEF Spanned, Resume
  <2>4. ShapeFrom(0)' /\ cell' = Resume(calls.found, 0)'
        /\ count' = LeftAt(calls.found, 0, calls.last)'
    BY <1>1, <2>2, <2>3, SteadyScan
  <2>5. QED
    BY <1>1, <2>1, <2>4 DEF Restoring
<1>6. QED
  BY <1>1, <1>2, <1>3, <1>4, <1>5 DEF CodeInv

LEMMA LoaderKeepsCode ==
  ASSUME ImportInv, CodeInv, Load
  PROVE  CodeInv'
<1>1. CASE StartRestore \/ RestoreCall
  BY <1>1, StartRestoreStep, RestoreStep
<1>2. CASE LNext /\ UNCHANGED <<bvars, cvars>>
  <2>1. bphase = "file" /\ sects' = sects /\ bphase' = bphase /\ UNCHANGED cvars
    BY <1>2 DEF Load, Linked, bvars
  <2>2. /\ program' = program /\ lphase \notin {"calls", "restore", "done"} /\ lphase' # "restore"
        /\ lphase' = "calls" => program.absolute
        /\ lphase' = "done" => ~program.absolute
    <3>1. CASE Start \/ BrowseMach
      BY <3>1 DEF Start, BrowseMach, ivars
    <3>2. CASE NextSymbol \/ FoundSymbol
      BY <3>2 DEF NextSymbol, FoundSymbol, ivars
    <3>3. CASE NextGroup
      BY <3>3 DEF NextGroup
    <3>4. CASE NextImage \/ FoundImage
      BY <3>4 DEF NextImage, FoundImage, ivars
    <3>5. QED
      BY <1>2, <3>1, <3>2, <3>3, <3>4 DEF LNext
  <2>3. QED
    BY <2>1, <2>2, BindingKeepsCode
<1>3. QED
  BY <1>1, <1>2 DEF Load, CLoad

LEMMA CodeNext == ImportInv /\ BinaryInv /\ CodeInv /\ [Next]_vars => CodeInv'
<1> SUFFICES ASSUME ImportInv, BinaryInv, CodeInv, [Next]_vars PROVE CodeInv'
  OBVIOUS
<1>1. CASE Import
  <2>1. program' = program
    BY <1>1 DEF Import, INext, Resolve, CannotResolve, Sort, FindParents, AskParent, Answer,
                FoundParents, AllParents, Enter, TryCombination, Mark, mapvars,
                WriteEntry, CannotWrite, WriteEnd
  <2>2. UNCHANGED <<bvars, lvars, cvars>>
    BY <1>1 DEF Import
  <2>3. QED
    BY <2>1, <2>2, SteadyCode DEF bvars, lvars, cvars
<1>2. CASE Link
  BY <1>2, LinkerKeepsCode
<1>3. CASE Load
  BY <1>3, LoaderKeepsCode
<1>4. CASE UNCHANGED vars
  BY <1>4, SteadyCode DEF vars, ivars, bvars, lvars, cvars
<1>5. QED
  BY <1>1, <1>2, <1>3, <1>4 DEF Next, Terminating

LEMMA RestoredAtLast == ImportInv /\ CodeInv => CodeRestored
<1> SUFFICES ASSUME ImportInv, CodeInv PROVE CodeRestored
  OBVIOUS
<1>1. ASSUME lphase = "restore" PROVE CallsToRestore # {}
  <2>1. Spanned /\ Scanned /\ Restoring
    BY <1>1 DEF CodeInv
  <2>2. CodeSize \in Nat /\ program.code \in [1 .. CodeSize -> Bytes]
    BY CodeIs DEF ImportInv, LinkerInv, CodeSize
  <2>3. PICK m \in Nat : /\ m < calls.last /\ ShapeFrom(m)
                         /\ cell = Resume(calls.found, m)
                         /\ count = LeftAt(calls.found, m, calls.last)
    BY <2>1 DEF Restoring
  <2>4. QED
    BY <2>1, <2>2, <2>3, NextCall
<1>2. QED
  BY <1>1 DEF CodeInv, CodeRestored

-----------------------------------------------------------------------------
(* References.                                                             *)

\* What a reference needs, and what becomes of it, is settled when everything has its place.
LEMMA SteadyValue ==
  ASSUME program' = program, lmap' = lmap, sects' = sects, jtbl_off' = jtbl_off
  PROVE  /\ \A s, r : Kept(s, r)' <=> Kept(s, r)
         /\ \A n, r : Value(n, r)' = Value(n, r)
         /\ \A s, r : Translatable(s, r)' <=> Translatable(s, r)
         /\ \A n, k : BytesInFront(n, k)' = BytesInFront(n, k)
         /\ \A d, e : InFront(d, e)' <=> InFront(d, e)
         /\ \A name : SlotAddress(name)' = SlotAddress(name)
         /\ \A d : IsLastSource(d)' <=> IsLastSource(d)
<1>1. /\ libs' = libs
      /\ \A e : Func(e)' = Func(e)
  BY DEF libs, Func
<1>2. \A name : Slots(name)' = Slots(name) /\ SlotOf(name)' = SlotOf(name)
  BY <1>1 DEF Slots, SlotOf
<1>3. \A name : Definitions(name)' = Definitions(name) /\ SymbolOf(name)' = SymbolOf(name)
  BY DEF Definitions, SymbolOf
<1>4. \A obj, num : SectOf(obj, num)' = SectOf(obj, num)
  BY DEF SectOf
<1>5. \A s, r : SectionMeant(s, r)' = SectionMeant(s, r)
  BY DEF SectionMeant
<1>6. HashSect' = HashSect /\ RunsAt' = RunsAt
  BY DEF HashSect, RunsAt
<1>7. \A at, y : SymbolOffset(at, y)' = SymbolOffset(at, y)
  BY <1>4 DEF SymbolOffset
<1>8. \A name : SpecialOffset(name)' = SpecialOffset(name)
  BY <1>6 DEF SpecialOffset
<1>9. \A form, k : ImportOffset(form, k)' = ImportOffset(form, k)
  BY DEF ImportOffset
<1>10. \A r : ExternOffset(r)' = ExternOffset(r)
  BY <1>2, <1>3, <1>6, <1>7, <1>8, <1>9 DEF ExternOffset
<1>11. \A name : LookedUp(name)' = LookedUp(name)
  BY <1>2, <1>3, <1>7 DEF LookedUp
<1>12. \A name : CanLookUp(name)' <=> CanLookUp(name)
  BY <1>2, <1>3, <1>4 DEF CanLookUp, Stays
<1>13. \A s, t, r : TableEntry(s, t, r)' = TableEntry(s, t, r)
  BY DEF TableEntry
<1>14. \A s, r : Kept(s, r)' <=> Kept(s, r)
  BY <1>2, <1>3, <1>4, <1>5, <1>12, <1>13 DEF Kept, Stays
<1>15. \A n : OwnerOf(n)' = OwnerOf(n)
  BY DEF OwnerOf
<1>16. \A s, r : Number(s, r)' = Number(s, r)
  BY <1>5, <1>10, <1>11, <1>13 DEF Number
<1>17. \A n, r : Astray(n, r)' <=> Astray(n, r)
  BY <1>5, <1>13, <1>15 DEF Astray
<1>18. \A n, r : Value(n, r)' = Value(n, r)
  BY <1>16, <1>17 DEF Value
<1>19. \A name : SlotAddress(name)' = SlotAddress(name)
  BY <1>2 DEF SlotAddress
<1>20. \A s, r : Translatable(s, r)' <=> Translatable(s, r)
  BY <1>2, <1>19 DEF Translatable
<1>21. \A d, e : InFront(d, e)' <=> InFront(d, e)
  BY DEF InFront
<1>22. \A n, r, done : LastByte(n, r, done)' = LastByte(n, r, done)
  BY <1>18 DEF LastByte
<1>23. \A n, k : BytesInFront(n, k)' = BytesInFront(n, k)
  BY <1>21, <1>22 DEF BytesInFront
<1>24. \A d : IsLastSource(d)' <=> IsLastSource(d)
  BY DEF IsLastSource, SourceFields, Refs
<1>25. QED
  BY <1>14, <1>18, <1>19, <1>20, <1>21, <1>23, <1>24

-----------------------------------------------------------------------------
(* What the sections are made of.                                          *)

\* Section s is section p of an object.
MadeFrom(s, p) ==
  /\ s.obj = p.obj /\ s.num = p.num /\ s.seg = p.seg /\ s.name = p.name
  /\ s.uaddr = p.uaddr /\ s.jumps = p.jumps /\ s.refs = p.refs
  /\ p.length \in Nat /\ s.length >= p.length /\ (s.obj # 0 => s.length = p.length)

\* One of link_binary's own sections, which refer to nothing.
Own(s) ==
  /\ s.obj = 2 /\ s.uaddr = 0 /\ s.jumps = <<>> /\ s.refs = <<>>
  /\ \/ s.num = HashNum /\ SectionType(s) = DATA
     \/ s.num = JumpNum /\ SectionType(s) = BSS

\* The image has all the objects' sections and both of its own, and each once.
MadeOf(c) ==
  /\ \A n \in DOMAIN c : Own(c[n]) \/ \E m \in DOMAIN program.sects : MadeFrom(c[n], program.sects[m])
  /\ \A m \in DOMAIN program.sects : \E n \in DOMAIN c : MadeFrom(c[n], program.sects[m])
  /\ \E n \in DOMAIN c : c[n].obj = 2 /\ c[n].num = HashNum
  /\ \E n \in DOMAIN c : c[n].obj = 2 /\ c[n].num = JumpNum
  /\ \A m, n \in DOMAIN c : m # n => c[m].obj # c[n].obj \/ c[m].num # c[n].num

LEMMA CollectedAt ==
  ASSUME NEW k \in Nat, DOMAIN program.sects = 1 .. k
  PROVE  /\ DOMAIN Collected = 1 .. k + 2
         /\ \A n \in 1 .. k : Collected[n] = WithLibraries(program.sects[n])
         /\ Collected[k + 1] = HashSection /\ Collected[k + 2] = JumpSection
<1>1. PICK w : w = [n \in 1 .. k |-> WithLibraries(program.sects[n])]
  OBVIOUS
<1>2. PICK h, j : h = HashSection /\ j = JumpSection
  OBVIOUS
<1>3. PICK W : W = Range(w) \cup {h, j}
  OBVIOUS
<1>4. \A n \in 1 .. k : w[n] \in W
  BY <1>1, <1>3 DEF Range
<1>5. w \in Seq(W) /\ Len(w) = k
  BY <1>1, <1>4
<1>6. PICK f : f = <<h, j>> /\ f \in Seq(W) /\ Len(f) = 2 /\ f[1] = h /\ f[2] = j
  <2>1. h \in W /\ j \in W
    BY <1>3
  <2>2. <<h, j>> \in Seq(W)
    BY <2>1
  <2>3. Len(<<h, j>>) = 2 /\ <<h, j>>[1] = h /\ <<h, j>>[2] = j
    OBVIOUS
  <2>4. QED
    BY <2>2, <2>3
<1>7. PICK V : V = W
  OBVIOUS
<1>8. w \in Seq(V) /\ f \in Seq(V)
  BY <1>5, <1>6, <1>7
<1>9. /\ w \o f \in Seq(V) /\ Len(w \o f) = Len(w) + 2
      /\ \A n \in 1 .. Len(w) : (w \o f)[n] = w[n]
      /\ (w \o f)[Len(w) + 1] = f[1] /\ (w \o f)[Len(w) + 2] = f[2]
  BY <1>6, <1>8, TwoMore
<1>10. PICK c : c = w \o f
  OBVIOUS
<1>11. Collected = c
  BY <1>1, <1>2, <1>6, <1>10 DEF Collected
<1>12. DOMAIN c = 1 .. k + 2 /\ c[k + 1] = h /\ c[k + 2] = j /\ \A n \in 1 .. k : c[n] = w[n]
  BY <1>5, <1>6, <1>9, <1>10
<1>13. QED
  BY <1>1, <1>2, <1>11, <1>12

LEMMA CollectedMade ==
  ASSUME program \in Programs, Listed(lmap)
  PROVE  MadeOf(Collected)
<1>1. PICK k \in Nat :
        /\ DOMAIN program.sects = 1 .. k
        /\ \A n \in 1 .. k :
             LET s == program.sects[n]
             IN  /\ s.obj \in Nat /\ s.num \in Nat /\ s.length \in Nat
                 /\ s.num < HashNum
                 /\ \A m \in 1 .. k : m # n =>
                      program.sects[m].obj # s.obj \/ program.sects[m].num # s.num
                 /\ s.obj < 3 => s.seg = "__TEXT" /\ s.name = "__text" /\ s.length > 0
        /\ \E n \in 1 .. k : program.sects[n].obj = 2
  BY ObjectsAre
<1>2. PICK c, h, j : c = Collected /\ h = HashSection /\ j = JumpSection
  OBVIOUS
<1>3. /\ DOMAIN c = 1 .. k + 2 /\ c[k + 1] = h /\ c[k + 2] = j
      /\ \A n \in 1 .. k : c[n] = WithLibraries(program.sects[n])
  BY <1>1, <1>2, CollectedAt
<1>4. Own(h) /\ Own(j) /\ h.num = HashNum /\ j.num = JumpNum /\ h.obj = 2 /\ j.obj = 2
  <2>1. PICK a \in Nat \ {0}, b \in Nat \ {0} : a = HashTableBytes /\ b = ItemSize * Len(lmap) + AddrOffset
    BY TableBytes
  <2>2. h = Added(HashNum, "hash", a) /\ j = Added(JumpNum, "__bss", b)
    BY <1>2, <2>1 DEF HashSection, JumpSection
  <2>3. /\ h.obj = 2 /\ h.num = HashNum /\ h.length = a /\ h.seg = "__DATA" /\ h.name = "hash"
        /\ h.uaddr = 0 /\ h.jumps = <<>> /\ h.refs = <<>>
        /\ j.obj = 2 /\ j.num = JumpNum /\ j.length = b /\ j.seg = "__DATA" /\ j.name = "__bss"
        /\ j.uaddr = 0 /\ j.jumps = <<>> /\ j.refs = <<>>
    BY <2>2 DEF Added
  <2>4. SectionType(h) = DATA /\ SectionType(j) = BSS
    BY <2>1, <2>3 DEF SectionType, DATA, BSS
  <2>5. QED
    BY <2>3, <2>4 DEF Own
<1>5. ASSUME NEW n \in 1 .. k PROVE MadeFrom(c[n], program.sects[n])
  <2>1. PICK s : s = program.sects[n] /\ s.length \in Nat
    BY <1>1
  <2>2. PICK length \in Nat : length = (IF isheader(s) THEN s.length + LoadCommands ELSE s.length)
                              /\ length >= s.length /\ (~isheader(s) => length = s.length)
    <3>1. LoadCommands \in Nat
      BY CommandsAre
    <3>2. QED
      BY <2>1, <3>1
  <2>3. c[n] = linksect(s, length)
    BY <1>3, <2>1, <2>2 DEF WithLibraries
  <2>4. MadeFrom(linksect(s, length), s)
    BY <2>1, <2>2 DEF linksect, MadeFrom, isheader
  <2>5. QED
    BY <2>1, <2>3, <2>4
<1>6. \A n \in DOMAIN c : n \in 1 .. k \/ n = k + 1 \/ n = k + 2
  BY <1>3
<1>7. /\ \A n \in DOMAIN c : Own(c[n]) \/ \E m \in DOMAIN program.sects : MadeFrom(c[n], program.sects[m])
      /\ \A m \in DOMAIN program.sects : \E n \in DOMAIN c : MadeFrom(c[n], program.sects[m])
  <2>1. 1 .. k \in SUBSET DOMAIN c
    BY <1>3
  <2>2. QED
    BY <1>1, <1>3, <1>4, <1>5, <1>6, <2>1
<1>8. /\ \E n \in DOMAIN c : c[n].obj = 2 /\ c[n].num = HashNum
      /\ \E n \in DOMAIN c : c[n].obj = 2 /\ c[n].num = JumpNum
  <2>1. k + 1 \in DOMAIN c /\ k + 2 \in DOMAIN c
    BY <1>3
  <2>2. QED
    BY <1>3, <1>4, <2>1
<1>9. \A m, n \in DOMAIN c : m # n => c[m].obj # c[n].obj \/ c[m].num # c[n].num
  <2>1. CollectedSects(c)
    BY <1>2, CollectedIs
  <2>2. QED
    BY <2>1 DEF CollectedSects
<1>10. QED
  BY <1>2, <1>7, <1>8, <1>9 DEF MadeOf

\* Sections that only move are made of the same.
LEMMA MadeAlike ==
  ASSUME NEW c, NEW d, DOMAIN d = DOMAIN c, \A n \in DOMAIN c : Alike(c[n], d[n]), MadeOf(c)
  PROVE  MadeOf(d)
<1>1. \A n \in DOMAIN c : Own(c[n]) => Own(d[n])
  BY DEF Alike, Own, SectionType
<1>2. \A n \in DOMAIN c : \A p : MadeFrom(c[n], p) => MadeFrom(d[n], p)
  BY DEF Alike, MadeFrom
<1>3. \A n \in DOMAIN c : d[n].obj = c[n].obj /\ d[n].num = c[n].num
  BY DEF Alike
<1>4. QED
  BY <1>1, <1>2, <1>3 DEF MadeOf

\* So are they in another order.
Reorders(p, N, c, d) ==
  /\ DOMAIN c = 1 .. N /\ DOMAIN d = 1 .. N
  /\ \A k, l \in 1 .. N : p[k] = p[l] => k = l
  /\ \A n \in 1 .. N : \E k \in 1 .. N : p[k] = n
  /\ \A k \in 1 .. N : p[k] \in 1 .. N /\ d[k] = c[p[k]]

LEMMA MadeInOrder ==
  ASSUME NEW c, NEW d, NEW N, NEW p, Reorders(p, N, c, d), MadeOf(c)
  PROVE  MadeOf(d)
<1>1. DOMAIN d = 1 .. N /\ \A k \in 1 .. N : p[k] \in 1 .. N /\ d[k] = c[p[k]]
  BY DEF Reorders
<1>2. ASSUME NEW n \in 1 .. N PROVE \E k \in 1 .. N : d[k] = c[n]
  <2>1. PICK k \in 1 .. N : p[k] = n
    BY DEF Reorders
  <2>2. d[k] = c[n]
    BY <1>1, <2>1, Zenon
  <2>3. QED
    BY <2>2
<1>3. \A k, l \in 1 .. N : k # l => p[k] # p[l]
  BY DEF Reorders
<1>4. /\ \A n \in 1 .. N : Own(c[n]) \/ \E m \in DOMAIN program.sects : MadeFrom(c[n], program.sects[m])
      /\ \A m \in DOMAIN program.sects : \E n \in 1 .. N : MadeFrom(c[n], program.sects[m])
      /\ \E n \in 1 .. N : c[n].obj = 2 /\ c[n].num = HashNum
      /\ \E n \in 1 .. N : c[n].obj = 2 /\ c[n].num = JumpNum
      /\ \A m, n \in 1 .. N : m # n => c[m].obj # c[n].obj \/ c[m].num # c[n].num
  BY Zenon DEF MadeOf, Reorders
<1>5. ASSUME NEW n \in DOMAIN d
      PROVE  Own(d[n]) \/ \E m \in DOMAIN program.sects : MadeFrom(d[n], program.sects[m])
  <2>1. PICK k \in 1 .. N : d[n] = c[k]
    BY <1>1
  <2>2. QED
    BY <1>4, <2>1
<1>6. ASSUME NEW m \in DOMAIN program.sects PROVE \E n \in DOMAIN d : MadeFrom(d[n], program.sects[m])
  <2>1. PICK n \in 1 .. N : MadeFrom(c[n], program.sects[m])
    BY <1>4
  <2>2. PICK k \in 1 .. N : d[k] = c[n]
    BY <1>2
  <2>3. QED
    BY <1>1, <2>1, <2>2
<1>7. ASSUME NEW num, \E n \in 1 .. N : c[n].obj = 2 /\ c[n].num = num
      PROVE  \E n \in DOMAIN d : d[n].obj = 2 /\ d[n].num = num
  <2>1. PICK n \in 1 .. N : c[n].obj = 2 /\ c[n].num = num
    BY <1>7
  <2>2. PICK k \in 1 .. N : d[k] = c[n]
    BY <1>2
  <2>3. QED
    BY <1>1, <2>1, <2>2
<1>8. ASSUME NEW m \in DOMAIN d, NEW n \in DOMAIN d, m # n
      PROVE  d[m].obj # d[n].obj \/ d[m].num # d[n].num
  <2>1. PICK k \in 1 .. N, l \in 1 .. N : k # l /\ d[m] = c[k] /\ d[n] = c[l]
    <3>1. m \in 1 .. N /\ n \in 1 .. N
      BY <1>1
    <3>2. p[m] # p[n] /\ p[m] \in 1 .. N /\ p[n] \in 1 .. N /\ d[m] = c[p[m]] /\ d[n] = c[p[n]]
      BY <1>1, <1>3, <1>8, <3>1, Zenon
    <3>3. QED
      BY <3>2, Zenon
  <2>2. c[k].obj # c[l].obj \/ c[k].num # c[l].num
    BY <1>4, <2>1, Zenon
  <2>3. QED
    BY <2>1, <2>2
<1>9. QED
  <2>1. /\ \E n \in DOMAIN d : d[n].obj = 2 /\ d[n].num = HashNum
        /\ \E n \in DOMAIN d : d[n].obj = 2 /\ d[n].num = JumpNum
    BY <1>4, <1>7
  <2>2. QED
    BY <1>5, <1>6, <1>8, <2>1 DEF MadeOf

-----------------------------------------------------------------------------
(* References of the objects.                                              *)

\* What a reference by name asks for is there.
Leads(r) ==
  /\ r \in Reference /\ r.value < Words
  /\ r.kind = "extern" =>
       /\ r.name = Source => r.addend = 0 /\ ~r.pcrel /\ r.width = Field
       /\ r.name = Destination => onekpaq

\* No field ends where a relative one begins, nor does a section begin there.
Opcoded(s) ==
  \A k \in DOMAIN s.refs : s.refs[k].pcrel =>
    s.refs[k].at > 0 /\ \A q \in DOMAIN s.refs : s.refs[q].at + s.refs[q].width # s.refs[k].at

Part(p) ==
  /\ p.obj \in Nat /\ p.num \in Nat /\ p.uaddr \in Nat /\ p.length \in Nat
  /\ p.obj < 3 =>
       p.num = 1 /\ p.seg = "__TEXT" /\ p.name = "__text" /\ p.length > 0 /\ p.jumps = <<>>
  /\ (\A k \in DOMAIN p.refs : Leads(p.refs[k])) /\ Opcoded(p)

LEMMA PartsAre ==
  ASSUME program \in Programs
  PROVE  /\ \A m \in DOMAIN program.sects : Part(program.sects[m])
         /\ \A obj \in 0 .. 2 : \E m \in DOMAIN program.sects : program.sects[m].obj = obj
<1>1. /\ program.sects \in Seq(Sections)
      /\ \A obj \in 0 .. 2 : \E n \in DOMAIN program.sects : program.sects[n].obj = obj
      /\ \A n \in DOMAIN program.sects :
           /\ program.sects[n].obj < 3 =>
                /\ program.sects[n].num = 1
                /\ program.sects[n].seg = "__TEXT" /\ program.sects[n].name = "__text"
                /\ program.sects[n].length > 0
  BY SizesAssumption, ZenonT(30) DEF ObjectAssumption
<1>2. ASSUME NEW n \in DOMAIN program.sects, NEW k \in DOMAIN program.sects[n].refs
      PROVE  LET s == program.sects[n]
             IN  /\ s.refs[k].value < Words
                 /\ s.refs[k].pcrel =>
                      /\ s.refs[k].at > 0
                      /\ \A q \in DOMAIN s.refs : s.refs[q].at + s.refs[q].width # s.refs[k].at
  <2>1. \A r \in DOMAIN program.sects[n].refs :
          LET s == program.sects[n]
          IN  /\ s.refs[r].at + s.refs[r].width <= s.length
              /\ s.refs[r].value < Words
              /\ \A q \in DOMAIN s.refs \ {r} :
                   \/ s.refs[q].at + s.refs[q].width <= s.refs[r].at
                   \/ s.refs[r].at + s.refs[r].width <= s.refs[q].at
              /\ s.refs[r].pcrel =>
                   /\ s.refs[r].at > 0
                   /\ \A q \in DOMAIN s.refs : s.refs[q].at + s.refs[q].width # s.refs[r].at
    BY SizesAssumption, ZenonT(30) DEF ObjectAssumption
  <2>2. QED
    BY <2>1, Zenon
<1>3. ASSUME NEW n \in DOMAIN program.sects
      PROVE  /\ program.sects[n].obj < 3 => program.sects[n].jumps = <<>>
             /\ \A k \in DOMAIN program.sects[n].refs :
                  LET r == program.sects[n].refs[k]
                  IN  r.kind = "extern" =>
                        /\ r.name = Source => r.addend = 0 /\ ~r.pcrel /\ r.width = Field
                        /\ r.name = Destination => program.onekpaq
  BY ReferenceAssumption, Zenon
<1>4. PICK T : T = Sections
  OBVIOUS
<1>5. PICK s \in Seq(T) : s = program.sects
  BY <1>1, <1>4, Zenon
<1>6. PICK k \in Nat : k = Len(s) /\ DOMAIN s = 1 .. k /\ \A n \in 1 .. k : s[n] \in T
  OBVIOUS
<1>7. \A t \in Sections : /\ t.obj \in Nat /\ t.num \in Nat /\ t.length \in Nat /\ t.uaddr \in Nat
                          /\ t.refs \in Seq(Reference)
  BY DEF Sections
<1>8. \A x : x \in Seq(Reference) => \A y \in DOMAIN x : x[y] \in Reference
  <2>1. PICK R : R = Reference
    OBVIOUS
  <2>2. \A x : x \in Seq(R) => \A y \in DOMAIN x : x[y] \in R
    OBVIOUS
  <2>3. QED
    BY <2>1, <2>2, Zenon
<1>9. ASSUME NEW m \in DOMAIN program.sects PROVE Part(program.sects[m])
  <2>1. program.sects[m] \in Sections
    BY <1>4, <1>5, <1>6, Zenon
  <2>2. PICK p : p = program.sects[m]
    OBVIOUS
  <2>3. /\ p.obj \in Nat /\ p.num \in Nat /\ p.uaddr \in Nat /\ p.length \in Nat
        /\ p.refs \in Seq(Reference)
    BY <1>7, <2>1, <2>2, Zenon
  <2>4. p.obj < 3 =>
          p.num = 1 /\ p.seg = "__TEXT" /\ p.name = "__text" /\ p.length > 0 /\ p.jumps = <<>>
    BY <1>1, <1>3, <2>2, Zenon
  <2>5. ASSUME NEW y \in DOMAIN p.refs PROVE Leads(p.refs[y])
    <3>1. p.refs[y] \in Reference
      BY <1>8, <2>3, Zenon
    <3>2. /\ p.refs[y].value < Words
          /\ p.refs[y].kind = "extern" =>
               /\ p.refs[y].name = Source =>
                    p.refs[y].addend = 0 /\ ~p.refs[y].pcrel /\ p.refs[y].width = Field
               /\ p.refs[y].name = Destination => onekpaq
      BY <1>3, <1>2, <2>2, Zenon DEF onekpaq
    <3>3. QED
      BY <3>1, <3>2, Zenon DEF Leads
  <2>6. Opcoded(p)
    BY <1>2, <2>2, Zenon DEF Opcoded
  <2>7. Part(p)
    BY <2>3, <2>4, <2>5, <2>6, Zenon DEF Part
  <2>8. QED
    BY <2>2, <2>7
<1>10. QED
  BY <1>1, <1>9, Zenon

\* What a section of the image is.
InImage(s) ==
  /\ s.uaddr \in Nat
  /\ s.obj < 2 => s.num = 1 /\ SectionType(s) = TEXT
  /\ s.obj = 2 => (s.num = 1 /\ SectionType(s) = TEXT) \/ Own(s)
  /\ s.obj < 3 => s.jumps = <<>>
  /\ (\A k \in DOMAIN s.refs : Leads(s.refs[k])) /\ Opcoded(s)

LEMMA ImageIs ==
  ASSUME program \in Programs, NEW c, MadeOf(c), \A n \in DOMAIN c : Raw(c[n])
  PROVE  \A n \in DOMAIN c : InImage(c[n])
<1>1. \A m \in DOMAIN program.sects : Part(program.sects[m])
  BY PartsAre
<1> SUFFICES ASSUME NEW n \in DOMAIN c PROVE InImage(c[n])
  OBVIOUS
<1>2. PICK s : s = c[n] /\ Raw(s)
  OBVIOUS
<1>3. CASE Own(s)
  <2>1. s.uaddr \in Nat /\ s.obj = 2 /\ s.jumps = <<>> /\ DOMAIN s.refs = {}
    BY <1>3 DEF Own
  <2>2. InImage(s)
    BY <1>3, <2>1 DEF InImage, Opcoded
  <2>3. QED
    BY <1>2, <2>2
<1>4. CASE ~Own(s)
  <2>1. PICK m, p : m \in DOMAIN program.sects /\ p = program.sects[m] /\ MadeFrom(s, p) /\ Part(p)
    BY <1>1, <1>2, <1>4 DEF MadeOf
  <2>2. /\ s.obj = p.obj /\ s.num = p.num /\ s.seg = p.seg /\ s.name = p.name
        /\ s.uaddr = p.uaddr /\ s.jumps = p.jumps /\ s.refs = p.refs /\ s.length >= p.length
    BY <2>1 DEF MadeFrom
  <2>3. s.uaddr \in Nat
    BY <2>1, <2>2 DEF Part
  <2>4. s.obj < 3 => s.num = 1 /\ s.jumps = <<>> /\ SectionType(s) = TEXT
    <3>1. SUFFICES ASSUME s.obj < 3 PROVE s.num = 1 /\ s.jumps = <<>> /\ SectionType(s) = TEXT
      OBVIOUS
    <3>2. /\ p.num = 1 /\ p.seg = "__TEXT" /\ p.name = "__text" /\ p.length > 0 /\ p.jumps = <<>>
          /\ p.length \in Nat
      BY <2>1, <2>2, <3>1 DEF Part
    <3>3. s.length \in Nat /\ s.length # 0
      <4>1. s.length \in Nat
        BY <1>2 DEF Raw
      <4>2. QED
        BY <2>2, <3>2, <4>1
    <3>4. SectionType(s) = TEXT
      BY <2>2, <3>2, <3>3 DEF SectionType
    <3>5. QED
      BY <2>2, <3>2, <3>4
  <2>5. (\A k \in DOMAIN s.refs : Leads(s.refs[k])) /\ Opcoded(s)
    BY <2>1, <2>2, Zenon DEF Part, Opcoded
  <2>6. s.obj \in Nat
    BY <1>2 DEF Raw
  <2>7. InImage(s)
    BY <2>3, <2>4, <2>5, <2>6 DEF InImage
  <2>8. QED
    BY <1>2, <2>7
<1>5. QED
  BY <1>3, <1>4

-----------------------------------------------------------------------------
(* The first sections.                                                     *)

\* Sections are told apart by their numbers.
Same(s, t) == s.obj = t.obj /\ s.num = t.num

\* The header is in front of all others, the decompressor of all but the header, and
\* the loader's code of all that is packed.
LEMMA Foremost ==
  ASSUME program \in Programs, NEW c, NEW s, NEW t, Raw(s), Raw(t), InImage(s), InImage(t),
         SectBefore(s, t)
  PROVE  /\ t.obj = 0 => Same(s, t)
         /\ t.obj = 1 => s.obj = 0 \/ Same(s, t)
         /\ t.obj = 2 /\ t.num = 1 /\ Packs(onekpaq, s) => Same(s, t)
<1>1. PICK a, b : a = SectKey(s) /\ b = SectKey(t)
  OBVIOUS
<1>2. a \in [1 .. 7 -> Int] /\ b \in [1 .. 7 -> Int] /\ KeyBefore(a, b)
  BY <1>1, KeyIs, BeforeIs
<1>3. /\ a[1] = (IF SectionType(s) = DoNotWant THEN 1 ELSE 0)
      /\ a[2] = (IF isheader(s) THEN 0 ELSE 1) /\ a[3] = (IF iscompressible(s) THEN 1 ELSE 0)
      /\ a[4] = SectionType(s) /\ a[5] = (IF isloader(s) THEN 0 ELSE 1)
      /\ b[1] = (IF SectionType(t) = DoNotWant THEN 1 ELSE 0)
      /\ b[2] = (IF isheader(t) THEN 0 ELSE 1) /\ b[3] = (IF iscompressible(t) THEN 1 ELSE 0)
      /\ b[4] = SectionType(t) /\ b[5] = (IF isloader(t) THEN 0 ELSE 1)
  BY <1>1 DEF SectKey
<1>4. /\ a[1] <= b[1]
      /\ a[1] = b[1] => a[2] <= b[2]
      /\ a[1] = b[1] /\ a[2] = b[2] => a[3] <= b[3]
      /\ a[1] = b[1] /\ a[2] = b[2] /\ a[3] = b[3] => a[4] <= b[4]
  BY <1>2, FirstDigits
<1>5. s.obj \in Nat /\ s.num \in Nat /\ t.obj \in Nat /\ t.num \in Nat
  BY DEF Raw
<1>6. SectionType(s) \in 0 .. 3 /\ SectionType(t) \in 0 .. 3
  BY DEF SectionType, DoNotWant, TEXT, DATA, BSS
<1>7. /\ s.obj < 2 => s.num = 1 /\ SectionType(s) = TEXT
      /\ s.obj = 2 => (s.num = 1 /\ SectionType(s) = TEXT) \/ SectionType(s) \in {DATA, BSS}
      /\ t.obj < 2 => t.num = 1 /\ SectionType(t) = TEXT
      /\ t.obj = 2 /\ t.num = 1 => SectionType(t) = TEXT
  BY DEF InImage, Own, HashNum, JumpNum
<1>8. /\ isheader(s) <=> s.obj = 0
      /\ isheader(t) <=> t.obj = 0
      /\ isloader(s) <=> s.obj < 3
      /\ isloader(t) <=> t.obj < 3
      /\ iscompressible(s) <=> Packs(onekpaq, s)
      /\ iscompressible(t) <=> Packs(onekpaq, t)
  BY DEF isheader, isloader, iscompressible, Packs
<1>9. (\A m \in 1 .. 4 : a[m] = b[m]) => a[5] <= b[5] /\ (a[5] = b[5] => a[6] <= b[6])
  BY <1>2, MoreDigits
<1>10. a[1] = b[1] /\ a[2] = b[2] /\ a[3] = b[3] /\ a[4] = b[4] => a[5] <= b[5]
  BY <1>9
<1>11. TEXT = 1 /\ DATA = 2 /\ BSS = 3 /\ DoNotWant = 0
  BY DEF TEXT, DATA, BSS, DoNotWant
<1>12. ASSUME t.obj = 0 PROVE Same(s, t)
  <2>1. a[1] = 0 /\ a[2] = 0
    BY <1>3, <1>4, <1>7, <1>8, <1>11, <1>12
  <2>2. s.obj = 0
    BY <1>3, <1>8, <2>1
  <2>3. QED
    BY <1>7, <1>12, <2>2 DEF Same
<1>13. ASSUME t.obj = 1, s.obj # 0 PROVE Same(s, t)
  <2>1. a[1] = 0 /\ b[1] = 0 /\ a[2] = 1 /\ b[2] = 1 /\ b[3] = 0 /\ b[4] = 1 /\ b[5] = 0
    BY <1>3, <1>4, <1>6, <1>7, <1>8, <1>11, <1>13 DEF Packs
  <2>2. a[3] = 0 /\ a[4] = 1
    BY <1>3, <1>4, <1>6, <1>11, <2>1
  <2>3. a[5] = 0
    BY <1>3, <1>10, <2>1, <2>2
  <2>4. \A m \in 1 .. 4 : a[m] = b[m]
    BY <2>1, <2>2
  <2>5. a[6] <= b[6]
    BY <1>9, <2>1, <2>3, <2>4
  <2>6. a[6] = s.obj /\ b[6] = t.obj
    BY <1>1, KeyIs
  <2>7. s.obj = 1
    BY <1>5, <1>13, <2>5, <2>6
  <2>8. QED
    BY <1>7, <1>13, <2>7 DEF Same
<1>14. ASSUME t.obj = 2, t.num = 1, Packs(onekpaq, s) PROVE Same(s, t)
  <2>1. onekpaq /\ s.obj >= 2 /\ Packs(onekpaq, t)
    BY <1>14 DEF Packs, HashNum
  <2>2. a[1] = 0 /\ b[1] = 0 /\ a[2] = 1 /\ b[2] = 1 /\ b[3] = 1 /\ a[3] = 1 /\ b[4] = 1 /\ b[5] = 0
    BY <1>3, <1>4, <1>5, <1>6, <1>7, <1>8, <1>11, <1>14, <2>1
  <2>3. a[4] = 1
    BY <1>3, <1>4, <1>6, <1>11, <2>2
  <2>4. a[5] = 0
    BY <1>3, <1>10, <2>2, <2>3
  <2>5. s.obj = 2
    BY <1>3, <1>5, <1>8, <2>1, <2>4
  <2>6. s.num = 1
    BY <1>3, <1>7, <1>11, <2>3, <2>5
  <2>7. QED
    BY <1>14, <2>5, <2>6 DEF Same
<1>15. QED
  BY <1>12, <1>13, <1>14

Arranged(x, c) ==
  /\ MadeOf(c)
  /\ 1 \in DOMAIN c /\ 2 \in DOMAIN c /\ c[1].obj = 0 /\ c[2].obj = 1
  /\ \E l \in DOMAIN c :
       c[l].obj = 2 /\ c[l].num = 1 /\ \A n \in DOMAIN c : n < l => ~Packs(x, c[n])

LEMMA HasLoaders ==
  ASSUME program \in Programs, NEW c, MadeOf(c), \A n \in DOMAIN c : Raw(c[n]), NEW obj \in 0 .. 2
  PROVE  \E n \in DOMAIN c : c[n].obj = obj /\ c[n].num = 1
<1>1. PICK m \in DOMAIN program.sects : program.sects[m].obj = obj /\ Part(program.sects[m])
  BY PartsAre
<1>2. PICK p : p = program.sects[m] /\ p.obj = obj /\ Part(p)
  BY <1>1
<1>3. PICK n \in DOMAIN c : MadeFrom(c[n], p)
  BY <1>2 DEF MadeOf
<1>4. p.num = 1
  BY <1>2 DEF Part
<1>5. QED
  BY <1>2, <1>3, <1>4 DEF MadeFrom

LEMMA InOrderArranged ==
  ASSUME program \in Programs, NEW c, NEW N \in Nat, DOMAIN c = 1 .. N, MadeOf(c),
         \A n \in 1 .. N : Raw(c[n]), \A k, l \in 1 .. N : k < l => SectBefore(c[k], c[l])
  PROVE  Arranged(onekpaq, c)
<1>1. \A n \in 1 .. N : InImage(c[n])
  BY ImageIs
<1>2. \A obj \in 0 .. 2 : \E n \in 1 .. N : c[n].obj = obj /\ c[n].num = 1
  BY HasLoaders
<1>3. \A m, n \in 1 .. N : Same(c[m], c[n]) => m = n
  BY DEF MadeOf, Same
<1>4. PICK a \in 1 .. N, b \in 1 .. N, l \in 1 .. N :
        /\ c[a].obj = 0 /\ c[b].obj = 1 /\ c[l].obj = 2 /\ c[l].num = 1
  <2>1. 0 \in 0 .. 2 /\ 1 \in 0 .. 2 /\ 2 \in 0 .. 2
    OBVIOUS
  <2>2. QED
    BY <1>2, <2>1
<1>5. ASSUME NEW n \in 1 .. N, n < a PROVE FALSE
  <2>1. SectBefore(c[n], c[a])
    BY <1>5
  <2>2. Same(c[n], c[a])
    BY <1>1, <1>4, <2>1, Foremost
  <2>3. QED
    BY <1>3, <1>5, <2>2
<1>6. a = 1
  BY <1>5
<1>7. ASSUME NEW n \in 1 .. N, n < b, n # 1 PROVE FALSE
  <2>1. SectBefore(c[n], c[b])
    BY <1>7
  <2>2. c[n].obj = 0 \/ Same(c[n], c[b])
    BY <1>1, <1>4, <2>1, Foremost
  <2>3. c[n].obj = 0 => Same(c[n], c[a])
    BY <1>1, <1>4 DEF Same, InImage
  <2>4. QED
    BY <1>3, <1>6, <1>7, <2>2, <2>3
<1>8. b = 2
  <2>1. b # 1
    BY <1>4, <1>6
  <2>2. CASE b > 2
    BY <1>7, <2>2
  <2>3. QED
    BY <2>1, <2>2
<1>9. ASSUME NEW n \in 1 .. N, n < l, Packs(onekpaq, c[n]) PROVE FALSE
  <2>1. SectBefore(c[n], c[l])
    BY <1>9
  <2>2. Same(c[n], c[l])
    BY <1>1, <1>4, <1>9, <2>1, Foremost
  <2>3. QED
    BY <1>3, <1>9, <2>2
<1>10. QED
  BY <1>4, <1>6, <1>8, <1>9 DEF Arranged

LEMMA ArrangedAlike ==
  ASSUME NEW c, NEW d, DOMAIN d = DOMAIN c, \A n \in DOMAIN c : Alike(c[n], d[n]),
         NEW x, Arranged(x, c)
  PROVE  Arranged(x, d)
<1>1. \A n \in DOMAIN c : d[n].obj = c[n].obj /\ d[n].num = c[n].num
  BY DEF Alike
<1>2. \A n \in DOMAIN c : Packs(x, d[n]) <=> Packs(x, c[n])
  BY <1>1 DEF Packs
<1>3. MadeOf(d)
  BY MadeAlike DEF Arranged
<1>4. QED
  BY <1>1, <1>2, <1>3 DEF Arranged

LEMMA CollectArranges ==
  ASSUME ImportInv, Collect
  PROVE  Arranged(onekpaq, sects)'
<1>1. phase = "linked" /\ program' = program
  BY DEF Collect, Rest, ivars
<1>2. program \in Programs /\ Listed(lmap)
  BY <1>1 DEF ImportInv, LinkerInv
<1>3. PICK given \in {Collected} : \E rank \in {[n \in DOMAIN given |-> Rank(given, n)]} :
        /\ sects' = [k \in DOMAIN given |-> given[CHOOSE n \in DOMAIN given : rank[n] = k - 1]]
        /\ linker_blocks' = [n \in 1 .. Len(given) + 2 |-> 0]
  BY Zenon DEF Collect
<1>4. PICK rank \in {[n \in DOMAIN given |-> Rank(given, n)]} :
        /\ sects' = [k \in DOMAIN given |-> given[CHOOSE n \in DOMAIN given : rank[n] = k - 1]]
        /\ linker_blocks' = [n \in 1 .. Len(given) + 2 |-> 0]
  BY <1>3, Zenon
<1>5. CollectedSects(given) /\ MadeOf(given)
  BY <1>2, <1>3, CollectedIs, CollectedMade
<1>6. rank = [n \in DOMAIN given |-> Rank(given, n)]
  BY <1>4, Zenon
<1>7. PICK N \in Nat :
        /\ N = Len(given) /\ DOMAIN given = 1 .. N
        /\ \E p : /\ p \in [1 .. N -> 1 .. N] /\ \A k, l \in 1 .. N : p[k] = p[l] => k = l
                  /\ \A n \in 1 .. N : \E k \in 1 .. N : p[k] = n
                  /\ InOrder(given, rank) = [k \in 1 .. N |-> given[p[k]]]
                  /\ \A k, l \in 1 .. N : k < l => SectBefore(given[p[k]], given[p[l]])
  BY <1>5, <1>6, SortedIs
<1>8. PICK p \in [1 .. N -> 1 .. N] :
        /\ \A k, l \in 1 .. N : p[k] = p[l] => k = l
        /\ \A n \in 1 .. N : \E k \in 1 .. N : p[k] = n
        /\ InOrder(given, rank) = [k \in 1 .. N |-> given[p[k]]]
        /\ \A k, l \in 1 .. N : k < l => SectBefore(given[p[k]], given[p[l]])
  BY <1>7
<1>9. PICK d : d = [k \in 1 .. N |-> given[p[k]]]
  OBVIOUS
<1>10. DOMAIN d = 1 .. N /\ \A k \in 1 .. N : p[k] \in 1 .. N /\ d[k] = given[p[k]]
  BY <1>9
<1>11. MadeOf(d)
  <2>1. DOMAIN given = 1 .. N
    BY <1>7
  <2>2. Reorders(p, N, given, d)
    BY <1>8, <1>10, <2>1, Zenon DEF Reorders
  <2>3. QED
    BY <1>5, <2>2, MadeInOrder
<1>12. \A n \in 1 .. N : Raw(d[n])
  BY <1>5, <1>7, <1>10 DEF CollectedSects
<1>13. ASSUME NEW k \in 1 .. N, NEW l \in 1 .. N, k < l PROVE SectBefore(d[k], d[l])
  <2>1. SectBefore(given[p[k]], given[p[l]])
    BY <1>8, <1>13, Zenon
  <2>2. d[k] = given[p[k]] /\ d[l] = given[p[l]]
    BY <1>10, Zenon
  <2>3. QED
    BY <2>1, <2>2, Zenon
<1>14. Arranged(onekpaq, d)
  BY <1>2, <1>10, <1>11, <1>12, <1>13, InOrderArranged
<1>15. sects' = d
  BY <1>4, <1>8, <1>9, Zenon DEF InOrder
<1>16. onekpaq' = onekpaq
  BY <1>1 DEF onekpaq
<1>17. QED
  BY <1>1, <1>14, <1>15, <1>16 DEF Arranged, MadeOf

-----------------------------------------------------------------------------
(* Where the header, the loader and the references are led.                *)

\* What k sections with places tell: k, the image, the loader's code and its table.
Addresses(k, c, l, j, decompr, loader, table_at) ==
  /\ c[l].obj = 2 /\ c[l].num = 1 /\ c[j].obj = 2 /\ c[j].num = JumpNum
  /\ decompr = IF k >= 2 THEN c[2].abs_offset ELSE 0
  /\ k >= 2 => decompr # 0
  /\ loader = IF k >= l THEN c[l].abs_offset ELSE 0
  /\ k >= j => table_at = Runs(c[j])
Addressed(k) ==
  \E l, j \in DOMAIN sects : Addresses(k, sects, l, j, decompr_addr, loader_addr, jtbl_off)

LEMMA CollectAddresses ==
  ASSUME program \in Programs, NEW c, MadeOf(c), \A n \in DOMAIN c : Raw(c[n]), DOMAIN c \in SUBSET (Nat \ {0}),
         NEW table_at
  PROVE  \E l, j \in DOMAIN c : Addresses(0, c, l, j, 0, 0, table_at)
<1>1. PICK l \in DOMAIN c : c[l].obj = 2 /\ c[l].num = 1
  <2>1. 2 \in 0 .. 2
    OBVIOUS
  <2>2. QED
    BY <2>1, HasLoaders
<1>2. PICK j \in DOMAIN c : c[j].obj = 2 /\ c[j].num = JumpNum
  BY DEF MadeOf
<1>3. ~(0 >= l) /\ ~(0 >= j) /\ ~(0 >= 2)
  OBVIOUS
<1>4. Addresses(0, c, l, j, 0, 0, table_at)
  BY <1>1, <1>2, <1>3 DEF Addresses
<1>5. QED
  BY <1>4

\* What one section of the loader's, or the decompressor, is.
LEMMA CodeSections ==
  ASSUME NEW c, NEW s, Raw(s), InImage(s)
  PROVE  /\ SectionType(s) = TEXT /\ ~isheader(s) /\ isloader(s) <=>
              s.obj = 1 \/ (s.obj = 2 /\ s.num = 1)
         /\ SectionType(s) = BSS /\ isloader(s) <=> s.obj = 2 /\ s.num = JumpNum
<1>1. s.obj \in Nat
  BY DEF Raw
<1>2. /\ s.obj < 2 => s.num = 1 /\ SectionType(s) = TEXT
      /\ s.obj = 2 => \/ s.num = 1 /\ SectionType(s) = TEXT
                      \/ s.num = 2048 /\ SectionType(s) = DATA
                      \/ s.num = 2049 /\ SectionType(s) = BSS
  BY DEF InImage, Own, HashNum, JumpNum
<1>3. TEXT = 1 /\ DATA = 2 /\ BSS = 3 /\ JumpNum = 2049
  BY DEF TEXT, DATA, BSS, JumpNum
<1>4. (isheader(s) <=> s.obj = 0) /\ (isloader(s) <=> s.obj \in {0, 1, 2})
  BY <1>1 DEF isheader, isloader
<1>5. s.obj < 2 <=> s.obj \in {0, 1}
  BY <1>1
<1>6. QED
  BY <1>2, <1>3, <1>4, <1>5

LEMMA PlaceAddresses ==
  ASSUME ImportInv, BinaryInv, Place, Arranged(onekpaq, sects), Addressed(i - 1)
  PROVE  Arranged(onekpaq, sects)' /\ Addressed(i - 1)'
<1>1. /\ bphase = "place" /\ bphase' = "place" /\ program' = program /\ i' = i + 1
      /\ sects' = Put(sects, i, AbsOffset, ShiftHere) /\ i <= Len(sects)
      /\ jtbl_off' = (IF SectionType(Cur) = BSS /\ isloader(Cur) THEN AbsOffset + ShiftHere ELSE jtbl_off)
      /\ decompr_addr' = (IF IsCode /\ decompr_addr = 0 THEN AbsOffset ELSE decompr_addr)
      /\ loader_addr' = (IF IsCode /\ decompr_addr # 0 /\ loader_addr = 0 THEN AbsOffset ELSE loader_addr)
  BY DEF Place, Put, Rest, ivars, Wanted
<1>2. i \in 1 .. Len(sects) + 1 /\ Lined(i - 1) /\ Layered(onekpaq, sects)
  BY <1>1 DEF BinaryInv, Lined
<1>3. PICK N \in Nat : N = Len(sects) /\ DOMAIN sects = 1 .. N /\ \A n \in 1 .. N : Raw(sects[n])
  BY <1>2 DEF Layered
<1>4. PICK k \in 1 .. N : k = i
  BY <1>1, <1>2, <1>3
<1>5. PICK c, d, a, v : c = sects /\ d = sects' /\ a = AbsOffset /\ v = ShiftHere
  OBVIOUS
<1>6. /\ DOMAIN c = 1 .. N /\ DOMAIN d = DOMAIN c /\ \A n \in DOMAIN c : Alike(c[n], d[n])
      /\ \A n \in DOMAIN c \ {k} : d[n] = c[n]
      /\ d[k].abs_offset = a /\ d[k].vm_shift = v
  <2>1. \A n \in DOMAIN c : DOMAIN c[n] = Fields
    BY <1>3, <1>5 DEF Raw
  <2>2. d = Put(c, k, a, v) /\ k \in DOMAIN c
    BY <1>1, <1>3, <1>4, <1>5
  <2>3. QED
    BY <1>3, <1>5, <2>1, <2>2, PutKeeps
<1>7. Arranged(onekpaq, d)
  BY <1>5, <1>6, ArrangedAlike
<1>8. Arranged(onekpaq, sects)'
  <2>1. onekpaq' = onekpaq
    BY <1>1 DEF onekpaq
  <2>2. QED
    BY <1>1, <1>5, <1>7, <2>1 DEF Arranged, MadeOf
<1>9. \A n \in 1 .. N : InImage(c[n])
  BY <1>3, <1>5, <1>6, ImageIs DEF ImportInv, LinkerInv, Arranged
<1>10. PICK l \in 1 .. N, j \in 1 .. N :
         Addresses(k - 1, c, l, j, decompr_addr, loader_addr, jtbl_off)
  BY <1>3, <1>4, <1>5 DEF Addressed
<1>11. PICK da, la, ja, da1, la1, ja1 :
         /\ da = decompr_addr /\ la = loader_addr /\ ja = jtbl_off
         /\ da1 = decompr_addr' /\ la1 = loader_addr' /\ ja1 = jtbl_off'
  OBVIOUS
<1>12. /\ c[l].obj = 2 /\ c[l].num = 1 /\ c[j].obj = 2 /\ c[j].num = JumpNum
       /\ da = (IF k - 1 >= 2 THEN c[2].abs_offset ELSE 0)
       /\ k - 1 >= 2 => da # 0
       /\ la = (IF k - 1 >= l THEN c[l].abs_offset ELSE 0)
       /\ k - 1 >= j => ja = Runs(c[j])
  BY <1>10, <1>11 DEF Addresses
<1>13. /\ 2 \in 1 .. N /\ c[1].obj = 0 /\ c[2].obj = 1 /\ l # 1 /\ l # 2 /\ j # 1 /\ j # 2
       /\ \A m, n \in 1 .. N : Same(c[m], c[n]) => m = n
  <2>1. 2 \in 1 .. N /\ c[1].obj = 0 /\ c[2].obj = 1
    BY <1>5, <1>6 DEF Arranged
  <2>2. l # 1 /\ l # 2 /\ j # 1 /\ j # 2
    BY <1>12, <2>1
  <2>3. \A m, n \in 1 .. N : Same(c[m], c[n]) => m = n
    BY <1>5, <1>6 DEF Arranged, MadeOf, Same
  <2>4. QED
    BY <2>1, <2>2, <2>3
<1>14. PICK s : s = c[k] /\ s = Cur /\ Raw(s) /\ InImage(s)
  BY <1>3, <1>4, <1>5, <1>9 DEF Cur
<1>15. IsCode <=> k = 2 \/ k = l
  <2>1. IsCode <=> s.obj = 1 \/ (s.obj = 2 /\ s.num = 1)
    BY <1>14, CodeSections DEF IsCode
  <2>2. s.obj = 1 <=> k = 2
    <3>1. c[2].num = 1
      BY <1>9, <1>13 DEF InImage
    <3>2. s.obj = 1 => s.num = 1
      BY <1>14 DEF InImage
    <3>3. s.obj = 1 => Same(c[k], c[2])
      BY <1>13, <1>14, <3>1, <3>2 DEF Same
    <3>4. QED
      BY <1>13, <1>14, <3>3
  <2>3. s.obj = 2 /\ s.num = 1 <=> k = l
    <3>1. s.obj = 2 /\ s.num = 1 => Same(c[k], c[l])
      BY <1>12, <1>14 DEF Same
    <3>2. QED
      BY <1>12, <1>13, <1>14, <3>1
  <2>4. QED
    BY <2>1, <2>2, <2>3
<1>16. SectionType(Cur) = BSS /\ isloader(Cur) <=> k = j
  <2>1. SectionType(s) = BSS /\ isloader(s) <=> s.obj = 2 /\ s.num = JumpNum
    BY <1>14, CodeSections
  <2>2. s.obj = 2 /\ s.num = JumpNum => Same(c[k], c[j])
    BY <1>12, <1>14 DEF Same
  <2>3. QED
    BY <1>12, <1>13, <1>14, <2>1, <2>2
<1>17. /\ da1 = (IF IsCode /\ da = 0 THEN a ELSE da)
       /\ la1 = (IF IsCode /\ da # 0 /\ la = 0 THEN a ELSE la)
       /\ ja1 = (IF SectionType(Cur) = BSS /\ isloader(Cur) THEN a + v ELSE ja)
  BY <1>1, <1>5, <1>11
<1>18. a \in Nat /\ (k = 2 => a # 0)
  <2>1. BinaryInv'
    BY PlaceStep
  <2>2. Lined(i - 1)'
    BY <1>1, <2>1 DEF BinaryInv
  <2>3. PICK b : Stacked(d, k, b) /\ \A n \in 1 .. N : Raw(d[n])
    <3>1. i' - 1 = k
      BY <1>1, <1>4
    <3>2. Stacked(sects', k, b_len')
      BY <2>2, <3>1 DEF Lined
    <3>3. \A n \in DOMAIN sects' : Raw(sects'[n])
      BY <2>2 DEF Lined, Layered
    <3>4. QED
      BY <1>5, <1>6, <3>2, <3>3
  <2>4. a \in Nat
    BY <1>6, <2>3 DEF Raw
  <2>5. ASSUME k = 2 PROVE a # 0
    <3>1. PICK t : t = d[1] /\ Raw(t)
      BY <1>13, <2>3
    <3>2. IsWanted(t) /\ End(t) <= d[2].abs_offset
      BY <2>3, <2>5, <3>1 DEF Stacked
    <3>3. t.length \in Nat /\ t.length # 0 /\ t.abs_offset \in Nat
      BY <3>1, <3>2 DEF Raw, IsWanted, SectionType
    <3>4. t.abs_offset + t.length <= a
      BY <1>6, <2>5, <3>2 DEF End
    <3>5. QED
      BY <2>4, <3>3, <3>4
  <2>6. QED
    BY <2>4, <2>5
<1>19. /\ d[l].obj = 2 /\ d[l].num = 1 /\ d[j].obj = 2 /\ d[j].num = JumpNum
  BY <1>6, <1>12 DEF Alike
<1>20. Addresses(k, d, l, j, da1, la1, ja1)
  <2>1. da1 = (IF k >= 2 THEN d[2].abs_offset ELSE 0) /\ (k >= 2 => da1 # 0)
    <3>1. CASE k = 1
      BY <1>12, <1>13, <1>15, <1>17, <3>1
    <3>2. CASE k = 2
      BY <1>6, <1>12, <1>13, <1>15, <1>17, <1>18, <3>2
    <3>3. CASE k > 2
      <4>1. d[2] = c[2]
        BY <1>6, <1>13, <3>3
      <4>2. QED
        BY <1>12, <1>17, <3>3, <4>1
    <3>4. QED
      BY <3>1, <3>2, <3>3
  <2>2. la1 = (IF k >= l THEN d[l].abs_offset ELSE 0)
    <3>1. CASE k < l
      BY <1>12, <1>13, <1>15, <1>17, <3>1
    <3>2. CASE k = l
      <4>1. k > 2 /\ da # 0 /\ la = 0
        BY <1>12, <1>13, <3>2
      <4>2. QED
        BY <1>6, <1>15, <1>17, <3>2, <4>1
    <3>3. CASE k > l
      <4>1. d[l] = c[l] /\ k # l /\ k # 2
        BY <1>6, <1>13, <3>3
      <4>2. QED
        BY <1>12, <1>15, <1>17, <3>3, <4>1
    <3>4. QED
      BY <3>1, <3>2, <3>3
  <2>3. k >= j => ja1 = Runs(d[j])
    <3>1. CASE k = j
      <4>1. Runs(d[j]) = a + v
        BY <1>6, <3>1 DEF Runs
      <4>2. QED
        BY <1>16, <1>17, <3>1, <4>1
    <3>2. CASE k > j
      <4>1. d[j] = c[j] /\ k # j /\ k - 1 >= j
        BY <1>6, <3>2
      <4>2. QED
        BY <1>12, <1>16, <1>17, <4>1
    <3>3. QED
      BY <3>1, <3>2
  <2>4. QED
    BY <1>19, <2>1, <2>2, <2>3 DEF Addresses
<1>21. Addressed(i - 1)'
  <2>1. i' - 1 = k
    BY <1>1, <1>4
  <2>2. Addresses(i - 1, sects, l, j, decompr_addr, loader_addr, jtbl_off)'
    BY <1>5, <1>11, <1>20, <2>1 DEF Addresses, Runs
  <2>3. QED
    BY <1>5, <1>6, <2>2 DEF Addressed
<1>22. QED
  BY <1>8, <1>21

\* When all have their places.
AllAddressed ==
  \E l, j \in DOMAIN sects :
    /\ sects[l].obj = 2 /\ sects[l].num = 1 /\ sects[j].obj = 2 /\ sects[j].num = JumpNum
    /\ decompr_addr = sects[2].abs_offset /\ loader_addr = sects[l].abs_offset
    /\ jtbl_off = Runs(sects[j])

LEMMA PlacedAddresses ==
  ASSUME ImportInv, BinaryInv, Placed, Arranged(onekpaq, sects), Addressed(i - 1)
  PROVE  AllAddressed'
<1>1. /\ bphase = "place" /\ ~Wanted /\ sects' = sects /\ jtbl_off' = jtbl_off
      /\ decompr_addr' = decompr_addr /\ loader_addr' = loader_addr
  BY DEF Placed, Rest, ivars
<1>2. i \in 1 .. Len(sects) + 1 /\ Layered(onekpaq, sects)
  BY <1>1 DEF BinaryInv, Lined
<1>3. PICK N \in Nat : /\ N = Len(sects) /\ DOMAIN sects = 1 .. N /\ \A n \in 1 .. N : Raw(sects[n])
                       /\ \A m, n \in 1 .. N : m < n => Layers(onekpaq, sects[m], sects[n])
  BY <1>2 DEF Layered
<1>4. PICK l \in 1 .. N, j \in 1 .. N :
         Addresses(i - 1, sects, l, j, decompr_addr, loader_addr, jtbl_off)
  BY <1>3 DEF Addressed
<1>5. PICK k \in 1 .. N + 1 : k = i
  BY <1>2, <1>3
<1>6. k \in 1 .. N => ~IsWanted(sects[k])
  BY <1>1, <1>3, <1>5 DEF Wanted, Cur, IsWanted
<1>7. ASSUME NEW n \in 1 .. N, IsWanted(sects[n]) PROVE k - 1 >= n
  <2>1. SUFFICES ASSUME k <= n PROVE FALSE
    OBVIOUS
  <2>2. CASE k = n
    BY <1>6, <1>7, <2>2
  <2>3. CASE k < n
    <3>1. Layers(onekpaq, sects[k], sects[n]) /\ k \in 1 .. N
      BY <1>3, <2>3
    <3>2. QED
      BY <1>6, <1>7, <3>1 DEF Layers
  <2>4. QED
    BY <2>1, <2>2, <2>3
<1>8. \A n \in 1 .. N : InImage(sects[n])
  BY <1>3, ImageIs DEF ImportInv, LinkerInv, Arranged
<1>9. 2 \in 1 .. N /\ sects[2].obj = 1
  BY <1>3 DEF Arranged
<1>10. /\ sects[l].obj = 2 /\ sects[l].num = 1 /\ sects[j].obj = 2 /\ sects[j].num = JumpNum
  BY <1>4 DEF Addresses
<1>11. IsWanted(sects[2]) /\ IsWanted(sects[l]) /\ IsWanted(sects[j])
  BY <1>8, <1>9, <1>10 DEF InImage, Own, IsWanted, TEXT, DATA, BSS, DoNotWant
<1>12. i - 1 >= 2 /\ i - 1 >= l /\ i - 1 >= j
  BY <1>5, <1>7, <1>9, <1>11
<1>13. /\ decompr_addr = sects[2].abs_offset /\ loader_addr = sects[l].abs_offset
       /\ jtbl_off = Runs(sects[j])
  BY <1>4, <1>12 DEF Addresses
<1>14. AllAddressed
  BY <1>3, <1>10, <1>13 DEF AllAddressed
<1>15. QED
  BY <1>1, <1>14 DEF AllAddressed, Runs

-----------------------------------------------------------------------------
(* The invariant of the references.                                        *)

\* A translation is one of a reference to a function, behind a call byte.
Found(d) ==
  \E n \in DOMAIN sects : \E k \in DOMAIN Refs(sects[n]) :
    /\ d = <<n, k>> /\ Translatable(sects[n], sects[n].refs[k])
    /\ CallByte \in BytesInFront(n, k)

\* The field of section n's k-th reference: as it is relocated, when translations
\* have been written, and when the packer has been there.
Overwritten(n, k) ==
  IF Spoiled(<<n, k>>) THEN Lost
  ELSE IF <<n, k>> \in translations
  THEN [how |-> "indirect", n |-> SlotAddress(sects[n].refs[k].name)]
  ELSE Value(n, sects[n].refs[k])
PackerWasThere == bphase \in {"pad", "file"} /\ onekpaq
FieldAt(n, k) ==
  IF bphase = "relocate" THEN Value(n, sects[n].refs[k])
  ELSE IF PackerWasThere /\ IsLastSource(<<n, k>>)
  THEN Plain(sects[n].refs[k], packed.start + packed.hdrlen)
  ELSE Overwritten(n, k)
Fielded(n) ==
  /\ DOMAIN values[n] = DOMAIN Refs(sects[n])
  /\ \A k \in DOMAIN Refs(sects[n]) :
       Kept(sects[n], sects[n].refs[k]) /\ values[n][k] = FieldAt(n, k)

RefInv ==
  /\ bphase # "off" => phase = "linked"
  /\ bphase = "off" => decompr_addr = 0 /\ loader_addr = 0
  /\ bphase \in {"off", "place"} => values = <<>> /\ translations = {}
  /\ bphase \notin {"off", "refused"} => Arranged(onekpaq, sects)
  /\ bphase = "place" => Addressed(i - 1)
  /\ bphase \in {"relocate", "translate", "pack", "pad", "file"} =>
       /\ AllAddressed /\ \A n \in DOMAIN values : Fielded(n)
       /\ \A d \in translations : Found(d)
  /\ bphase = "relocate" =>
       i \in 1 .. Len(sects) + 1 /\ \E V : values \in Seq(V) /\ Len(values) = i - 1
  /\ bphase \in {"translate", "pack", "pad", "file"} => DOMAIN values = DOMAIN sects
  /\ packed.hdrlen \in Nat
  /\ bphase \in {"off", "place", "relocate", "translate", "pack"} \/ ~onekpaq =>
       packed.start = 0 /\ packed.hdrlen = 0

LEMMA RefInit == Init => RefInv
BY DEF Init, BInit, RefInv

\* What has been found stays found.
LEMMA SteadyFound ==
  ASSUME program' = program, lmap' = lmap, sects' = sects, jtbl_off' = jtbl_off
  PROVE  \A d : Found(d)' <=> Found(d)
<1>1. /\ \A s, r : Translatable(s, r)' <=> Translatable(s, r)
      /\ \A n, k : BytesInFront(n, k)' = BytesInFront(n, k)
  BY SteadyValue
<1>2. \A s : Refs(s)' = Refs(s)
  BY DEF Refs
<1>3. QED
  BY <1>1, <1>2 DEF Found

LEMMA SteadyOverwritten ==
  ASSUME program' = program, lmap' = lmap, sects' = sects, jtbl_off' = jtbl_off,
         translations' = translations
  PROVE  \A n, k : Overwritten(n, k)' = Overwritten(n, k)
<1>1. /\ \A n, r : Value(n, r)' = Value(n, r)
      /\ \A d, e : InFront(d, e)' <=> InFront(d, e)
      /\ \A name : SlotAddress(name)' = SlotAddress(name)
  BY SteadyValue
<1>2. \A d : Spoiled(d)' <=> Spoiled(d)
  BY <1>1 DEF Spoiled, Later
<1>3. QED
  BY <1>1, <1>2 DEF Overwritten, Lost

LEMMA SteadyFields ==
  ASSUME program' = program, lmap' = lmap, sects' = sects, jtbl_off' = jtbl_off, packed' = packed,
         PackerWasThere' <=> PackerWasThere, bphase' = "relocate" <=> bphase = "relocate",
         bphase = "relocate" \/ translations' = translations, NEW n, values[n]' = values[n]
  PROVE  Fielded(n)' <=> Fielded(n)
<1>1. /\ \A s, r : Kept(s, r)' <=> Kept(s, r)
      /\ \A m, r : Value(m, r)' = Value(m, r)
      /\ \A d : IsLastSource(d)' <=> IsLastSource(d)
  BY SteadyValue
<1>2. \A s : Refs(s)' = Refs(s)
  BY DEF Refs
<1>3. \A k : FieldAt(n, k)' = FieldAt(n, k)
  <2>1. CASE bphase = "relocate"
    BY <1>1, <2>1 DEF FieldAt
  <2>2. CASE bphase # "relocate"
    <3>1. \A k : Overwritten(n, k)' = Overwritten(n, k)
      BY <2>2, SteadyOverwritten
    <3>2. QED
      BY <1>1, <2>2, <3>1 DEF FieldAt, Plain
  <2>3. QED
    BY <2>1, <2>2
<1>4. \A k : Kept(sects[n], sects[n].refs[k])' <=> Kept(sects[n], sects[n].refs[k])
  BY <1>1
<1>5. DOMAIN Refs(sects[n])' = DOMAIN Refs(sects[n]) /\ DOMAIN values[n]' = DOMAIN values[n]
  BY <1>2
<1>6. QED
  BY <1>3, <1>4, <1>5 DEF Fielded

\* Steps that leave the sections where they are and the fields as they are.
LEMMA SteadyRefs ==
  ASSUME RefInv, program' = program, lmap' = lmap, sects' = sects, jtbl_off' = jtbl_off,
         decompr_addr' = decompr_addr, loader_addr' = loader_addr, values' = values, packed' = packed,
         translations' = translations, phase' = phase \/ bphase' = "off",
         \/ bphase' = "refused" /\ bphase # "off"
         \/ bphase' = bphase /\ i' = i
         \/ bphase = "translate" /\ bphase' = "pack"
         \/ bphase = "pack" /\ bphase' = "pad" /\ ~onekpaq
         \/ bphase = "pad" /\ bphase' = "file"
  PROVE  RefInv'
<1>1. onekpaq' = onekpaq /\ (bphase' # "refused" => (PackerWasThere' <=> PackerWasThere))
  BY DEF onekpaq, PackerWasThere
<1>2. Arranged(onekpaq, sects)' <=> Arranged(onekpaq, sects)
  BY <1>1 DEF Arranged, MadeOf
<1>3. (AllAddressed' <=> AllAddressed) /\ \A d : Found(d)' <=> Found(d)
  BY SteadyFound DEF AllAddressed, Runs
<1>4. \A k : Addressed(k)' <=> Addressed(k)
  BY DEF Addressed, Addresses, Runs
<1>5. bphase' # "refused" => \A n : Fielded(n)' <=> Fielded(n)
  <2>1. SUFFICES ASSUME bphase' # "refused", NEW n PROVE Fielded(n)' <=> Fielded(n)
    OBVIOUS
  <2>2. bphase' = "relocate" <=> bphase = "relocate"
    BY <2>1
  <2>3. QED
    BY <1>1, <2>1, <2>2, SteadyFields
<1>6. CASE bphase' = "refused" /\ bphase # "off"
  BY <1>1, <1>6 DEF RefInv
<1>7. CASE bphase' = bphase /\ i' = i /\ bphase # "refused"
  <2>1. bphase = "place" => Addressed(i - 1)'
    BY <1>4, <1>7 DEF RefInv
  <2>2. bphase \in {"relocate", "translate", "pack", "pad", "file"} =>
          AllAddressed' /\ (\A n \in DOMAIN values' : Fielded(n)') /\ \A d \in translations' : Found(d)'
    BY <1>3, <1>5, <1>7 DEF RefInv
  <2>3. bphase = "relocate" => \E V : values' \in Seq(V) /\ Len(values') = i' - 1
    BY <1>7 DEF RefInv
  <2>4. QED
    BY <1>1, <1>2, <1>7, <2>1, <2>2, <2>3 DEF RefInv
<1>8. CASE \/ bphase = "translate" /\ bphase' = "pack"
           \/ bphase = "pack" /\ bphase' = "pad" /\ ~onekpaq
           \/ bphase = "pad" /\ bphase' = "file"
  <2>1. AllAddressed' /\ (\A n \in DOMAIN values' : Fielded(n)') /\ \A d \in translations' : Found(d)'
    BY <1>3, <1>5, <1>8 DEF RefInv
  <2>2. DOMAIN values' = DOMAIN sects' /\ phase' = "linked" /\ Arranged(onekpaq, sects)'
    BY <1>2, <1>8 DEF RefInv
  <2>3. (bphase' = "pack" \/ ~onekpaq) => packed.start = 0 /\ packed.hdrlen = 0
    BY <1>8 DEF RefInv
  <2>4. bphase' \in {"translate", "pack", "pad", "file"} /\ bphase' # "translate"
    BY <1>8
  <2>5. QED
    BY <1>1, <2>1, <2>2, <2>3, <2>4 DEF RefInv
<1>9. QED
  BY <1>6, <1>7, <1>8

LEMMA CollectRefs ==
  ASSUME ImportInv, BinaryInv, RefInv, Collect
  PROVE  RefInv'
<1>1. /\ phase = "linked" /\ phase' = "linked" /\ bphase = "off" /\ bphase' = "place" /\ program' = program
      /\ i' = i /\ decompr_addr' = decompr_addr /\ loader_addr' = loader_addr
      /\ jtbl_off' = jtbl_off /\ values' = values /\ packed' = packed
      /\ translations' = translations
  BY DEF Collect, Rest, ivars
<1>2. i' = 1 /\ decompr_addr' = 0 /\ loader_addr' = 0 /\ values' = <<>> /\ translations' = {}
      /\ packed'.start = 0 /\ packed'.hdrlen = 0
  BY <1>1 DEF RefInv, BinaryInv
<1>3. Arranged(onekpaq, sects)'
  BY CollectArranges
<1>4. Layered(onekpaq, sects)'
  BY <1>1, CollectStep DEF BinaryInv, Lined
<1>5. program' \in Programs
  BY <1>1 DEF ImportInv, LinkerInv
<1>6. PICK c : c = sects'
  OBVIOUS
<1>7. MadeOf(c)
  BY <1>1, <1>3, <1>6 DEF Arranged, MadeOf
<1>8. (\A n \in DOMAIN c : Raw(c[n])) /\ DOMAIN c \in SUBSET (Nat \ {0})
  BY <1>4, <1>6 DEF Layered
<1>9. PICK l \in DOMAIN c, j \in DOMAIN c : Addresses(0, c, l, j, 0, 0, jtbl_off')
  BY <1>1, <1>5, <1>7, <1>8, CollectAddresses
<1>10. Addressed(i - 1)'
  <2>1. i' - 1 = 0
    BY <1>2
  <2>2. Addresses(i - 1, sects, l, j, decompr_addr, loader_addr, jtbl_off)'
    BY <1>2, <1>6, <1>9, <2>1 DEF Addresses, Runs
  <2>3. QED
    BY <1>6, <1>9, <2>2 DEF Addressed
<1>11. QED
  BY <1>1, <1>2, <1>3, <1>10 DEF RefInv

LEMMA PlaceRefs ==
  ASSUME ImportInv, BinaryInv, RefInv, Place
  PROVE  RefInv'
<1>1. /\ bphase = "place" /\ bphase' = "place" /\ program' = program /\ phase' = phase
      /\ values' = values /\ packed' = packed /\ translations' = translations
  BY DEF Place, Rest, ivars
<1>2. Arranged(onekpaq, sects)' /\ Addressed(i - 1)'
  BY <1>1, PlaceAddresses DEF RefInv
<1>3. QED
  BY <1>1, <1>2 DEF RefInv

LEMMA PlacedRefs ==
  ASSUME ImportInv, BinaryInv, RefInv, Placed
  PROVE  RefInv'
<1>1. /\ bphase = "place" /\ bphase' = "relocate" /\ program' = program /\ phase' = phase
      /\ values' = values /\ packed' = packed /\ sects' = sects /\ i' = 1
      /\ translations' = translations
  BY DEF Placed, Rest, ivars
<1>2. AllAddressed'
  BY <1>1, PlacedAddresses DEF RefInv
<1>3. Arranged(onekpaq, sects)'
  <2>1. Arranged(onekpaq, sects) /\ onekpaq' = onekpaq
    BY <1>1 DEF RefInv, onekpaq
  <2>2. QED
    BY <1>1, <2>1 DEF Arranged, MadeOf
<1>4. values' = <<>> /\ translations' = {}
  BY <1>1 DEF RefInv
<1>5. i' \in 1 .. Len(sects') + 1 /\ \E V : values' \in Seq(V) /\ Len(values') = i' - 1
  <2>1. Len(sects) \in Nat
    BY <1>1 DEF BinaryInv, Lined, Layered
  <2>2. values' \in Seq({}) /\ Len(values') = i' - 1
    BY <1>1, <1>4
  <2>3. QED
    BY <1>1, <2>1, <2>2
<1>6. \A n \in DOMAIN values' : Fielded(n)'
  BY <1>4
<1>7. QED
  BY <1>1, <1>2, <1>3, <1>5, <1>6 DEF RefInv

LEMMA RelocateRefs ==
  ASSUME ImportInv, BinaryInv, RefInv, Relocate
  PROVE  RefInv'
<1>1. /\ bphase = "relocate" /\ bphase' = "relocate" /\ program' = program /\ phase' = phase
      /\ lmap' = lmap /\ packed' = packed /\ sects' = sects /\ i' = i + 1 /\ i <= Len(sects)
      /\ jtbl_off' = jtbl_off /\ decompr_addr' = decompr_addr /\ loader_addr' = loader_addr
      /\ \A r \in DOMAIN Refs(Cur) : Kept(Cur, Refs(Cur)[r])
      /\ values' = Append(values, [k \in DOMAIN Refs(Cur) |-> Value(i, Refs(Cur)[k])])
      /\ \E found \in TakenForCalls(i) : translations' = translations \cup ({i} \X found)
  BY DEF Relocate, Accepted, Cur, Rest, ivars
<1>2. PICK f : f = [r \in DOMAIN Refs(Cur) |-> Value(i, Refs(Cur)[r])]
  OBVIOUS
<1>3. PICK V, k, N : /\ values \in Seq(V) /\ Len(values) = i - 1 /\ k = i /\ N = Len(sects)
                     /\ i \in 1 .. Len(sects) + 1
  BY <1>1 DEF RefInv
<1>4. N \in Nat /\ k \in 1 .. N /\ Len(values) = k - 1
  <2>1. N \in Nat
    BY <1>1, <1>3 DEF BinaryInv, Whole, Lined, Layered
  <2>2. QED
    BY <1>1, <1>3, <2>1
<1>5. PICK w, w1 : w = values /\ w1 = values' /\ w1 = Append(w, f)
  BY <1>1, <1>2
<1>6. PICK W : W = V \cup {f}
  OBVIOUS
<1>7. w \in Seq(W) /\ f \in W /\ Len(w) = k - 1
  BY <1>3, <1>4, <1>5, <1>6
<1>8. /\ w1 \in Seq(W) /\ Len(w1) = k /\ w1[k] = f
      /\ DOMAIN w1 = 1 .. k /\ DOMAIN w = 1 .. k - 1 /\ \A n \in 1 .. k - 1 : w1[n] = w[n]
  BY <1>4, <1>5, <1>7
<1>9. ~PackerWasThere /\ ~PackerWasThere'
  BY <1>1 DEF PackerWasThere
<1>10. ASSUME NEW n \in 1 .. k - 1 PROVE Fielded(n)'
  <2>1. Fielded(n)
    BY <1>1, <1>5, <1>8 DEF RefInv
  <2>2. values[n]' = values[n]
    BY <1>5, <1>8
  <2>3. QED
    BY <1>1, <1>9, <2>1, <2>2, SteadyFields, Zenon
<1>11. Fielded(k)'
  <2>1. /\ \A s, r : Kept(s, r)' <=> Kept(s, r)
        /\ \A m, r : Value(m, r)' = Value(m, r)
    BY <1>1, SteadyValue
  <2>2. \A s : Refs(s)' = Refs(s)
    BY DEF Refs
  <2>3. PICK s, refs : s = sects[k] /\ s = Cur /\ refs = Refs(s)
    BY <1>3 DEF Cur
  <2>4. sects'[k] = s /\ Refs(sects[k])' = refs /\ values'[k] = f
    BY <1>1, <1>5, <1>8, <2>2, <2>3
  <2>5. /\ DOMAIN f = DOMAIN refs
        /\ \A r \in DOMAIN refs : Kept(s, refs[r]) /\ f[r] = Value(k, refs[r])
    BY <1>1, <1>2, <1>3, <2>3
  <2>6. ASSUME NEW r \in DOMAIN refs
        PROVE  Kept(sects[k], sects[k].refs[r])' /\ values'[k][r] = FieldAt(k, r)'
    <3>1. Kept(s, refs[r])' /\ f[r] = Value(k, refs[r])'
      BY <2>1, <2>5
    <3>2. refs[r] = s.refs[r]
      BY <2>3, <2>6 DEF Refs
    <3>3. FieldAt(k, r)' = Value(k, refs[r])'
      BY <1>1, <2>4, <3>2 DEF FieldAt
    <3>4. QED
      BY <2>4, <3>1, <3>2, <3>3
  <2>7. QED
    BY <2>4, <2>5, <2>6 DEF Fielded
<1>12. \A n \in DOMAIN values' : Fielded(n)'
  <2>1. \A n \in 1 .. k : n \in 1 .. k - 1 \/ n = k
    BY <1>4
  <2>2. DOMAIN values' = 1 .. k
    BY <1>5, <1>8
  <2>3. QED
    BY <1>10, <1>11, <2>1, <2>2
<1>13. AllAddressed' /\ Arranged(onekpaq, sects)'
  <2>1. AllAddressed /\ Arranged(onekpaq, sects) /\ onekpaq' = onekpaq
    BY <1>1 DEF RefInv, onekpaq
  <2>2. AllAddressed'
    BY <1>1, <2>1 DEF AllAddressed, Runs
  <2>3. QED
    BY <1>1, <2>1, <2>2 DEF Arranged, MadeOf
<1>14. i' \in 1 .. Len(sects') + 1 /\ \E X : values' \in Seq(X) /\ Len(values') = i' - 1
  <2>1. i' = k + 1 /\ Len(sects') = N
    BY <1>1, <1>3
  <2>2. values' \in Seq(W) /\ Len(values') = i' - 1
    BY <1>4, <1>5, <1>8, <2>1
  <2>3. QED
    BY <1>4, <2>1, <2>2
<1>15. ASSUME NEW d \in translations' PROVE Found(d)'
  <2>1. Found(d)' <=> Found(d)
    BY <1>1, SteadyFound
  <2>2. CASE d \in translations
    BY <1>1, <2>1, <2>2 DEF RefInv
  <2>3. CASE d \notin translations
    <3>1. PICK found \in TakenForCalls(k) : d \in {k} \X found
      BY <1>1, <1>3, <2>3
    <3>2. PICK q \in found : d = <<k, q>>
      BY <3>1
    <3>3. PICK s : s = sects[k]
      OBVIOUS
    <3>4. /\ q \in DOMAIN Refs(s) /\ Translatable(s, s.refs[q]) /\ CallByte \in BytesInFront(k, q)
      BY <3>1, <3>2, <3>3 DEF TakenForCalls
    <3>5. k \in DOMAIN sects
      BY <1>1, <1>3, <1>4 DEF BinaryInv, Whole, Lined, Layered
    <3>6. Found(d)
      BY <3>2, <3>3, <3>4, <3>5 DEF Found
    <3>7. QED
      BY <2>1, <3>6
  <2>4. QED
    BY <2>2, <2>3
<1>16. QED
  BY <1>1, <1>12, <1>13, <1>14, <1>15 DEF RefInv

\* Then the translations are written.
LEMMA RelocatedRefs ==
  ASSUME BinaryInv, RefInv, Relocated
  PROVE  RefInv'
<1>1. /\ bphase = "relocate" /\ i > Len(sects) /\ bphase' \in {"translate", "pack"}
      /\ program' = program /\ lmap' = lmap /\ sects' = sects /\ jtbl_off' = jtbl_off
      /\ decompr_addr' = decompr_addr /\ loader_addr' = loader_addr
      /\ packed' = packed /\ phase' = phase /\ translations' = translations
      /\ values' = [n \in DOMAIN values |-> [k \in DOMAIN values[n] |-> Final(<<n, k>>)]]
  BY DEF Relocated, Rest, ivars
<1>2. PICK N \in Nat : N = Len(sects) /\ DOMAIN sects = 1 .. N
  BY <1>1 DEF BinaryInv, Whole, Lined, Layered
<1>3. PICK V, w : w = values /\ w \in Seq(V) /\ Len(w) = i - 1 /\ i \in 1 .. N + 1
  BY <1>1, <1>2 DEF RefInv
<1>4. i = N + 1
  BY <1>1, <1>2, <1>3
<1>5. DOMAIN w = 1 .. N
  BY <1>3, <1>4
<1>6. DOMAIN values' = DOMAIN sects'
  BY <1>1, <1>2, <1>3, <1>5
<1>7. ASSUME NEW n \in DOMAIN values' PROVE Fielded(n)'
  <2>1. n \in DOMAIN values /\ values'[n] = [k \in DOMAIN values[n] |-> Final(<<n, k>>)]
    BY <1>1
  <2>2. PICK s, refs : s = sects[n] /\ refs = Refs(s)
    OBVIOUS
  <2>3. /\ DOMAIN values[n] = DOMAIN refs
        /\ \A k \in DOMAIN refs : Kept(s, s.refs[k]) /\ values[n][k] = FieldAt(n, k)
    BY <1>1, <2>1, <2>2 DEF RefInv, Fielded
  <2>4. ASSUME NEW k \in DOMAIN refs PROVE Kept(s, s.refs[k])' /\ values'[n][k] = FieldAt(n, k)'
    <3>1. Kept(s, s.refs[k])'
      BY <1>1, <2>3, SteadyValue
    <3>2. values[n][k] = Value(n, s.refs[k])
      BY <1>1, <2>2, <2>3 DEF FieldAt
    <3>3. values'[n][k] = Final(<<n, k>>)
      BY <2>1, <2>3
    <3>4. <<n, k>>[1] = n /\ <<n, k>>[2] = k
      OBVIOUS
    <3>5. Final(<<n, k>>) = Overwritten(n, k)
      BY <2>2, <3>2, <3>4 DEF Final, Overwritten
    <3>6. FieldAt(n, k)' = Overwritten(n, k)'
      BY <1>1 DEF FieldAt, PackerWasThere
    <3>7. Overwritten(n, k)' = Overwritten(n, k)
      BY <1>1, SteadyOverwritten
    <3>8. QED
      BY <3>1, <3>3, <3>5, <3>6, <3>7
  <2>5. sects'[n] = s /\ Refs(sects[n])' = refs /\ DOMAIN values'[n] = DOMAIN refs
    BY <1>1, <2>1, <2>2, <2>3 DEF Refs
  <2>6. QED
    BY <2>4, <2>5 DEF Fielded
<1>8. AllAddressed' /\ Arranged(onekpaq, sects)' /\ \A d \in translations' : Found(d)'
  <2>1. AllAddressed /\ Arranged(onekpaq, sects) /\ onekpaq' = onekpaq
    BY <1>1 DEF RefInv, onekpaq
  <2>2. AllAddressed'
    BY <1>1, <2>1 DEF AllAddressed, Runs
  <2>3. \A d \in translations' : Found(d)'
    BY <1>1, SteadyFound DEF RefInv
  <2>4. QED
    BY <1>1, <2>1, <2>2, <2>3 DEF Arranged, MadeOf
<1>9. phase' = "linked" /\ packed'.start = 0 /\ packed'.hdrlen = 0
  BY <1>1 DEF RefInv
<1>10. QED
  BY <1>1, <1>6, <1>7, <1>8, <1>9 DEF RefInv

\* The packer fills Source in where it is asked for last.
LEMMA PackRefs ==
  ASSUME BinaryInv, RefInv, Pack
  PROVE  RefInv'
<1>1. /\ bphase = "pack" /\ onekpaq /\ bphase' = "pad" /\ program' = program /\ lmap' = lmap
      /\ sects' = sects /\ jtbl_off' = jtbl_off /\ decompr_addr' = decompr_addr
      /\ loader_addr' = loader_addr /\ phase' = phase /\ translations' = translations
  BY DEF Pack, Rest, ivars
<1>2. PICK p \in Packed :
        /\ packed' = [rf_len |-> Handed.rf_len, start |-> Handed.start, hdrlen |-> p[1], datalen |-> p[2],
                      blocks |-> SubSeq(Behind, 1, Min(TakesBlocks(Behind, Handed.rf_len)))]
        /\ values' = [n \in DOMAIN values |-> [r \in DOMAIN values[n] |->
                        IF IsLastSource(<<n, r>>) THEN Plain(sects[n].refs[r], Handed.start + p[1])
                        ELSE values[n][r]]]
  BY DEF Pack
<1>3. packed'.start = Handed.start /\ packed'.hdrlen = p[1]
  BY <1>2
<1>4. PICK asked : asked = Handed.start + p[1]
  OBVIOUS
<1>5. PICK w, w1 : w = values /\ w1 = values'
  OBVIOUS
<1>6. /\ DOMAIN w1 = DOMAIN w
      /\ \A n \in DOMAIN w :
           /\ DOMAIN w1[n] = DOMAIN w[n]
           /\ \A r \in DOMAIN w[n] :
                w1[n][r] = IF IsLastSource(<<n, r>>) THEN Plain(sects[n].refs[r], asked) ELSE w[n][r]
  BY <1>2, <1>4, <1>5
<1>7. /\ \A s, r : Kept(s, r)' <=> Kept(s, r)
      /\ \A d : IsLastSource(d)' <=> IsLastSource(d)
  BY <1>1, SteadyValue
<1>8. \A n, k : Overwritten(n, k)' = Overwritten(n, k)
  BY <1>1, SteadyOverwritten
<1>9. \A s : Refs(s)' = Refs(s)
  BY DEF Refs
<1>10. onekpaq' /\ PackerWasThere' /\ ~PackerWasThere
  BY <1>1 DEF onekpaq, PackerWasThere
<1>11. ASSUME NEW n \in DOMAIN w PROVE Fielded(n)'
  <2>1. PICK s, refs : s = sects[n] /\ refs = Refs(s)
    OBVIOUS
  <2>2. sects'[n] = s /\ Refs(sects[n])' = refs
    BY <1>1, <1>9, <2>1
  <2>3. /\ DOMAIN w[n] = DOMAIN refs
        /\ \A r \in DOMAIN refs : Kept(s, s.refs[r]) /\ w[n][r] = FieldAt(n, r)
    BY <1>1, <1>5, <2>1 DEF RefInv, Fielded
  <2>4. ASSUME NEW r \in DOMAIN refs
        PROVE  Kept(sects[n], sects[n].refs[r])' /\ values'[n][r] = FieldAt(n, r)'
    <3>1. Kept(s, s.refs[r])'
      BY <1>7, <2>3
    <3>2. w[n][r] = Overwritten(n, r)
      BY <1>1, <1>10, <2>3 DEF FieldAt
    <3>3. FieldAt(n, r)' = IF IsLastSource(<<n, r>>)' THEN Plain(s.refs[r], asked)' ELSE Overwritten(n, r)'
      BY <1>1, <1>3, <1>4, <1>10, <2>2 DEF FieldAt, Plain
    <3>4. FieldAt(n, r)' = IF IsLastSource(<<n, r>>) THEN Plain(s.refs[r], asked) ELSE Overwritten(n, r)
      BY <1>7, <1>8, <3>3 DEF Plain
    <3>5. w1[n][r] = IF IsLastSource(<<n, r>>) THEN Plain(s.refs[r], asked) ELSE w[n][r]
      BY <1>6, <2>1, <2>3
    <3>6. w1[n][r] = FieldAt(n, r)'
      BY <3>2, <3>4, <3>5
    <3>7. QED
      BY <1>5, <2>2, <3>1, <3>6
  <2>5. DOMAIN values'[n] = DOMAIN Refs(sects[n])'
    BY <1>5, <1>6, <2>2, <2>3
  <2>6. QED
    BY <2>2, <2>4, <2>5 DEF Fielded
<1>12. AllAddressed' /\ Arranged(onekpaq, sects)' /\ \A d \in translations' : Found(d)'
  <2>1. AllAddressed /\ Arranged(onekpaq, sects) /\ onekpaq' = onekpaq
    BY <1>1, <1>10 DEF RefInv, onekpaq
  <2>2. AllAddressed'
    BY <1>1, <2>1 DEF AllAddressed, Runs
  <2>3. \A d \in translations' : Found(d)'
    BY <1>1, SteadyFound DEF RefInv
  <2>4. QED
    BY <1>1, <2>1, <2>2, <2>3 DEF Arranged, MadeOf
<1>13. DOMAIN values' = DOMAIN sects'
  BY <1>1, <1>5, <1>6 DEF RefInv
<1>14. phase' = "linked" /\ packed'.hdrlen \in Nat
  BY <1>1, <1>2, <1>3, SizesAssumption DEF RefInv
<1>15. \A n \in DOMAIN values' : Fielded(n)'
  BY <1>5, <1>6, <1>11
<1>16. QED
  BY <1>1, <1>10, <1>12, <1>13, <1>14, <1>15 DEF RefInv

LEMMA LinkerKeepsRefs ==
  ASSUME ImportInv, BinaryInv, RefInv, Link
  PROVE  RefInv'
<1>1. CASE CLink
  <2>1. CASE FindCall
    BY <2>1, SteadyRefs DEF FindCall, ivars, bvars
  <2>2. CASE TranslateCalls
    BY <2>2, SteadyRefs DEF TranslateCalls, ivars
  <2>3. CASE CannotTranslate
    <3>1. bphase = "translate" /\ bphase' = "refused" /\ phase' = phase
      BY <2>3 DEF CannotTranslate, ivars
    <3>2. QED
      BY <2>3, <3>1, SteadyRefs DEF CannotTranslate, ivars
  <2>4. QED
    BY <1>1, <2>1, <2>2, <2>3 DEF CLink
<1>2. CASE BNext
  <2>1. CASE Collect \/ Place \/ Placed \/ Relocate \/ Relocated \/ Pack
    BY <2>1, CollectRefs, PlaceRefs, PlacedRefs, RelocateRefs, RelocatedRefs, PackRefs
  <2>2. CASE TooSmallArea
    BY <2>2, SteadyRefs DEF TooSmallArea, Rest, ivars
  <2>3. CASE CannotRelocate
    BY <2>3, SteadyRefs DEF CannotRelocate, Rest, ivars
  <2>4. CASE PackNothing
    BY <2>4, SteadyRefs DEF PackNothing, Rest, ivars
  <2>5. CASE Pad
    BY <2>5, SteadyRefs DEF Pad, Rest, ivars
  <2>6. QED
    BY <1>2, <2>1, <2>2, <2>3, <2>4, <2>5 DEF BNext
<1>3. QED
  BY <1>1, <1>2 DEF Link

LEMMA RefNext == ImportInv /\ BinaryInv /\ RefInv /\ [Next]_vars => RefInv'
<1> SUFFICES ASSUME ImportInv, BinaryInv, RefInv, [Next]_vars PROVE RefInv'
  OBVIOUS
<1>1. CASE Import
  <2>1. phase # "linked" /\ program' = program /\ UNCHANGED bvars
    BY <1>1 DEF Import, INext, Resolve, CannotResolve, Sort, FindParents, AskParent, Answer,
                FoundParents, AllParents, Enter, TryCombination, Mark, mapvars,
                WriteEntry, CannotWrite, WriteEnd
  <2>2. bphase = "off"
    BY <2>1 DEF RefInv
  <2>3. /\ bphase' = "off" /\ decompr_addr' = decompr_addr /\ loader_addr' = loader_addr
        /\ values' = values /\ packed' = packed /\ translations' = translations
    BY <2>1, <2>2 DEF bvars
  <2>4. QED
    BY <2>2, <2>3 DEF RefInv
<1>2. CASE Link
  BY <1>2, LinkerKeepsRefs
<1>3. CASE Load
  <2>1. program' = program /\ lmap' = lmap /\ phase' = phase /\ UNCHANGED bvars
    <3>1. CASE LNext /\ UNCHANGED <<bvars, cvars>>
      BY <3>1 DEF LNext, Start, BrowseMach, NextSymbol, FoundSymbol, NextGroup, NextImage,
                  FoundImage, ivars
    <3>2. CASE CLoad
      BY <3>2 DEF CLoad, StartRestore, RestoreCall, ivars
    <3>3. QED
      BY <1>3, <3>1, <3>2 DEF Load
  <2>2. QED
    BY <2>1, SteadyRefs DEF bvars
<1>4. CASE UNCHANGED vars
  BY <1>4, SteadyRefs DEF vars, ivars, bvars
<1>5. QED
  BY <1>1, <1>2, <1>3, <1>4 DEF Next, Terminating

-----------------------------------------------------------------------------
(* What references lead to in the end.                                     *)

\* k sections are wanted, and everything is where it is going to be.
AtLast(k) ==
  /\ program \in Programs /\ Listed(lmap) /\ Whole(k) /\ PackedRight(onekpaq, sects, packed)
  /\ Arranged(onekpaq, sects) /\ AllAddressed

LEMMA Settled ==
  ASSUME NEW k, AtLast(k)
  PROVE  /\ k \in Nat /\ DOMAIN sects = 1 .. Len(sects) /\ k \in 0 .. Len(sects) /\ Len(sects) \in Nat
         /\ \A n \in DOMAIN sects : /\ Raw(sects[n]) /\ InImage(sects[n])
                                    /\ IsWanted(sects[n]) <=> n <= k
         /\ \A m, n \in DOMAIN sects : Same(sects[m], sects[n]) => m = n
         /\ \A n \in 1 .. k : /\ Resides(sects[n]) = Runs(sects[n]) /\ Runs(sects[n]) \in Nat
                              /\ ~Packs(onekpaq, sects[n]) => Runs(sects[n]) = sects[n].abs_offset
<1>1. /\ Layered(onekpaq, sects) /\ k \in 0 .. Len(sects) /\ vm_shift \in Nat
      /\ \A n \in DOMAIN sects : IsWanted(sects[n]) <=> n <= k
      /\ Shifted(onekpaq, program.decompress_offset, sects, k, vm_shift)
  BY DEF AtLast, Whole, Lined
<1>2. Len(sects) \in Nat /\ DOMAIN sects = 1 .. Len(sects) /\ \A n \in DOMAIN sects : Raw(sects[n])
  BY <1>1 DEF Layered
<1>3. \A n \in DOMAIN sects : InImage(sects[n])
  BY <1>2, ImageIs DEF AtLast, Arranged
<1>4. \A m, n \in DOMAIN sects : Same(sects[m], sects[n]) => m = n
  BY DEF AtLast, Arranged, MadeOf, Same
<1>5. program.decompress_offset \in Nat
  BY ObjectsAre DEF AtLast
<1>6. ASSUME NEW n \in 1 .. k
      PROVE  /\ Resides(sects[n]) = Runs(sects[n]) /\ Runs(sects[n]) \in Nat
             /\ ~Packs(onekpaq, sects[n]) => Runs(sects[n]) = sects[n].abs_offset
  <2>1. Resides(sects[n]) = Runs(sects[n])
    BY <1>5, ResidesIs DEF AtLast
  <2>2. PICK s : s = sects[n] /\ Raw(s)
    BY <1>1, <1>2
  <2>3. s.abs_offset \in Nat /\ s.vm_shift \in Nat
    BY <2>2 DEF Raw
  <2>4. ~Packs(onekpaq, s) => s.vm_shift = 0
    BY <1>1, <2>2 DEF Shifted
  <2>5. Runs(s) \in Nat /\ (~Packs(onekpaq, s) => Runs(s) = s.abs_offset)
    BY <2>3, <2>4 DEF Runs
  <2>6. QED
    BY <2>1, <2>2, <2>5
<1>7. QED
  BY <1>1, <1>2, <1>3, <1>4, <1>6

LEMMA Residing ==
  ASSUME NEW k, AtLast(k), NEW t \in Range(sects), IsWanted(t)
  PROVE  /\ Resides(t) = Runs(t) /\ Runs(t) \in Nat
         /\ ~onekpaq => Runs(t) = t.abs_offset /\ t.vm_shift = 0 /\ t.abs_offset \in Nat
<1>1. PICK n \in DOMAIN sects : t = sects[n]
  BY DEF Range
<1>2. /\ k \in Nat /\ DOMAIN sects = 1 .. Len(sects) /\ k \in 0 .. Len(sects) /\ Len(sects) \in Nat
      /\ \A m \in DOMAIN sects : Raw(sects[m]) /\ (IsWanted(sects[m]) <=> m <= k)
      /\ \A m \in 1 .. k : /\ Resides(sects[m]) = Runs(sects[m]) /\ Runs(sects[m]) \in Nat
                           /\ ~Packs(onekpaq, sects[m]) => Runs(sects[m]) = sects[m].abs_offset
  BY Settled
<1>3. n \in 1 .. k
  BY <1>1, <1>2
<1>4. ~onekpaq => ~Packs(onekpaq, t)
  BY DEF Packs
<1>5. t.abs_offset \in Nat /\ t.vm_shift \in Nat
  BY <1>1, <1>2 DEF Raw
<1>6. Runs(t) = t.abs_offset + t.vm_shift
  BY DEF Runs
<1>7. QED
  BY <1>1, <1>2, <1>3, <1>4, <1>5, <1>6

LEMMA SectOfIs ==
  ASSUME NEW k, AtLast(k), NEW n \in DOMAIN sects
  PROVE  SectOf(sects[n].obj, sects[n].num) = sects[n]
<1>1. PICK s : s = sects[n] /\ s \in Range(sects)
  BY DEF Range
<1>2. \A m \in DOMAIN sects : Same(sects[m], sects[n]) => m = n
  BY Settled
<1>3. ASSUME NEW t \in Range(sects), t.obj = s.obj, t.num = s.num PROVE t = s
  <2>1. PICK m \in DOMAIN sects : t = sects[m]
    BY DEF Range
  <2>2. Same(sects[m], sects[n])
    BY <1>1, <1>3, <2>1 DEF Same
  <2>3. QED
    BY <1>1, <1>2, <2>1, <2>2
<1>4. PICK u : u = SectOf(s.obj, s.num)
  OBVIOUS
<1>5. u \in Range(sects) /\ u.obj = s.obj /\ u.num = s.num
  BY <1>1, <1>4 DEF SectOf
<1>6. QED
  BY <1>1, <1>3, <1>4, <1>5

\* Where the loader's own sections are.
LEMMA OwnPlaces ==
  ASSUME NEW k, AtLast(k)
  PROVE  /\ decompr_addr = Resides(SectOf(1, 1)) /\ loader_addr = SectOf(2, 1).abs_offset
         /\ jtbl_off = Resides(SectOf(2, JumpNum)) /\ jtbl_off \in Nat
         /\ Runs(HashSect) = Resides(HashSect) /\ Runs(HashSect) \in Nat
         /\ onekpaq => Resides(CHOOSE t \in Range(sects) : t.obj = 2 /\ SectionType(t) = TEXT)
                         = program.decompress_offset
<1>1. PICK N \in Nat :
        /\ DOMAIN sects = 1 .. N /\ k \in 0 .. N
        /\ \A n \in 1 .. N : /\ Raw(sects[n]) /\ InImage(sects[n])
                             /\ IsWanted(sects[n]) <=> n <= k
        /\ \A m, n \in 1 .. N : Same(sects[m], sects[n]) => m = n
        /\ \A n \in 1 .. k : /\ Resides(sects[n]) = Runs(sects[n]) /\ Runs(sects[n]) \in Nat
                             /\ ~Packs(onekpaq, sects[n]) => Runs(sects[n]) = sects[n].abs_offset
  BY Settled
<1>2. PICK l \in 1 .. N, j \in 1 .. N :
        /\ sects[l].obj = 2 /\ sects[l].num = 1 /\ sects[j].obj = 2 /\ sects[j].num = JumpNum
        /\ decompr_addr = sects[2].abs_offset /\ loader_addr = sects[l].abs_offset
        /\ jtbl_off = Runs(sects[j])
  BY <1>1 DEF AtLast, AllAddressed
<1>3. 2 \in 1 .. N /\ sects[2].obj = 1 /\ sects[2].num = 1
  <2>1. 2 \in 1 .. N /\ sects[2].obj = 1
    BY <1>1 DEF AtLast, Arranged
  <2>2. QED
    BY <1>1, <2>1 DEF InImage
<1>4. IsWanted(sects[2]) /\ IsWanted(sects[l]) /\ IsWanted(sects[j]) /\ SectionType(sects[l]) = TEXT
  <2>1. ASSUME NEW s, InImage(s), s.obj = 1 \/ s.obj = 2
        PROVE  IsWanted(s) /\ (s.num = 1 => SectionType(s) = TEXT)
    BY <2>1 DEF InImage, Own, IsWanted, TEXT, DATA, BSS, DoNotWant, HashNum, JumpNum
  <2>2. InImage(sects[2]) /\ InImage(sects[l]) /\ InImage(sects[j])
    BY <1>1, <1>3
  <2>3. QED
    BY <1>2, <1>3, <2>1, <2>2
<1>5. 2 \in 1 .. k /\ l \in 1 .. k /\ j \in 1 .. k
  BY <1>1, <1>3, <1>4
<1>6. SectOf(1, 1) = sects[2] /\ SectOf(2, 1) = sects[l] /\ SectOf(2, JumpNum) = sects[j]
  BY <1>1, <1>2, <1>3, SectOfIs
<1>7. decompr_addr = Resides(SectOf(1, 1))
  <2>1. ~Packs(onekpaq, sects[2])
    BY <1>3 DEF Packs
  <2>2. QED
    BY <1>1, <1>2, <1>5, <1>6, <2>1
<1>8. jtbl_off = Resides(SectOf(2, JumpNum)) /\ jtbl_off \in Nat
  BY <1>1, <1>2, <1>5, <1>6
<1>9. Runs(HashSect) = Resides(HashSect) /\ Runs(HashSect) \in Nat
  <2>1. PICK H : H = {n \in DOMAIN sects : sects[n].obj = 2 /\ SectionType(sects[n]) = DATA}
    OBVIOUS
  <2>2. PICK h \in 1 .. N : sects[h].obj = 2 /\ sects[h].num = HashNum
    BY <1>1 DEF AtLast, Arranged, MadeOf
  <2>3. SectionType(sects[h]) = DATA
    BY <1>1, <2>2 DEF InImage, Own, HashNum, JumpNum
  <2>4. h \in H /\ H \in SUBSET Nat
    BY <1>1, <2>1, <2>2, <2>3
  <2>5. PICK m : m = Min(H) /\ m \in H
    BY <2>4, MinIs
  <2>6. m \in 1 .. N /\ SectionType(sects[m]) = DATA
    BY <1>1, <2>1, <2>5
  <2>7. m \in 1 .. k
    BY <1>1, <2>6 DEF IsWanted, DATA, DoNotWant
  <2>8. HashSect = sects[m]
    BY <2>1, <2>5 DEF HashSect
  <2>9. QED
    BY <1>1, <2>7, <2>8
<1>10. ASSUME onekpaq
       PROVE  Resides(CHOOSE t \in Range(sects) : t.obj = 2 /\ SectionType(t) = TEXT)
                = program.decompress_offset
  <2>1. PICK s : s = sects[l] /\ s \in Range(sects) /\ Raw(s)
    BY <1>1 DEF Range
  <2>2. ASSUME NEW t \in Range(sects), t.obj = 2, SectionType(t) = TEXT PROVE t = s
    <3>1. PICK n \in 1 .. N : t = sects[n]
      BY <1>1 DEF Range
    <3>2. t.num = 1
      BY <1>1, <2>2, <3>1 DEF InImage, Own, TEXT, DATA, BSS
    <3>3. Same(sects[n], sects[l])
      BY <1>2, <2>2, <3>1, <3>2 DEF Same
    <3>4. QED
      BY <1>1, <2>1, <3>1, <3>3
  <2>3. PICK u : u = CHOOSE t \in Range(sects) : t.obj = 2 /\ SectionType(t) = TEXT
    OBVIOUS
  <2>4. u = s
    <3>1. u \in Range(sects) /\ u.obj = 2 /\ SectionType(u) = TEXT
      BY <1>2, <1>4, <2>1, <2>3
    <3>2. QED
      BY <2>2, <3>1
  <2>5. FirstOf(onekpaq, sects, l)
    <3>1. PICK q \in 1 .. N : /\ sects[q].obj = 2 /\ sects[q].num = 1
                              /\ \A n \in 1 .. N : n < q => ~Packs(onekpaq, sects[n])
      BY <1>1 DEF AtLast, Arranged
    <3>2. q = l
      BY <1>1, <1>2, <3>1 DEF Same
    <3>3. Packs(onekpaq, sects[l])
      BY <1>2, <1>10 DEF Packs, HashNum
    <3>4. \A n \in 1 .. l - 1 : ~Packs(onekpaq, sects[n])
      BY <3>1, <3>2
    <3>5. QED
      BY <3>3, <3>4 DEF FirstOf
  <2>6. PICK d, v : /\ d = program.decompress_offset /\ v = vm_shift
                    /\ s.abs_offset + v = d /\ s.vm_shift = v
    <3>1. Shifted(onekpaq, program.decompress_offset, sects, k, vm_shift) /\ vm_shift \in Nat
      BY DEF AtLast, Whole, Lined
    <3>2. sects[l].abs_offset + vm_shift = program.decompress_offset
      BY <1>5, <2>5, <3>1 DEF Shifted
    <3>3. sects[l].vm_shift = vm_shift
      BY <1>5, <2>5, <3>1 DEF Shifted, FirstOf
    <3>4. QED
      BY <2>1, <3>1, <3>2, <3>3
  <2>7. Resides(s) = Runs(s)
    BY <1>1, <1>5, <2>1
  <2>8. Runs(s) = d
    BY <2>6 DEF Runs
  <2>9. QED
    BY <2>3, <2>4, <2>6, <2>7, <2>8
<1>11. QED
  BY <1>2, <1>6, <1>7, <1>8, <1>9, <1>10

LEMMA OwnerIs ==
  ASSUME NEW k, AtLast(k), NEW n \in DOMAIN sects
  PROVE  OwnerOf(n) = sects[n].obj
<1>1. PICK N \in Nat :
        /\ DOMAIN sects = 1 .. N
        /\ \A m \in 1 .. N : Raw(sects[m]) /\ InImage(sects[m])
        /\ \A l, m \in 1 .. N : Same(sects[l], sects[m]) => l = m
  BY Settled
<1>2. 1 \in 1 .. N /\ 2 \in 1 .. N /\ sects[1].obj = 0 /\ sects[2].obj = 1
  BY <1>1 DEF AtLast, Arranged
<1>3. sects[1].num = 1 /\ sects[2].num = 1
  BY <1>1, <1>2 DEF InImage
<1>4. PICK s : s = sects[n] /\ s.obj \in Nat /\ (s.obj < 2 => s.num = 1)
  BY <1>1 DEF Raw, InImage
<1>5. (s.obj = 0 => n = 1) /\ (s.obj = 1 => n = 2)
  BY <1>1, <1>2, <1>3, <1>4 DEF Same
<1>6. CASE s.obj >= 3
  BY <1>4, <1>6 DEF OwnerOf, isloader
<1>7. CASE s.obj = 0
  <2>1. Min({0, 2}) = 0
    BY MinIsLeast
  <2>2. n - 1 = 0
    BY <1>5, <1>7
  <2>3. QED
    BY <1>4, <1>7, <2>1, <2>2 DEF OwnerOf, isloader
<1>8. CASE s.obj = 1
  <2>1. Min({1, 2}) = 1
    BY MinIsLeast
  <2>2. n - 1 = 1
    BY <1>5, <1>8
  <2>3. QED
    BY <1>4, <1>8, <2>1, <2>2 DEF OwnerOf, isloader
<1>9. CASE s.obj = 2
  <2>1. PICK m \in Nat : m = n - 1 /\ m >= 2
    BY <1>1, <1>2, <1>4, <1>9
  <2>2. Min({m, 2}) = 2
    BY <2>1, MinIsLeast
  <2>3. QED
    BY <1>4, <1>9, <2>1, <2>2 DEF OwnerOf, isloader
<1>10. QED
  BY <1>4, <1>6, <1>7, <1>8, <1>9

LEMMA SlotIs ==
  ASSUME program \in Programs, Listed(lmap), NEW name, Slots(name) # {}
  PROVE  SlotOf(name) \in Nat
<1>1. PICK last \in Nat : DOMAIN lmap = 1 .. last
  BY ListIs
<1>2. Slots(name) \in SUBSET Nat
  BY <1>1 DEF Slots
<1>3. PICK S : S = Slots(name) /\ S \in SUBSET Nat /\ S # {}
  BY <1>2
<1>4. Min(S) \in S
  BY <1>3, MinIs
<1>5. QED
  BY <1>3, <1>4 DEF SlotOf

\* Where the sections are, for Meant.
ResidesAt == [t \in Range(sects) |-> Resides(t)]
PlacedAt == [t \in Range(sects) |-> t.abs_offset]

LEMMA SymbolPlace ==
  ASSUME NEW k, AtLast(k), NEW name, Definitions(name) # {},
         SymbolOf(name).num # 0 => Stays(SymbolOf(name))
  PROVE  /\ SymbolOffset(RunsAt, SymbolOf(name)) = SymbolOffset(ResidesAt, SymbolOf(name))
         /\ SymbolOffset(RunsAt, SymbolOf(name)) \in Int
         /\ ~onekpaq => SymbolOffset(PlacedAt, SymbolOf(name)) = SymbolOffset(RunsAt, SymbolOf(name))
<1> DEFINE some == [name : Nat, type : {"extern", "laturi", "defined", "none"},
                    isdyld : {FALSE}, obj : Nat, num : Nat, uaddr : Nat]
<1>1. program \in Programs /\ program.symbols \in Seq(some)
  BY ProgramAssumption, Zenon DEF AtLast
<1>2. PICK T : T = some
  OBVIOUS
<1>3. PICK symbols \in Seq(T) : symbols = program.symbols
  BY <1>1, <1>2
<1>4. PICK D : D = Definitions(name)
  OBVIOUS
<1>5. \A m \in D : m \in DOMAIN symbols /\ symbols[m].type = "defined"
  BY <1>3, <1>4 DEF Definitions
<1>6. D \in SUBSET Nat /\ D # {}
  BY <1>3, <1>4, <1>5
<1>7. PICK m : m = Min(D) /\ m \in D
  BY <1>6, MinIs
<1>8. PICK y : y = symbols[m] /\ y \in T /\ y.type = "defined"
  BY <1>5, <1>7
<1>9. y = SymbolOf(name)
  BY <1>3, <1>4, <1>7, <1>8 DEF SymbolOf
<1>10. y.obj \in Nat /\ y.num \in Nat /\ y.uaddr \in Nat
  BY <1>2, <1>8
<1>11. CASE y.num = 0
  BY <1>9, <1>10, <1>11 DEF SymbolOffset
<1>12. CASE y.num # 0
  <2>1. PICK p \in DOMAIN program.sects : program.sects[p].obj = y.obj /\ program.sects[p].num = y.num
    <3>1. \A x \in DOMAIN program.symbols :
            program.symbols[x].type = "defined" /\ program.symbols[x].num # 0 =>
              \E p \in DOMAIN program.sects :
                program.sects[p].obj = program.symbols[x].obj /\ program.sects[p].num = program.symbols[x].num
      BY <1>1, ReferenceAssumption, Zenon
    <3>2. m \in DOMAIN program.symbols /\ y = program.symbols[m]
      BY <1>3, <1>5, <1>7, <1>8
    <3>3. QED
      BY <1>8, <1>12, <3>1, <3>2, Zenon
  <2>2. PICK n \in DOMAIN sects : MadeFrom(sects[n], program.sects[p])
    BY DEF AtLast, Arranged, MadeOf
  <2>3. PICK t : t = sects[n] /\ t.obj = y.obj /\ t.num = y.num /\ t \in Range(sects)
    BY <2>1, <2>2 DEF MadeFrom, Range
  <2>4. SectOf(y.obj, y.num) = t
    BY <2>3, SectOfIs
  <2>5. IsWanted(t)
    BY <1>9, <1>12, <2>4 DEF Stays, IsWanted
  <2>6. t.uaddr \in Nat
    BY <2>3, Settled DEF InImage
  <2>7. /\ Resides(t) = Runs(t) /\ Runs(t) \in Nat
        /\ ~onekpaq => Runs(t) = t.abs_offset
    BY <2>3, <2>5, Residing
  <2>8. RunsAt[t] = Runs(t) /\ ResidesAt[t] = Resides(t) /\ PlacedAt[t] = t.abs_offset
    BY <2>3 DEF RunsAt, ResidesAt, PlacedAt
  <2>9. \A at : SymbolOffset(at, y) = at[t] + y.uaddr - t.uaddr
    BY <1>12, <2>4 DEF SymbolOffset
  <2>10. SymbolOffset(RunsAt, y) = Runs(t) + y.uaddr - t.uaddr
         /\ SymbolOffset(ResidesAt, y) = Resides(t) + y.uaddr - t.uaddr
         /\ SymbolOffset(PlacedAt, y) = t.abs_offset + y.uaddr - t.uaddr
    BY <2>8, <2>9
  <2>11. QED
    BY <1>9, <1>10, <2>6, <2>7, <2>10
<1>13. QED
  BY <1>11, <1>12

\* A reference by name leads where the name is.
LEMMA ExternRight ==
  ASSUME NEW k, AtLast(k), NEW s, NEW r, Leads(r), Kept(s, r), r.kind = "extern", r.name # Source
  PROVE  ExternOffset(r) = Meant(s, r) /\ ExternOffset(r) \in Int
<1>1. program \in Programs /\ Listed(lmap) /\ ItemSize \in Nat /\ AddrOffset \in Nat
      /\ program.decompress_offset \in Nat
  BY SizesAssumption, ObjectsAre DEF AtLast
<1>2. PICK last \in Nat : last = Len(lmap)
  BY <1>1, ListIs
<1>3. PICK base : base = Resides(SectOf(2, JumpNum)) /\ base = jtbl_off /\ base \in Nat
  BY OwnPlaces
<1>4. r.form \in {"plain", "relof", "ebx_relof", "index"}
  BY DEF Leads, Reference
<1>5. JumpTable = -1 /\ HashStart = -2 /\ Source = -3 /\ Destination = -4 /\ DestAddrs = -5
      /\ Special = {JumpTable, HashStart, Source, Destination, DestAddrs}
  BY DEF JumpTable, HashStart, Source, Destination, DestAddrs, Special
<1>6. CASE r.name = JumpTable
  <2>1. ExternOffset(r) = jtbl_off + AddrOffset
    BY <1>5, <1>6 DEF ExternOffset, SpecialOffset
  <2>2. Meant(s, r) = base + AddrOffset
    BY <1>3, <1>6 DEF Meant
  <2>3. QED
    BY <1>1, <1>3, <2>1, <2>2
<1>7. CASE r.name = HashStart
  <2>1. ExternOffset(r) = Runs(HashSect)
    BY <1>5, <1>7 DEF ExternOffset, SpecialOffset
  <2>2. Meant(s, r) = Resides(HashSect)
    BY <1>5, <1>7 DEF Meant
  <2>3. QED
    BY <2>1, <2>2, OwnPlaces
<1>8. CASE r.name = Destination
  <2>1. ExternOffset(r) = program.decompress_offset
    BY <1>5, <1>8 DEF ExternOffset, SpecialOffset
  <2>2. Meant(s, r) = Resides(CHOOSE t \in Range(sects) : t.obj = 2 /\ SectionType(t) = TEXT)
    BY <1>5, <1>8 DEF Meant
  <2>3. onekpaq
    BY <1>8 DEF Leads
  <2>4. QED
    BY <1>1, <2>1, <2>2, <2>3, OwnPlaces
<1>9. CASE r.name \notin Special /\ Slots(r.name) # {}
  <2>1. PICK slot0 \in Nat : slot0 = SlotOf(r.name)
    BY <1>1, <1>9, SlotIs
  <2>2. ExternOffset(r) = ImportOffset(r.form, slot0)
    BY <1>9, <2>1 DEF ExternOffset
  <2>3. Meant(s, r) = IF r.form = "plain" THEN base + (slot0 - 1) * ItemSize
                      ELSE ImportOffset(r.form, slot0)
    BY <1>3, <1>5, <1>9, <2>1 DEF Meant
  <2>4. r.form = "plain" => ImportOffset(r.form, slot0) = jtbl_off + (slot0 - 1) * ItemSize
    BY DEF ImportOffset
  <2>5. PICK a \in Int, b \in Int : a = (slot0 - 1) * ItemSize /\ b = (slot0 - 1 - last) * ItemSize
    BY <1>1, <1>2
  <2>6. /\ r.form = "relof" => ImportOffset(r.form, slot0) = a
        /\ r.form = "ebx_relof" => ImportOffset(r.form, slot0) = b
        /\ r.form = "index" => ImportOffset(r.form, slot0) = slot0 - 1
    BY <1>2, <2>5 DEF ImportOffset
  <2>7. ImportOffset(r.form, slot0) \in Int
    BY <1>3, <1>4, <2>4, <2>5, <2>6
  <2>8. QED
    BY <1>3, <2>2, <2>3, <2>4, <2>7
<1>10. CASE r.name \notin Special /\ Slots(r.name) = {}
  <2>1. Definitions(r.name) # {} /\ (SymbolOf(r.name).num # 0 => Stays(SymbolOf(r.name)))
    BY <1>10 DEF Kept
  <2>2. ExternOffset(r) = SymbolOffset(RunsAt, SymbolOf(r.name))
    BY <1>10 DEF ExternOffset
  <2>3. Meant(s, r) = SymbolOffset(ResidesAt, SymbolOf(r.name))
    BY <1>5, <1>10 DEF Meant, ResidesAt
  <2>4. QED
    BY <2>1, <2>2, <2>3, SymbolPlace
<1>11. CASE r.name = DestAddrs
  <2>1. ExternOffset(r) = jtbl_off
    BY <1>5, <1>11 DEF ExternOffset, SpecialOffset
  <2>2. Meant(s, r) = base
    BY <1>3, <1>5, <1>11 DEF Meant
  <2>3. QED
    BY <1>3, <2>1, <2>2
<1>12. QED
  BY <1>5, <1>6, <1>7, <1>8, <1>9, <1>10, <1>11

\* A reference that names no symbol leads into the section it is meant for.
LEMMA SectionRight ==
  ASSUME NEW k, AtLast(k), NEW s, NEW r, Kept(s, r), r.kind # "extern"
  PROVE  \E t \in Range(sects) :
           /\ t = SectionMeant(s, r) /\ t.uaddr \in Nat
           /\ t.jumps = <<>> => Resides(t) = Runs(t) /\ Runs(t) \in Nat
<1>1. PICK t : t = SectionMeant(s, r)
  OBVIOUS
<1>2. t \in Range(sects) /\ IsMeant(s, r, t)
  <2>1. \E u \in Range(sects) : IsMeant(s, r, u)
    BY DEF Kept
  <2>2. QED
    BY <1>1, <2>1, Zenon DEF SectionMeant
<1>3. PICK n \in DOMAIN sects : t = sects[n]
  BY <1>2 DEF Range
<1>4. t.uaddr \in Nat
  BY <1>3, Settled DEF InImage
<1>5. ASSUME t.jumps = <<>> PROVE Resides(t) = Runs(t) /\ Runs(t) \in Nat
  <2>1. IsWanted(t)
    BY <1>1, <1>5 DEF Kept, IsWanted
  <2>2. QED
    BY <1>2, <2>1, Residing
<1>6. QED
  BY <1>1, <1>2, <1>4, <1>5

\* An assembler's number and what the linker reads of it differ by multiples of what
\* the field holds, which does not change what is written back.
LEMMA ContentsRead ==
  ASSUME NEW s, NEW r, Contents(s, r) \in Int, NEW p \in Nat \ {0}, p = Power[r.width]
  PROVE  /\ ta_contents(s, r) \in Int
         /\ \E q \in Int : ta_contents(s, r) = Contents(s, r) + p * q
<1> PICK c \in Int : c = Contents(s, r)
  OBVIOUS
<1>1. PICK q \in Int, x \in 0 .. p - 1 : c = p * q + x /\ x = c % p
  BY QuotientExists
<1>2. ta_contents(s, r) = IF 2 * x < p THEN x ELSE x - p
  BY <1>1 DEF ta_contents
<1>3. PICK z \in Int : z = p * q
  OBVIOUS
<1>4. p * (0 - q) = 0 - z /\ p * (0 - q - 1) = 0 - z - p
  BY <1>3
<1>5. x = c + p * (0 - q) /\ x - p = c + p * (0 - q - 1)
  BY <1>1, <1>3, <1>4
<1>6. CASE 2 * x < p
  <2>1. ta_contents(s, r) = x /\ x \in Int /\ 0 - q \in Int
    BY <1>2, <1>6
  <2>2. QED
    BY <1>5, <2>1, Zenon
<1>7. CASE ~(2 * x < p)
  <2>1. PICK b \in Int : b = x - p
    OBVIOUS
  <2>2. PICK y \in Int : y = 0 - q - 1
    OBVIOUS
  <2>3. b = c + p * y /\ ta_contents(s, r) = b
    BY <1>2, <1>5, <1>7, <2>1, <2>2
  <2>4. QED
    BY <2>3, Zenon
<1>8. QED
  BY <1>6, <1>7

LEMMA ContentsCount ==
  ASSUME NEW s, NEW r, r.width \in 0 .. Field, Contents(s, r) \in Int
  PROVE  /\ ta_contents(s, r) \in Int
         /\ \A x \in Int : Plain(r, ta_contents(s, r) + x) = Plain(r, Contents(s, r) + x)
<1>1. PICK p \in Nat \ {0} : p = Power[r.width]
  BY PowerIs
<1> PICK c \in Int : c = Contents(s, r)
  OBVIOUS
<1>0. ta_contents(s, r) \in Int /\ \E q \in Int : ta_contents(s, r) = Contents(s, r) + p * q
  BY <1>1, ContentsRead, Zenon
<1> PICK b \in Int : b = ta_contents(s, r)
  BY <1>0
<1>2. PICK q \in Int : b = c + p * q
  BY <1>0
<1>3. ASSUME NEW x \in Int PROVE (b + x) % p = (c + x) % p
  <2>1. c + x \in Int
    OBVIOUS
  <2>2. PICK q1 \in Int, y \in 0 .. p - 1 : c + x = p * q1 + y /\ y = (c + x) % p
    BY <2>1, QuotientExists
  <2>3. PICK z \in Int, z1 \in Int : z = p * q /\ z1 = p * q1
    OBVIOUS
  <2>4. p * (q + q1) = z + z1
    BY <2>3
  <2>5. b + x = p * (q + q1) + y
    BY <1>2, <2>2, <2>3, <2>4
  <2>6. b + x \in Int /\ q + q1 \in Int
    OBVIOUS
  <2>7. (b + x) % p = y
    BY <2>5, <2>6, QuotientIs
  <2>8. QED
    BY <2>2, <2>7
<1>4. QED
  BY <1>1, <1>2, <1>3 DEF Plain

\* Where a table of jumps is understood, a call through it goes where its entry leads.
LEMMA CallRight ==
  ASSUME NEW k, AtLast(k), NEW s \in Range(sects), IsWanted(s), NEW r, Leads(r), Kept(s, r),
         r.pcrel => s.uaddr = 0, SectionMeant(s, r).jumps # <<>>,
         IsTableCall(s, r, SectionMeant(s, r))
  PROVE  /\ TableEntry(s, SectionMeant(s, r), r) + 1 \in DOMAIN SectionMeant(s, r).jumps
         /\ LET name == SectionMeant(s, r).jumps[TableEntry(s, SectionMeant(s, r), r) + 1]
            IN  Meant(s, r) = LookedUp(name) /\ LookedUp(name) \in Int
<1>1. PICK t \in Range(sects) : t = SectionMeant(s, r) /\ IsTableCall(s, r, t) /\ t.uaddr \in Nat
  BY SectionRight DEF IsTableCall
<1>2. /\ ~onekpaq /\ r.kind = "section" /\ r.pcrel /\ r.addend = 0 /\ r.width = Field
      /\ t.uaddr <= r.value /\ (r.value - t.uaddr) \div Multiplier + 1 \in DOMAIN t.jumps
  BY <1>1 DEF IsTableCall
<1>3. s.uaddr = 0 /\ r.value \in Nat /\ r.at \in Nat /\ Field \in Nat /\ r.value < Words
  BY <1>2, SizesAssumption DEF Leads, Reference
<1>4. PICK a \in Nat : a = s.abs_offset /\ s.vm_shift = 0 /\ Runs(s) = a
  BY <1>2, Residing
<1>5. PICK e : e = (r.value - t.uaddr) \div Multiplier
  OBVIOUS
<1>6. TableEntry(s, t, r) = e
  <2>1. PICK x \in Nat, f \in Nat, v \in Nat, u \in Nat :
          x = r.at /\ f = Field /\ v = r.value /\ u = t.uaddr /\ u <= v
    BY <1>1, <1>2, <1>3
  <2>2. Contents(s, r) = v - (x + f)
    BY <1>2, <1>3, <2>1 DEF Contents
  <2>3. PICK p \in Nat \ {0} : p = Words /\ p = Power[r.width]
    BY <1>2, WordsIs
  <2>4. PICK c \in Int, q \in Int : ta_contents(s, r) = c /\ c = (v - (x + f)) + p * q
    <3>1. Contents(s, r) \in Int
      BY <2>2
    <3>2. /\ ta_contents(s, r) \in Int
          /\ \E q \in Int : ta_contents(s, r) = Contents(s, r) + p * q
      BY <2>3, <3>1, ContentsRead, Zenon
    <3>3. PICK c \in Int : c = ta_contents(s, r)
      BY <3>2
    <3>4. \E q \in Int : c = (v - (x + f)) + p * q
      BY <2>2, <3>2, <3>3
    <3>5. QED
      BY <3>3, <3>4
  <2>5. PICK o : o = c - a + 0 + (a + x + f) - u
    OBVIOUS
  <2>6. TableEntry(s, t, r) = (o % p) \div Multiplier
    <3>1. ta_pc_addr(s, r) = a + x + f
      BY <1>2, <1>4, <2>1 DEF ta_pc_addr
    <3>2. QED
      BY <1>2, <1>4, <2>1, <2>3, <2>4, <2>5, <3>1 DEF TableEntry
  <2>7. PICK d \in 0 .. p - 1 : d = v - u
    <3>1. v < p
      BY <1>3, <2>1, <2>3
    <3>2. QED
      BY <2>1, <2>3, <3>1
  <2>8. o = p * q + d
    <3>1. PICK z \in Int : z = p * q
      BY <2>3, <2>4
    <3>2. c = (v - (x + f)) + z
      BY <2>4, <3>1
    <3>3. a \in Nat /\ x \in Nat /\ f \in Nat /\ v \in Nat /\ u \in Nat
      BY <1>4, <2>1
    <3>4. ((v - (x + f)) + z) - a + 0 + (a + x + f) - u = z + (v - u)
      BY <3>1, <3>3
    <3>5. QED
      BY <2>5, <2>7, <3>1, <3>2, <3>4
  <2>9. o % p = d
    <3>1. o \in Int
      BY <1>4, <2>1, <2>4, <2>5
    <3>2. QED
      BY <2>3, <2>7, <2>8, <3>1, QuotientIs
  <2>10. QED
    BY <1>5, <2>1, <2>6, <2>7, <2>9
<1>7. PICK name : name = t.jumps[e + 1]
  OBVIOUS
<1>8. CanLookUp(name)
  <2>1. TableEntry(s, t, r) + 1 \in DOMAIN t.jumps => CanLookUp(t.jumps[TableEntry(s, t, r) + 1])
    BY <1>1, <1>2 DEF Kept
  <2>2. QED
    BY <1>2, <1>5, <1>6, <1>7, <2>1
<1>9. Meant(s, r) = IF Definitions(name) # {} THEN SymbolOffset(ResidesAt, SymbolOf(name))
                    ELSE Resides(SectOf(2, JumpNum)) + (SlotOf(name) - 1) * ItemSize
  BY <1>1, <1>2, <1>5, <1>7 DEF Meant, ResidesAt
<1>10. LookedUp(name) = IF Definitions(name) # {} THEN SymbolOffset(PlacedAt, SymbolOf(name))
                        ELSE jtbl_off + (SlotOf(name) - 1) * ItemSize
  BY DEF LookedUp, PlacedAt
<1>11. Meant(s, r) = LookedUp(name) /\ LookedUp(name) \in Int
  <2>1. CASE Definitions(name) # {}
    <3>1. SymbolOf(name).num # 0 /\ Stays(SymbolOf(name))
      BY <1>8, <2>1 DEF CanLookUp
    <3>2. QED
      BY <1>2, <1>9, <1>10, <2>1, <3>1, SymbolPlace
  <2>2. CASE Definitions(name) = {}
    <3>1. Slots(name) # {}
      BY <1>8, <2>2 DEF CanLookUp
    <3>2. PICK slot0 \in Nat : slot0 = SlotOf(name)
      BY <3>1, SlotIs DEF AtLast
    <3>3. PICK item \in Nat : item = ItemSize
      BY SizesAssumption
    <3>4. jtbl_off = Resides(SectOf(2, JumpNum)) /\ jtbl_off \in Nat
      BY OwnPlaces
    <3>5. (slot0 - 1) * item \in Int
      BY <3>2, <3>3
    <3>6. QED
      BY <1>9, <1>10, <2>2, <3>2, <3>3, <3>4, <3>5
  <2>3. QED
    BY <2>1, <2>2
<1>12. QED
  BY <1>1, <1>2, <1>5, <1>6, <1>7, <1>11

\* What a field has to be, for Meant, before it is cut to its width.
Wants(s, r) == Meant(s, r) + r.addend - (IF r.pcrel THEN Resides(s) + r.at + r.width ELSE 0)

\* A field that is understood has the right value when it is relocated.
LEMMA ValueRight ==
  ASSUME NEW k, AtLast(k), NEW n \in 1 .. k, NEW r, Leads(r), Kept(sects[n], r),
         r.pcrel => sects[n].uaddr = 0, r.kind = "extern" => r.name # Source,
         r.kind # "extern" /\ SectionMeant(sects[n], r).jumps # <<>> =>
           IsTableCall(sects[n], r, SectionMeant(sects[n], r))
  PROVE  Value(n, r) = Plain(r, Wants(sects[n], r))
<1>1. PICK N \in Nat :
        /\ DOMAIN sects = 1 .. N /\ k \in 0 .. N
        /\ \A m \in 1 .. N : IsWanted(sects[m]) <=> m <= k
        /\ \A m \in 1 .. k : Resides(sects[m]) = Runs(sects[m]) /\ Runs(sects[m]) \in Nat
  BY Settled
<1>2. PICK s : /\ s = sects[n] /\ s \in Range(sects) /\ IsWanted(s) /\ n \in DOMAIN sects
               /\ Resides(s) = Runs(s) /\ Runs(s) \in Nat
  BY <1>1 DEF Range
<1>3. OwnerOf(n) = s.obj
  BY <1>2, OwnerIs
<1>4. PICK x \in Nat, d \in Int, v \in Nat, a \in Nat :
        /\ x = r.at /\ d = r.addend /\ v = r.value /\ a = Runs(s)
        /\ r.pcrel \in BOOLEAN /\ (r.pcrel => s.uaddr = 0)
  BY <1>2 DEF Leads, Reference
<1>5. PICK f \in Nat : f = r.width /\ r.width \in 0 .. Field
  BY SizesAssumption DEF Leads, Reference, Kept
<1>6. PICK from \in Int : from = IF r.pcrel THEN a ELSE 0
  OBVIOUS
<1>7. PICK m : m = Meant(s, r)
  OBVIOUS
<1>8. Leads(r) /\ Kept(s, r)
  BY <1>2
<1>9. Wants(s, r) = m + d - (IF r.pcrel THEN a + x + f ELSE 0)
  BY <1>2, <1>4, <1>5, <1>7 DEF Wants
<1>10. CASE r.kind = "extern"
  <2>1. Value(n, r) = Plain(r, ta_contents(s, r) + ExternOffset(r) - from)
    BY <1>2, <1>3, <1>4, <1>6, <1>10 DEF Value, Astray, Number
  <2>2. m = ExternOffset(r) /\ m \in Int
    BY <1>7, <1>8, <1>10, ExternRight
  <2>3. PICK c \in Int : c = Contents(s, r) /\ c = d - (IF r.pcrel THEN x + f ELSE 0)
    <3>1. Contents(s, r) = d - (IF r.pcrel THEN x + f ELSE 0)
      BY <1>4, <1>5, <1>10 DEF Contents
    <3>2. QED
      BY <3>1
  <2>4. c + (m - from) = Wants(s, r) /\ m - from \in Int
    <3>1. CASE r.pcrel
      <4>1. Wants(s, r) = m + d - (a + x + f) /\ c = d - (x + f) /\ from = a
        BY <1>6, <1>9, <2>3, <3>1
      <4>2. QED
        BY <2>2, <4>1
    <3>2. CASE ~r.pcrel
      BY <1>6, <1>9, <2>2, <2>3, <3>2
    <3>3. QED
      BY <3>1, <3>2
  <2>5. Plain(r, ta_contents(s, r) + (m - from)) = Plain(r, c + (m - from))
    BY <1>5, <2>3, <2>4, ContentsCount, Zenon
  <2>6. ta_contents(s, r) + m - from = ta_contents(s, r) + (m - from)
    <3>1. ta_contents(s, r) \in Int
      BY <1>5, <2>3, ContentsCount
    <3>2. QED
      BY <2>2, <3>1
  <2>7. QED
    BY <1>2, <2>1, <2>2, <2>4, <2>5, <2>6
<1>11. CASE r.kind # "extern"
  <2>1. PICK t \in Range(sects) :
          /\ t = SectionMeant(s, r) /\ t.uaddr \in Nat
          /\ t.jumps = <<>> => Resides(t) = Runs(t) /\ Runs(t) \in Nat
    BY <1>8, <1>11, SectionRight
  <2>2. CASE t.jumps = <<>>
    <3>1. Value(n, r) = Plain(r, ta_contents(s, r) + Runs(t) - t.uaddr - from)
      BY <1>2, <1>3, <1>4, <1>6, <1>11, <2>1, <2>2 DEF Value, Astray, Number
    <3>2. PICK z \in Nat, u \in Nat : z = Runs(t) /\ u = t.uaddr
      BY <2>1, <2>2
    <3>3. m = z + v - u
      <4>1. m = ResidesAt[t] + r.value - t.uaddr
        BY <1>7, <1>11, <2>1, <2>2 DEF Meant, ResidesAt
      <4>2. ResidesAt[t] = Runs(t)
        BY <2>1, <2>2 DEF ResidesAt
      <4>3. QED
        BY <1>4, <3>2, <4>1, <4>2
    <3>4. PICK c \in Int : c = Contents(s, r) /\ c = d + v - (IF r.pcrel THEN x + f ELSE 0)
      <4>1. Contents(s, r) = d + v - (IF r.pcrel THEN x + f ELSE 0)
        BY <1>4, <1>5, <1>11 DEF Contents
      <4>2. QED
        BY <4>1
    <3>5. c + (z - u - from) = Wants(s, r) /\ z - u - from \in Int
      <4>1. CASE r.pcrel
        <5>1. Wants(s, r) = m + d - (a + x + f) /\ c = d + v - (x + f) /\ from = a
          BY <1>6, <1>9, <3>4, <4>1
        <5>2. QED
          BY <3>3, <5>1
      <4>2. CASE ~r.pcrel
        <5>1. Wants(s, r) = m + d - 0 /\ c = d + v - 0 /\ from = 0
          BY <1>6, <1>9, <3>4, <4>2
        <5>2. QED
          BY <3>3, <5>1
      <4>3. QED
        BY <4>1, <4>2
    <3>6. Plain(r, ta_contents(s, r) + (z - u - from)) = Plain(r, c + (z - u - from))
      BY <1>5, <3>4, <3>5, ContentsCount, Zenon
    <3>7. ta_contents(s, r) + z - u - from = ta_contents(s, r) + (z - u - from)
      <4>1. ta_contents(s, r) \in Int
        BY <1>5, <3>4, ContentsCount
      <4>2. QED
        BY <4>1
    <3>8. QED
      BY <1>2, <3>1, <3>2, <3>5, <3>6, <3>7
  <2>3. CASE t.jumps # <<>>
    <3>1. IsTableCall(s, r, t)
      BY <1>2, <1>11, <2>1, <2>3
    <3>2. PICK name :
            /\ TableEntry(s, t, r) + 1 \in DOMAIN t.jumps
            /\ name = t.jumps[TableEntry(s, t, r) + 1]
            /\ m = LookedUp(name) /\ m \in Int
      BY <1>2, <1>4, <1>7, <1>8, <2>1, <2>3, <3>1, CallRight
    <3>3. r.kind = "section" /\ r.pcrel /\ r.addend = 0
      BY <3>1 DEF IsTableCall
    <3>4. ta_pc_addr(s, r) = a + x + f
      BY <1>4, <1>5 DEF ta_pc_addr
    <3>5. Value(n, r) = Plain(r, m - (a + x + f))
      BY <1>2, <1>3, <1>11, <2>1, <2>3, <3>2, <3>3, <3>4 DEF Value, Astray, Number
    <3>6. Wants(s, r) = m + 0 - (a + x + f)
      BY <1>4, <1>9, <3>3
    <3>7. Wants(s, r) = m - (a + x + f)
      BY <3>2, <3>6
    <3>8. QED
      BY <1>2, <3>5, <3>7
  <2>4. QED
    BY <2>2, <2>3
<1>12. QED
  BY <1>10, <1>11

\* Source is wherever the header of what was packed ends.
LEMMA SourceRight ==
  ASSUME NEW k, AtLast(k), NEW n \in 1 .. k, NEW r, Leads(r), r.kind = "extern", r.name = Source
  PROVE  /\ Wants(sects[n], r) = packed.start + packed.hdrlen + 0 - 0
         /\ Value(n, r) = Plain(r, 0)
<1>1. r.addend = 0 /\ ~r.pcrel /\ r.width = Field /\ r.width \in 0 .. Field
  BY SizesAssumption DEF Leads, Reference
<1>2. PICK s : s = sects[n] /\ n \in DOMAIN sects
  BY Settled
<1>3. Source = -3 /\ Source # JumpTable /\ Source # HashStart /\ Source \in Special
      /\ Source # Destination /\ Source # DestAddrs
  BY DEF Source, JumpTable, HashStart, Destination, DestAddrs, Special
<1>4. Meant(s, r) = packed.start + packed.hdrlen
  BY <1>3 DEF Meant
<1>5. Value(n, r) = Plain(r, 0)
  <2>1. OwnerOf(n) = s.obj
    BY <1>2, OwnerIs
  <2>2. ExternOffset(r) = 0
    BY <1>3 DEF ExternOffset, SpecialOffset, JumpTable, HashStart, Source, Destination
  <2>3. Contents(s, r) = 0
    BY <1>1 DEF Contents
  <2>4. Value(n, r) = Plain(r, ta_contents(s, r) + 0 - 0)
    BY <1>1, <1>2, <2>1, <2>2 DEF Value, Astray, Number
  <2>5. ta_contents(s, r) \in Int /\ Plain(r, ta_contents(s, r) + 0) = Plain(r, 0 + 0)
    BY <1>1, <2>3, ContentsCount
  <2>6. ta_contents(s, r) + 0 - 0 = ta_contents(s, r) + 0 /\ 0 + 0 = 0
    BY <2>5
  <2>7. QED
    BY <2>4, <2>5, <2>6
<1>6. QED
  BY <1>1, <1>2, <1>4, <1>5 DEF Wants

\* A translation is of no field that is understood, or of a call: such fields have
\* none in front.
LEMMA FoundIs ==
  ASSUME NEW k, AtLast(k), NEW d, Found(d)
  PROVE  \E m \in Everything : \E q \in DOMAIN sects[m].refs :
           /\ d = <<m, q>> /\ m \in DOMAIN sects
           /\ Translatable(sects[m], sects[m].refs[q])
           /\ ~IsMisread(m, q) =>
                /\ sects[m].refs[q].pcrel /\ sects[m].refs[q].addend = 0
                /\ \A l \in DOMAIN sects : \A y \in DOMAIN sects[l].refs : ~InFront(<<l, y>>, d)
<1>1. PICK m, q :
        /\ m \in DOMAIN sects /\ q \in DOMAIN Refs(sects[m])
        /\ d = <<m, q>> /\ Translatable(sects[m], sects[m].refs[q]) /\ CallByte \in BytesInFront(m, q)
  BY DEF Found
<1>2. PICK s : s = sects[m] /\ SectionType(s) # DoNotWant /\ q \in DOMAIN s.refs
  BY <1>1 DEF Refs
<1>3. InImage(s)
  BY <1>1, <1>2, Settled
<1>4. PICK r : r = s.refs[q] /\ r.addend \in Int /\ r.pcrel \in BOOLEAN /\ r.at \in Nat
  BY <1>2, <1>3 DEF InImage, Leads, Reference
<1>5. ASSUME ~IsMisread(m, q)
      PROVE  /\ r.pcrel /\ r.addend = 0
             /\ \A l \in DOMAIN sects : \A y \in DOMAIN sects[l].refs : ~InFront(<<l, y>>, d)
  <2>1. r.pcrel /\ r.addend = 0
    BY <1>1, <1>2, <1>4, <1>5 DEF IsMisread
  <2>2. r.at > 0 /\ \A y \in DOMAIN s.refs : s.refs[y].at + s.refs[y].width # r.at
    BY <1>2, <1>3, <1>4, <2>1 DEF InImage, Opcoded
  <2>3. ASSUME NEW l \in DOMAIN sects, NEW y \in DOMAIN sects[l].refs, InFront(<<l, y>>, d)
        PROVE  FALSE
    <3>1. d[1] = m /\ d[2] = q /\ <<l, y>>[1] = l /\ <<l, y>>[2] = y
      BY <1>1
    <3>2. \/ l = m /\ sects[l].refs[y].at + sects[l].refs[y].width = r.at
          \/ r.at = 0
      BY <1>2, <1>4, <2>3, <3>1 DEF InFront
    <3>3. QED
      BY <1>2, <2>2, <2>3, <3>2
  <2>4. QED
    BY <2>1, <2>3
<1>6. m \in Everything
  BY <1>1, <1>2 DEF Everything
<1>7. QED
  BY <1>1, <1>2, <1>4, <1>5, <1>6

\* So the bytes of a field that is understood are its own.
LEMMA KeptWhole ==
  ASSUME NEW k, AtLast(k), \A d \in translations : Found(d), NEW n \in DOMAIN sects,
         NEW q \in DOMAIN sects[n].refs, IsUnderstood(n, q)
  PROVE  ~Spoiled(<<n, q>>)
<1>1. PICK d : d = <<n, q>> /\ d[1] = n /\ d[2] = q
  <2>1. <<n, q>>[1] = n /\ <<n, q>>[2] = q
    OBVIOUS
  <2>2. QED
    BY <2>1, Zenon
<1>2. ~IsMisread(n, q)
      /\ \A m \in {n, n + 1} \cap Everything : \A y \in DOMAIN sects[m].refs :
           InFront(<<n, q>>, <<m, y>>) => ~IsMisread(m, y)
  BY DEF IsUnderstood
<1>3. ASSUME NEW e \in translations, InFront(d, e) PROVE FALSE
  <2>1. PICK m, y :
           /\ m \in Everything /\ y \in DOMAIN sects[m].refs
           /\ e = <<m, y>> /\ m \in DOMAIN sects
           /\ ~IsMisread(m, y) =>
                \A l \in DOMAIN sects : \A x \in DOMAIN sects[l].refs : ~InFront(<<l, x>>, e)
    <3>1. Found(e)
      BY <1>3
    <3>2. QED
      BY <3>1, FoundIs
  <2>2. m \in {n, n + 1}
    BY <1>1, <1>3, <2>1 DEF InFront
  <2>3. ~IsMisread(m, y)
    BY <1>1, <1>2, <1>3, <2>1, <2>2
  <2>4. QED
    BY <1>1, <1>3, <2>1, <2>3
<1>4. ASSUME d \in translations, NEW e \in translations, InFront(e, d) PROVE FALSE
  <2>1. Found(d) /\ Found(e)
    BY <1>4
  <2>2. PICK m, y :
           /\ m \in Everything /\ y \in DOMAIN sects[m].refs
           /\ d = <<m, y>>
           /\ ~IsMisread(m, y) =>
                \A l \in DOMAIN sects : \A x \in DOMAIN sects[l].refs : ~InFront(<<l, x>>, d)
    BY <2>1, FoundIs
  <2>3. m = n /\ y = q
    BY <1>1, <2>2
  <2>4. PICK l, x : e = <<l, x>> /\ l \in DOMAIN sects /\ x \in DOMAIN sects[l].refs
    BY <2>1, FoundIs
  <2>5. QED
    BY <1>2, <1>4, <2>2, <2>3, <2>4
<1>5. QED
  BY <1>1, <1>3, <1>4 DEF Spoiled

\* What the field of section n's q-th reference is to be.
Arrives(n, q) ==
  CASE values[n][q].how = "field" ->
         values[n][q].n = Wants(sects[n], sects[n].refs[q]) % Power[sects[n].refs[q].width]
    [] values[n][q].how = "indirect" ->
         /\ sects[n].refs[q].pcrel /\ sects[n].refs[q].addend = 0
         /\ values[n][q].n = Meant(sects[n], sects[n].refs[q]) + AddrOffset
    [] OTHER -> FALSE

LEMMA FieldRight ==
  ASSUME NEW k, AtLast(k), NEW n \in 1 .. k, NEW q \in DOMAIN sects[n].refs, IsUnderstood(n, q),
         n \in Everything, n \in DOMAIN sects, Refs(sects[n]) = sects[n].refs, Fielded(n),
         \A d \in translations : Found(d), bphase = "file", packed.hdrlen \in Nat,
         ~onekpaq => packed.start = 0 /\ packed.hdrlen = 0
  PROVE  Arrives(n, q)
<1>1. PICK s, r : s = sects[n] /\ r = s.refs[q]
  OBVIOUS
<1>2. Leads(r)
  BY <1>1, Settled DEF InImage
<1>3. Kept(s, r) /\ values[n][q] = FieldAt(n, q)
  BY <1>1 DEF Fielded
<1>4. PackerWasThere <=> onekpaq
  BY DEF PackerWasThere
<1>5. /\ r.pcrel => s.uaddr = 0
      /\ r.kind # "extern" /\ SectionMeant(s, r).jumps # <<>> => IsTableCall(s, r, SectionMeant(s, r))
      /\ ~IsMisread(n, q)
      /\ onekpaq /\ r.kind = "extern" /\ r.name = Source => IsLastSource(<<n, q>>)
  BY <1>1 DEF IsUnderstood
<1>6. ~Spoiled(<<n, q>>)
  BY KeptWhole
<1>7. ASSUME values[n][q] = Plain(r, Wants(s, r)) PROVE Arrives(n, q)
  BY <1>1, <1>7 DEF Arrives, Plain
<1>8. CASE PackerWasThere /\ IsLastSource(<<n, q>>)
  <2>1. values[n][q] = Plain(r, packed.start + packed.hdrlen)
    BY <1>1, <1>3, <1>8 DEF FieldAt
  <2>2. r.kind = "extern" /\ r.name = Source
    <3>1. <<n, q>> \in SourceFields
      BY <1>8 DEF IsLastSource
    <3>2. PICK m \in DOMAIN sects :
            <<n, q>> \in {m} \X {x \in DOMAIN Refs(sects[m]) : Refs(sects[m])[x].kind = "extern"
                                                             /\ Refs(sects[m])[x].name = Source}
      BY <3>1, Zenon DEF SourceFields
    <3>3. n = m /\ Refs(sects[m])[q].kind = "extern" /\ Refs(sects[m])[q].name = Source
      BY <3>2
    <3>4. QED
      BY <1>1, <3>3
  <2>3. Wants(s, r) = packed.start + packed.hdrlen + 0 - 0
    BY <1>1, <1>2, <2>2, SourceRight
  <2>4. packed.start \in Nat
    <3>1. PICK f \in DOMAIN sects : FirstOf(onekpaq, sects, f)
      BY <1>4, <1>8, FirstIs DEF AtLast
    <3>2. packed.start = sects[f].abs_offset
      BY <1>4, <1>8, <3>1 DEF AtLast, PackedRight
    <3>3. QED
      BY <3>1, <3>2, Settled DEF Raw
  <2>5. PICK a \in Nat, b \in Nat : a = packed.start /\ b = packed.hdrlen
    BY <2>4
  <2>6. Wants(s, r) = a + b
    BY <2>3, <2>5
  <2>7. QED
    BY <1>7, <2>1, <2>5, <2>6
<1>9. CASE ~(PackerWasThere /\ IsLastSource(<<n, q>>)) /\ <<n, q>> \in translations
  <2>1. values[n][q] = [how |-> "indirect", n |-> SlotAddress(r.name)]
    BY <1>1, <1>3, <1>6, <1>9 DEF FieldAt, Overwritten
  <2>2. PICK m \in Everything : \E y \in DOMAIN sects[m].refs :
           /\ <<n, q>> = <<m, y>> /\ Translatable(sects[m], sects[m].refs[y])
           /\ ~IsMisread(m, y) => sects[m].refs[y].pcrel /\ sects[m].refs[y].addend = 0
    BY <1>9, FoundIs
  <2>3. Translatable(s, r) /\ r.pcrel /\ r.addend = 0
    BY <1>1, <1>5, <2>2
  <2>4. r.kind = "extern" /\ r.name \notin Special /\ Slots(r.name) # {} /\ r.form = "plain"
    BY <2>3 DEF Translatable
  <2>5. Meant(s, r) = Resides(SectOf(2, JumpNum)) + (SlotOf(r.name) - 1) * ItemSize
    BY <2>4 DEF Meant, Special
  <2>6. SlotAddress(r.name) = Meant(s, r) + AddrOffset
    BY <2>5, OwnPlaces DEF SlotAddress
  <2>7. QED
    BY <1>1, <2>1, <2>3, <2>6 DEF Arrives
<1>10. CASE ~(PackerWasThere /\ IsLastSource(<<n, q>>)) /\ <<n, q>> \notin translations
  <2>1. values[n][q] = Value(n, r)
    BY <1>1, <1>3, <1>6, <1>10 DEF FieldAt, Overwritten
  <2>2. CASE r.kind = "extern" /\ r.name = Source
    <3>1. ~onekpaq
      BY <1>4, <1>5, <1>10, <2>2
    <3>2. Wants(s, r) = packed.start + packed.hdrlen + 0 - 0 /\ Value(n, r) = Plain(r, 0)
      BY <1>1, <1>2, <2>2, SourceRight
    <3>3. Wants(s, r) = 0
      BY <3>1, <3>2
    <3>4. QED
      BY <1>7, <2>1, <3>2, <3>3
  <2>3. CASE ~(r.kind = "extern" /\ r.name = Source)
    <3>1. Value(n, r) = Plain(r, Wants(s, r))
      BY <1>1, <1>2, <1>3, <1>5, <2>3, ValueRight
    <3>2. QED
      BY <1>7, <2>1, <3>1
  <2>4. QED
    BY <2>2, <2>3
<1>11. QED
  BY <1>8, <1>9, <1>10

LEMMA ReferencesAtLast == ImportInv /\ BinaryInv /\ RefInv => ReferencesRight
<1> SUFFICES ASSUME ImportInv, BinaryInv, RefInv, bphase = "file" PROVE ReferencesRight
  BY DEF ReferencesRight, Linked
<1>1. phase = "linked" /\ program \in Programs /\ Listed(lmap)
  BY DEF RefInv, ImportInv, LinkerInv, LoaderInv
<1>2. PICK k : AtLast(k)
  BY <1>1 DEF AtLast, BinaryInv, RefInv
<1>3. PICK N \in Nat :
        /\ DOMAIN sects = 1 .. N /\ k \in 0 .. N
        /\ \A n \in 1 .. N : InImage(sects[n]) /\ (IsWanted(sects[n]) <=> n <= k)
  BY <1>2, Settled
<1>4. decompr_addr = Resides(SectOf(1, 1)) /\ loader_addr = SectOf(2, 1).abs_offset
  BY <1>2, OwnPlaces
<1>5. ASSUME NEW n \in Everything, NEW q \in DOMAIN sects[n].refs, IsUnderstood(n, q)
      PROVE  Arrives(n, q)
  <2>1. n \in 1 .. k /\ n \in DOMAIN sects /\ Refs(sects[n]) = sects[n].refs
    BY <1>3 DEF Everything, Refs, IsWanted
  <2>2. Fielded(n)
    BY <2>1 DEF RefInv
  <2>3. QED
    BY <1>2, <1>5, <2>1, <2>2, FieldRight DEF RefInv
<1>6. QED
  BY <1>4, <1>5, Zenon DEF ReferencesRight, Arrives, Wants

-----------------------------------------------------------------------------
(* Theorems.                                                               *)

LEMMA AddUpAtLast == ImportInv /\ BinaryInv => BlocksAddUp
<1> SUFFICES ASSUME ImportInv, BinaryInv PROVE BlocksAddUp
  OBVIOUS
<1>1. ASSUME bphase = "pack", onekpaq PROVE TakesBlocks(Behind, Handed.rf_len) # {}
  <2>1. PICK k : Whole(k) /\ InPlace(k)
    BY <1>1 DEF BinaryInv
  <2>2. PICK q \in DOMAIN sects : FirstPacked = q /\ q \in 1 .. k /\ InFile(sects[q])
    BY <1>1, <2>1, FirstIs
  <2>3. PICK e, off : /\ Begins(sects, linker_blocks, off, e, f_len)
                      /\ \A n \in 1 .. k : InFile(sects[n]) <=> n <= e
    BY <2>1, FileIs
  <2>4. e \in Nat /\ off \in [1 .. e + 1 -> Nat] /\ off[1] = 0 /\ f_len = off[e + 1]
    BY <2>3 DEF Begins
  <2>5. q \in 1 .. e
    BY <2>2, <2>3, <2>4
  <2>6. Handed.rf_len = f_len - off[q]
    <3>1. PICK z \in Nat : z = q - 1 /\ z + 1 = q
      BY <2>5
    <3>2. 1 \in 1 .. e + 1 /\ z \in 1 - 1 .. e
      BY <2>4, <2>5, <3>1
    <3>3. SumOf(SubSeq(linker_blocks, 1, z)) = off[z + 1] - off[1]
      BY <2>3, <3>2, BeginsSum
    <3>4. off[q] \in Nat
      BY <2>4, <2>5
    <3>5. SumOf(SubSeq(linker_blocks, 1, FirstPacked - 1)) = off[q]
      BY <2>2, <2>4, <3>1, <3>3, <3>4
    <3>6. QED
      BY <3>5 DEF Handed
  <2>7. PICK behind : behind = SubSeq(linker_blocks, q, Len(linker_blocks)) /\ behind = Behind
    BY <2>2 DEF Behind
  <2>8. HandsOver(sects, behind, TakesBlocks(behind, f_len - off[q]), q, e)
    BY <2>3, <2>5, <2>7, BlocksHanded
  <2>9. QED
    BY <2>6, <2>7, <2>8 DEF HandsOver
<1>2. ASSUME Linked PROVE SumOf(file.blocks) = file.length
  BY <1>2 DEF Linked, BinaryInv
<1>3. ASSUME Linked, onekpaq
      PROVE  /\ packed.blocks = [n \in DOMAIN packed.blocks |-> sects[FirstPacked + n - 1].length]
             /\ \A n \in Everything :
                  LET s == sects[n]
                  IN  iscompressible(s) /\ InFile(s) =>
                        /\ packed.start <= s.abs_offset
                        /\ s.abs_offset + s.length <= packed.start + packed.rf_len
  <2>1. PICK k : Whole(k)
    BY <1>3 DEF Linked, BinaryInv
  <2>2. PackedRight(onekpaq, sects, packed)
    BY <1>3 DEF Linked, BinaryInv
  <2>3. PICK q \in DOMAIN sects : FirstOf(onekpaq, sects, q) /\ FirstPacked = q
    BY <1>3, <2>1, FirstIs
  <2>4. /\ packed.blocks = [n \in DOMAIN packed.blocks |-> sects[q + n - 1].length]
        /\ \A n \in DOMAIN sects :
             IsWanted(sects[n]) /\ Packs(onekpaq, sects[n]) /\ InFile(sects[n]) =>
               packed.start <= sects[n].abs_offset /\ End(sects[n]) <= packed.start + packed.rf_len
    BY <2>2, <2>3 DEF PackedRight
  <2>5. \A n \in Everything : n \in DOMAIN sects /\ IsWanted(sects[n])
    BY DEF Everything, IsWanted
  <2>6. \A s : iscompressible(s) => Packs(onekpaq, s)
    BY DEF iscompressible, Packs
  <2>7. \A n \in Everything :
          iscompressible(sects[n]) /\ InFile(sects[n]) =>
            /\ packed.start <= sects[n].abs_offset
            /\ sects[n].abs_offset + sects[n].length <= packed.start + packed.rf_len
    BY <2>4, <2>5, <2>6 DEF End
  <2>8. QED
    BY <2>3, <2>4, <2>7
<1>4. QED
  BY <1>1, <1>2, <1>3 DEF BlocksAddUp

LEMMA InvariantAlways == Spec => [](ImportInv /\ BinaryInv)
<1>1. Init => ImportInv /\ BinaryInv
  BY ImportInit, BinaryInit DEF Init
<1>2. ImportInv /\ BinaryInv /\ [Next]_vars => ImportInv' /\ BinaryInv'
  BY ImportNext, BinaryNext
<1>3. QED
  BY <1>1, <1>2, PTL DEF Spec

\* SectionsApart: the sections of every image are disjoint where they run, and the
\* heap is behind them, whatever objects are linked.
THEOREM SectionsStayApart == Spec => []SectionsApart
<1>1. QED
  BY ApartAtLast, InvariantAlways, PTL

\* BlocksAddUp: both packers are handed blocks that come to the bytes they are
\* handed, so that the loop in front of oneKpaq ends for every image.
THEOREM BlocksFit == Spec => []BlocksAddUp
<1>1. QED
  BY AddUpAtLast, InvariantAlways, PTL

\* CodeRestored: a program whose calls were translated starts with the code that was
\* linked, byte for byte, for any code and any sizes of bytes and operands.
THEOREM CodeComesBack == Spec => []CodeRestored
<1>1. Init => CodeInv
  BY CodeInit
<1>2. ImportInv /\ BinaryInv /\ CodeInv /\ [Next]_vars => CodeInv'
  BY CodeNext
<1>3. ImportInv /\ CodeInv => CodeRestored
  BY RestoredAtLast
<1>4. QED
  BY <1>1, <1>2, <1>3, InvariantAlways, PTL DEF Spec

\* ReferencesRight: in the file every reference that IsUnderstood describes leads to
\* what it names, wherever that was moved or packed, in as many bytes as the field has,
\* a translated one is a call, and the loader finds its parts.  This is for every
\* program of the assumptions; it says nothing of the references that IsUnderstood
\* leaves out, most of which link_binary gets wrong.
THEOREM ReferencesArrive == Spec => []ReferencesRight
<1>1. Init => RefInv
  BY RefInit
<1>2. ImportInv /\ BinaryInv /\ RefInv /\ [Next]_vars => RefInv'
  BY RefNext
<1>3. ImportInv /\ BinaryInv /\ RefInv => ReferencesRight
  BY ReferencesAtLast
<1>4. QED
  BY <1>1, <1>2, <1>3, InvariantAlways, PTL DEF Spec

=============================================================================
