---------------------------- MODULE ImportProofs ----------------------------
(***************************************************************************)
(* Proofs about ImportTable and ImportLoader, as laturi composes them: the *)
(* table of hashes leads the loader to the right symbols, and the names in *)
(* the header are the shortest that will do, for any programs, libraries   *)
(* and hashes.                                                             *)
(*                                                                         *)
(* The linker's list of functions begins with dyld's only entry and keeps  *)
(* the others together by library (Listed); the table then says of every   *)
(* entry, at a cell that its place in the list gives (At), what the loader *)
(* needs (Written).  The loader is always at the cell of its slot, with as *)
(* many functions to come as the library has entries left (InGroup), and   *)
(* the first equal hash is the right one because the linker refuses all    *)
(* others in front of it (RightSymbol, FoundImageStep).                    *)
(*                                                                         *)
(* find_named_parents only ever visits libraries that load the one at hand *)
(* (Walking), and all of them when it is over (AllLoaders), so every       *)
(* library imported from is mapped to all that may be named for it (Maps). *)
(* The combinations are tried in order, and what is before the one at hand *)
(* is no shorter than the best (Tried, OdometerNext, OdometerEnd).         *)
(***************************************************************************)
EXTENDS Laturi, Induction, TLAPS

-----------------------------------------------------------------------------
(* Programs.                                                               *)

LEMMA ProgramIs ==
  ASSUME program \in Programs
  PROVE  /\ program.hash_type \in 0 .. 2 /\ 0 \in DOMAIN libs
         /\ \A j \in DOMAIN libs :
              /\ libs[j].slide \in Nat /\ libs[j].hash \in Nat
              /\ libs[j].nlist \in Seq([name : DOMAIN program.hash, addr : Nat])
         /\ \A name \in DOMAIN program.hash : program.hash[name] \in Nat
BY ProgramAssumption, Zenon DEF libs

\* Only the last symbol is one of dyld, and it is imported.
LEMMA SymbolsAre ==
  ASSUME program \in Programs
  PROVE  \E last \in Nat :
           /\ last = Len(program.symbols)
           /\ Len(Symbols) = last + 1 /\ DOMAIN Symbols = 1 .. last + 1
           /\ \A k \in 1 .. last : Symbols[k].isdyld = FALSE
           /\ Symbols[last + 1].isdyld = TRUE /\ Symbols[last + 1].name = InfosName
           /\ Imported(Symbols[last + 1])
           /\ \A k \in 1 .. last + 1 : {"name", "isdyld"} \in SUBSET DOMAIN Symbols[k]
<1> DEFINE some == [name : Nat, type : {"extern", "laturi", "defined", "none"},
                    isdyld : {FALSE}, obj : Nat, num : Nat, uaddr : Nat]
           infos == [name |-> InfosName, type |-> "extern", isdyld |-> TRUE]
<1>1. program.symbols \in Seq(some)
  BY ProgramAssumption, Zenon
<1>2. PICK T : T = some
  OBVIOUS
<1>3. PICK s \in Seq(T) : s = program.symbols
  BY <1>2, <1>1, Zenon
<1>4. PICK last \in Nat : last = Len(s)
  OBVIOUS
<1>5. PICK x, t : x = infos /\ t = Append(s, x)
  OBVIOUS
<1>6. /\ Len(t) = last + 1 /\ DOMAIN t = 1 .. last + 1
      /\ \A k \in 1 .. last : t[k] = s[k]
      /\ t[last + 1] = infos
  <2> HIDE DEF some, infos
  <2>1. s \in Seq(T \cup {x})
    BY <1>3
  <2>2. QED
    BY <1>4, <1>5, <2>1
<1>7. \A k \in 1 .. last : s[k] \in some
  <2> HIDE DEF some
  <2>1. QED
    BY <1>2, <1>4
<1>8. \A k \in 1 .. last : t[k].isdyld = FALSE
  <2>1. \A y \in some : y.isdyld = FALSE
    OBVIOUS
  <2>2. QED
    BY <1>6, <1>7, <2>1
<1>9. t[last + 1].isdyld = TRUE /\ t[last + 1].name = InfosName /\ t[last + 1].type = "extern"
  BY <1>6
<1>10. Symbols = t
  BY <1>3, <1>5 DEF Symbols
<1>11. \A k \in 1 .. last + 1 : {"name", "isdyld"} \in SUBSET DOMAIN t[k]
  <2>1. \A y \in some : {"name", "isdyld"} \in SUBSET DOMAIN y
    OBVIOUS
  <2>2. {"name", "isdyld"} \in SUBSET DOMAIN infos
    OBVIOUS
  <2> HIDE DEF some, infos
  <2>3. \A k \in 1 .. last + 1 : k \in 1 .. last \/ k = last + 1
    OBVIOUS
  <2>4. QED
    BY <1>6, <1>7, <2>1, <2>2, <2>3
<1> HIDE DEF some, infos
<1>12. \A n \in DOMAIN t : t[n].isdyld = t[last + 1].isdyld => t[n].type = "extern"
  <2> SUFFICES ASSUME NEW n \in 1 .. last + 1, t[n].isdyld = TRUE PROVE t[n].type = "extern"
    BY <1>6, <1>9
  <2>1. n \notin 1 .. last
    BY <1>8
  <2>2. n = last + 1
    BY <1>4, <2>1
  <2>3. QED
    BY <1>9, <2>2
<1>13. Imported(t[last + 1])
  BY <1>9, <1>10, <1>12 DEF Imported, Solved
<1>14. QED
  BY <1>3, <1>4, <1>6, <1>8, <1>9, <1>10, <1>13, <1>11

LEMMA SymbolFields ==
  ASSUME program \in Programs, NEW k \in DOMAIN Symbols, NEW b
  PROVE  /\ [Symbols[k] EXCEPT !.isdyld = b].isdyld = b
         /\ [Symbols[k] EXCEPT !.isdyld = b].name = Symbols[k].name
<1>1. {"name", "isdyld"} \in SUBSET DOMAIN Symbols[k]
  BY SymbolsAre
<1>2. PICK s : s = Symbols[k] /\ "name" \in DOMAIN s /\ "isdyld" \in DOMAIN s
  BY <1>1
<1>3. [s EXCEPT !.isdyld = b].isdyld = b /\ [s EXCEPT !.isdyld = b].name = s.name
  BY <1>2
<1>4. QED
  BY <1>2, <1>3

LEMMA EntriesAre ==
  ASSUME program \in Programs, NEW e \in Entries
  PROVE  /\ e.lib \in DOMAIN libs /\ e.func \in DOMAIN libs[e.lib].nlist
         /\ e.func \in Nat \ {0} /\ \A k \in DOMAIN libs[e.lib].nlist : k \in Nat \ {0}
         /\ Func(e) \in [name : DOMAIN program.hash, addr : Nat]
         /\ Func(e).addr \in Nat /\ Hash(e) \in Nat
<1>1. PICK j \in DOMAIN libs : \E k \in DOMAIN libs[j].nlist : e = [lib |-> j, func |-> k]
  BY DEF Entries
<1>2. PICK k \in DOMAIN libs[j].nlist : e = [lib |-> j, func |-> k]
  BY <1>1
<1>3. e.lib = j /\ e.func = k
  BY <1>2
<1>4. PICK T : T = [name : DOMAIN program.hash, addr : Nat]
  OBVIOUS
<1>5. PICK s \in Seq(T) : s = libs[j].nlist
  BY <1>4, ProgramIs, Zenon
<1>6. DOMAIN s = 1 .. Len(s) /\ Len(s) \in Nat /\ \A m \in DOMAIN s : s[m] \in T
  OBVIOUS
<1>7. Func(e) = s[k]
  BY <1>3, <1>5 DEF Func
<1>8. s[k] \in [name : DOMAIN program.hash, addr : Nat]
  BY <1>4, <1>2, <1>5, <1>6
<1>9. s[k].name \in DOMAIN program.hash /\ s[k].addr \in Nat
  BY <1>8
<1>10. Hash(e) \in Nat
  BY <1>7, <1>9, ProgramIs DEF Hash
<1>11. QED
  BY <1>2, <1>3, <1>5, <1>6, <1>7, <1>8, <1>9, <1>10

-----------------------------------------------------------------------------
(* map_funcs.                                                              *)

Sound(e) ==
  /\ e \in Entries /\ Func(e).addr # 0 /\ ~Clash(e)
  /\ isdyld(e.lib) => Func(e).name = InfosName

Named(map, name) == \E n \in DOMAIN map : Func(map[n]).name = name
OfDyld(map) == {n \in DOMAIN map : isdyld(map[n].lib)}

\* What holds of the first symbols, once they are resolved.
ResolvedTo(map, count_of) ==
  /\ map \in Seq(Entries) /\ \A n \in DOMAIN map : Sound(map[n])
  /\ \A k \in 1 .. count_of : Imported(Symbols[k]) => Named(map, Symbols[k].name)
  /\ \A m, n \in OfDyld(map) : m = n
  /\ (OfDyld(map) # {}) <=> (count_of = Len(Symbols))

\* The linker does not change the program.
LEMMA Unmoved ==
  ASSUME program' = program
  PROVE  /\ libs' = libs /\ Entries' = Entries /\ Symbols' = Symbols
         /\ \A e : Func(e)' = Func(e) /\ Hash(e)' = Hash(e)
         /\ \A e : Sound(e)' <=> Sound(e)
         /\ \A s : Imported(s)' <=> Imported(s)
         /\ \A map, k : ResolvedTo(map, k)' <=> ResolvedTo(map, k)
<1>1. libs' = libs
  BY DEF libs
<1>2. Entries' = Entries
  BY <1>1 DEF Entries
<1>3. Symbols' = Symbols
  BY DEF Symbols
<1>4. \A e : Func(e)' = Func(e)
  BY <1>1 DEF Func
<1>5. \A e : Hash(e)' = Hash(e)
  BY <1>4 DEF Hash
<1>6. \A e : Clash(e)' <=> Clash(e)
  BY <1>1, <1>5 DEF Clash
<1>7. \A e : Sound(e)' <=> Sound(e)
  BY <1>2, <1>4, <1>6 DEF Sound
<1>8. \A s : Imported(s)' <=> Imported(s)
  BY <1>3 DEF Imported, Solved
<1>9. \A map, name : Named(map, name)' <=> Named(map, name)
  BY <1>4 DEF Named
<1>10. \A map : OfDyld(map)' = OfDyld(map)
  BY DEF OfDyld
<1>11. \A map, k : ResolvedTo(map, k)' <=> ResolvedTo(map, k)
  BY <1>2, <1>3, <1>7, <1>8, <1>9, <1>10 DEF ResolvedTo
<1>12. QED
  BY <1>1, <1>2, <1>3, <1>4, <1>5, <1>7, <1>8, <1>11

LEMMA NothingResolved ==
  ASSUME program \in Programs
  PROVE  ResolvedTo(<<>>, 0)
<1>1. Len(Symbols) # 0
  <2>1. PICK last \in Nat : Len(Symbols) = last + 1
    BY SymbolsAre
  <2>2. QED
    BY <2>1
<1>2. QED
  BY <1>1 DEF ResolvedTo, OfDyld

\* A symbol that is no import changes nothing.
LEMMA NotImported ==
  ASSUME program \in Programs, NEW map, NEW k \in Nat, k < Len(Symbols),
         ResolvedTo(map, k), ~Imported(Symbols[k + 1])
  PROVE  ResolvedTo(map, k + 1)
<1>1. PICK last \in Nat : Len(Symbols) = last + 1 /\ Imported(Symbols[last + 1])
  BY SymbolsAre
<1>2. k + 1 # last + 1
  BY <1>1
<1>3. 1 .. k + 1 = (1 .. k) \cup {k + 1}
  OBVIOUS
<1>4. (k = last + 1) <=> (k + 1 = last + 1)
  BY <1>1, <1>2
<1>5. QED
  BY <1>1, <1>3, <1>4 DEF ResolvedTo

LEMMA OneImport ==
  ASSUME program \in Programs, NEW map, NEW k \in Nat, k < Len(Symbols),
         ResolvedTo(map, k), NEW e \in Matches(Symbols[k + 1]), ~Clash(e)
  PROVE  ResolvedTo(Append(map, e), k + 1)
<1>1. PICK last \in Nat :
        /\ Len(Symbols) = last + 1 /\ \A m \in 1 .. last : Symbols[m].isdyld = FALSE
        /\ Symbols[last + 1].isdyld = TRUE /\ Symbols[last + 1].name = InfosName
  BY SymbolsAre
<1>2. PICK n \in Nat, more \in Seq(Entries) :
        /\ n = Len(map) /\ more = Append(map, e)
        /\ DOMAIN map = 1 .. n /\ DOMAIN more = 1 .. n + 1
        /\ \A m \in 1 .. n : more[m] = map[m]
        /\ more[n + 1] = e
  <2>1. map \in Seq(Entries) /\ e \in Entries
    BY DEF ResolvedTo, Matches
  <2> HIDE DEF Entries
  <2>2. Append(map, e) \in Seq(Entries) /\ Len(map) \in Nat
    BY <2>1
  <2>3. /\ DOMAIN map = 1 .. Len(map) /\ DOMAIN Append(map, e) = 1 .. Len(map) + 1
        /\ \A m \in 1 .. Len(map) : Append(map, e)[m] = map[m]
        /\ Append(map, e)[Len(map) + 1] = e
    BY <2>1
  <2>4. QED
    BY <2>2, <2>3, Zenon
<1>3. /\ e \in Entries /\ Func(e).name = Symbols[k + 1].name /\ Func(e).addr # 0
      /\ isdyld(e.lib) = Symbols[k + 1].isdyld
  BY DEF Matches
<1>4. CASE k = last
  <2>1. OfDyld(map) = {}
    BY <1>1, <1>4 DEF ResolvedTo
  <2>2. isdyld(e.lib) /\ Func(e).name = InfosName
    BY <1>1, <1>3, <1>4
  <2>3. OfDyld(more) = {n + 1}
    BY <1>2, <2>1, <2>2 DEF OfDyld
  <2>4. Sound(e)
    BY <1>3, <2>2 DEF Sound
  <2>5. k + 1 = Len(Symbols)
    BY <1>1, <1>4
  <2>6. \A m \in 1 .. n + 1 : Sound(more[m])
    BY <1>2, <2>4 DEF ResolvedTo
  <2>7. \A m \in 1 .. k + 1 : Imported(Symbols[m]) => Named(more, Symbols[m].name)
    BY <1>2, <1>3 DEF ResolvedTo, Named
  <2>8. QED
    BY <1>2, <2>3, <2>5, <2>6, <2>7 DEF ResolvedTo
<1>5. CASE k # last
  <2>1. k + 1 \in 1 .. last /\ k + 1 # Len(Symbols) /\ k # Len(Symbols)
    BY <1>1, <1>5
  <2>2. ~isdyld(e.lib)
    BY <1>1, <1>3, <2>1
  <2>3. OfDyld(more) = OfDyld(map)
    BY <1>2, <2>2 DEF OfDyld
  <2>4. Sound(e)
    BY <1>3, <2>2 DEF Sound
  <2>5. \A m \in 1 .. n + 1 : Sound(more[m])
    BY <1>2, <2>4 DEF ResolvedTo
  <2>6. \A m \in 1 .. k + 1 : Imported(Symbols[m]) => Named(more, Symbols[m].name)
    BY <1>2, <1>3 DEF ResolvedTo, Named
  <2>7. QED
    BY <1>2, <2>1, <2>3, <2>5, <2>6 DEF ResolvedTo
<1>6. QED
  BY <1>4, <1>5

\* No library is taken for another, and entries of one library stand together.
Apart(map) ==
  \A n \in DOMAIN map, j \in DOMAIN libs :
    map[n].lib # j => libs[map[n].lib].hash # libs[j].hash
Together(map) ==
  \A a, b, c \in DOMAIN map :
    a < b /\ b < c /\ map[a].lib = map[c].lib => map[b].lib = map[a].lib

\* What create_map and the loader rely on.
Listed(map) ==
  /\ map \in Seq(Entries) /\ \A n \in DOMAIN map : Sound(map[n])
  /\ \A k \in DOMAIN Symbols : Imported(Symbols[k]) => Named(map, Symbols[k].name)
  /\ OfDyld(map) = {1} /\ Apart(map) /\ Together(map)

LEMMA Sorted ==
  ASSUME program \in Programs, NEW map, ResolvedTo(map, Len(Symbols)), Apart(map),
         NEW place \in Bijection(DOMAIN map, DOMAIN map),
         \A m, n \in DOMAIN map : m < n => ~Before(map[place[n]], map[place[m]])
  PROVE  Listed([n \in DOMAIN map |-> map[place[n]]])
<1>1. PICK last \in Nat : last = Len(map) /\ DOMAIN map = 1 .. last /\ \A n \in 1 .. last : map[n] \in Entries
  <2>1. map \in Seq(Entries)
    BY DEF ResolvedTo
  <2> HIDE DEF Entries
  <2>2. Len(map) \in Nat /\ DOMAIN map = 1 .. Len(map) /\ \A n \in 1 .. Len(map) : map[n] \in Entries
    BY <2>1
  <2>3. QED
    BY <2>2, Zenon
<1>2. /\ place \in [1 .. last -> 1 .. last]
      /\ \A m, n \in 1 .. last : place[m] = place[n] => m = n
      /\ \A n \in 1 .. last : \E m \in 1 .. last : place[m] = n
  BY <1>1 DEF Bijection, Injection, Surjection, IsInjective
<1>3. PICK sorted : sorted = [n \in DOMAIN map |-> map[place[n]]]
  OBVIOUS
<1>4. /\ DOMAIN sorted = 1 .. last /\ sorted \in Seq(Entries)
      /\ \A n \in 1 .. last : sorted[n] = map[place[n]] /\ place[n] \in 1 .. last
  <2>1. sorted \in [1 .. last -> Entries]
    BY <1>1, <1>2, <1>3
  <2> HIDE DEF Entries
  <2>2. sorted \in Seq(Entries)
    BY <2>1
  <2>3. QED
    BY <1>1, <1>2, <1>3, <2>1, <2>2
<1>5. \A n \in 1 .. last : Sound(sorted[n])
  BY <1>1, <1>4 DEF ResolvedTo
<1>6. \A k \in DOMAIN Symbols : Imported(Symbols[k]) => Named(sorted, Symbols[k].name)
  <2>1. \A name : Named(map, name) => Named(sorted, name)
    BY <1>1, <1>2, <1>4 DEF Named
  <2>2. DOMAIN Symbols = 1 .. Len(Symbols)
    BY SymbolsAre
  <2>3. QED
    BY <2>1, <2>2 DEF ResolvedTo
<1>7. Apart(sorted)
  BY <1>1, <1>4 DEF Apart
<1>8. \A n \in 1 .. last : n \in OfDyld(sorted) <=> place[n] \in OfDyld(map)
  BY <1>1, <1>4 DEF OfDyld
<1>9. \A m, n \in OfDyld(sorted) : m = n
  <2> SUFFICES ASSUME NEW m \in OfDyld(sorted), NEW n \in OfDyld(sorted) PROVE m = n
    OBVIOUS
  <2>1. m \in 1 .. last /\ n \in 1 .. last
    BY <1>4 DEF OfDyld
  <2>2. place[m] \in OfDyld(map) /\ place[n] \in OfDyld(map)
    BY <1>8, <2>1
  <2>3. place[m] = place[n]
    BY <2>2 DEF ResolvedTo
  <2>4. QED
    BY <1>2, <2>1, <2>3
<1>10. \A m, n \in 1 .. last : m < n => ~Before(sorted[n], sorted[m])
  BY <1>1, <1>4
<1>11. \A n \in 1 .. last : sorted[n].lib \in DOMAIN libs /\ libs[sorted[n].lib].hash \in Nat
  <2>1. \A n \in 1 .. last : sorted[n] \in Entries
    BY <1>5 DEF Sound
  <2>2. QED
    BY <2>1, EntriesAre, ProgramIs
<1>12. OfDyld(sorted) = {1}
  <2>1. PICK d \in 1 .. last : place[d] \in OfDyld(map)
    <3>1. OfDyld(map) # {}
      BY DEF ResolvedTo
    <3>2. OfDyld(map) \in SUBSET (1 .. last)
      BY <1>1 DEF OfDyld
    <3>3. QED
      BY <1>2, <3>1, <3>2
  <2>2. d \in OfDyld(sorted)
    BY <1>8, <2>1
  <2>3. 1 \in 1 .. last
    BY <1>1, <2>1
  <2>4. 1 \in OfDyld(sorted)
    <3> SUFFICES ASSUME 1 \notin OfDyld(sorted) PROVE FALSE
      OBVIOUS
    <3>1. 1 < d
      BY <1>1, <2>1, <2>2
    <3>2. isdyld(sorted[d].lib) /\ ~isdyld(sorted[1].lib)
      BY <1>4, <2>2, <2>3 DEF OfDyld
    <3>3. Before(sorted[d], sorted[1])
      BY <3>2 DEF Before
    <3>4. QED
      BY <1>10, <2>1, <2>3, <3>1, <3>3
  <2>5. QED
    BY <1>9, <2>4
<1>13. Together(sorted)
  <2> SUFFICES ASSUME NEW a \in 1 .. last, NEW b \in 1 .. last, NEW c \in 1 .. last,
                      a < b, b < c, sorted[a].lib = sorted[c].lib
               PROVE  sorted[b].lib = sorted[a].lib
    BY <1>4 DEF Together
  <2>1. ~Before(sorted[b], sorted[a]) /\ ~Before(sorted[c], sorted[b])
    BY <1>10
  <2>2. ~isdyld(sorted[c].lib)
    <3>1. c # 1
      BY <1>1
    <3>2. QED
      BY <1>4, <1>12, <3>1 DEF OfDyld
  <2>3. ~isdyld(sorted[a].lib) /\ ~isdyld(sorted[b].lib)
    BY <2>1, <2>2 DEF Before
  <2>4. PICK x \in Nat, y \in Nat : x = libs[sorted[a].lib].hash /\ y = libs[sorted[b].lib].hash
    BY <1>11
  <2>5. ~(y < x) /\ ~(x < y)
    <3>1. /\ isdyld(sorted[a].lib) = isdyld(sorted[b].lib)
          /\ isdyld(sorted[b].lib) = isdyld(sorted[c].lib)
      BY <2>2, <2>3 DEF isdyld
    <3>2. /\ ~(libs[sorted[b].lib].hash < libs[sorted[a].lib].hash)
          /\ ~(libs[sorted[c].lib].hash < libs[sorted[b].lib].hash)
      BY <2>1, <3>1 DEF Before
    <3>3. QED
      BY <2>4, <3>2
  <2>6. x = y
    BY <2>5
  <2>7. QED
    BY <1>4, <1>7, <1>11, <2>4, <2>6 DEF Apart
<1>14. QED
  BY <1>3, <1>4, <1>5, <1>6, <1>7, <1>12, <1>13 DEF Listed

-----------------------------------------------------------------------------
(* The cells of the table.                                                 *)

\* An entry takes a cell, the first one of another library two more.
At(n) == n + 2 * Cardinality({m \in 1 .. n - 1 : Headed(m)})

\* Entries of this library from here on.
Left(n) == Cardinality({m \in Group(n) : m >= n})

LEMMA HeaderIs ==
  ASSUME NEW n
  PROVE  GroupHeader(n) = IF Headed(n) THEN <<Cardinality(Group(n)), libs[lmap[n].lib].hash>> ELSE <<>>
BY Zenon DEF GroupHeader, Headed

LEMMA NextAt ==
  ASSUME NEW n \in Nat \ {0}
  PROVE  /\ At(n) \in Nat \ {0} /\ At(n + 1) \in Nat \ {0}
         /\ At(n + 1) = IF Headed(n) THEN At(n) + 3 ELSE At(n) + 1
<1> DEFINE S == {m \in 1 .. n - 1 : Headed(m)}
           T == {m \in 1 .. (n + 1) - 1 : Headed(m)}
<1>1. IsFiniteSet(S) /\ Cardinality(S) \in Nat
  <2>1. S \in SUBSET (1 .. n - 1)
    OBVIOUS
  <2>2. IsFiniteSet(1 .. n - 1)
    BY FS_Interval
  <2> HIDE DEF S
  <2>3. IsFiniteSet(S)
    BY <2>1, <2>2, FS_Subset
  <2>4. QED
    BY <2>3, FS_CardinalityType
<1>2. CASE Headed(n)
  <2>1. T = S \cup {n} /\ n \notin S
    BY <1>2
  <2> HIDE DEF S
  <2>2. Cardinality(T) = Cardinality(S) + 1
    BY <1>1, <2>1, FS_AddElement
  <2> HIDE DEF T
  <2>3. PICK s \in Nat : s = Cardinality(S)
    BY <1>1
  <2>4. QED
    BY <1>2, <2>2, <2>3 DEF At, S, T
<1>3. CASE ~Headed(n)
  <2>1. T = S
    BY <1>3
  <2> HIDE DEF T
  <2>2. PICK s \in Nat : s = Cardinality(S)
    BY <1>1
  <2>3. QED
    BY <1>3, <2>1, <2>2 DEF At, S, T
<1>4. QED
  BY <1>2, <1>3

LEMMA FirstAt == At(1) = 1
<1>1. {m \in 1 .. 1 - 1 : Headed(m)} = {}
  OBVIOUS
<1>2. Cardinality({m \in 1 .. 1 - 1 : Headed(m)}) = 0
  BY <1>1, FS_EmptySet
<1>3. QED
  BY <1>2 DEF At

LEMMA AtGrows ==
  ASSUME NEW m \in Nat \ {0}, NEW n \in Nat, m <= n
  PROVE  At(m) <= At(n)
<1> DEFINE S == {k \in 1 .. m - 1 : Headed(k)}
           T == {k \in 1 .. n - 1 : Headed(k)}
<1>1. S \in SUBSET T /\ T \in SUBSET (1 .. n - 1)
  OBVIOUS
<1>2. IsFiniteSet(1 .. n - 1)
  BY FS_Interval
<1> HIDE DEF S, T
<1>3. IsFiniteSet(T)
  BY <1>1, <1>2, FS_Subset
<1>4. IsFiniteSet(S) /\ Cardinality(S) <= Cardinality(T)
  BY <1>1, <1>3, FS_Subset
<1>5. PICK s \in Nat, t \in Nat : s = Cardinality(S) /\ t = Cardinality(T)
  BY <1>3, <1>4, FS_CardinalityType
<1>6. m + 2 * s <= n + 2 * t
  BY <1>4, <1>5
<1>7. QED
  BY <1>5, <1>6 DEF At, S, T

LEMMA ListIs ==
  ASSUME program \in Programs, Listed(lmap)
  PROVE  \E last \in Nat \ {0} :
           /\ last = Len(lmap) /\ DOMAIN lmap = 1 .. last
           /\ \A n \in 1 .. last : lmap[n] \in Entries /\ Sound(lmap[n])
<1>1. lmap \in Seq(Entries) /\ \A n \in DOMAIN lmap : Sound(lmap[n])
  BY DEF Listed
<1>2. Len(lmap) \in Nat /\ DOMAIN lmap = 1 .. Len(lmap) /\ \A n \in 1 .. Len(lmap) : lmap[n] \in Entries
  <2> HIDE DEF Entries
  <2>1. QED
    BY <1>1
<1>3. 1 \in DOMAIN lmap
  BY DEF Listed, OfDyld
<1>4. Len(lmap) # 0
  BY <1>2, <1>3
<1>5. QED
  BY <1>1, <1>2, <1>4

LEMMA Groups ==
  ASSUME program \in Programs, Listed(lmap), NEW n \in DOMAIN lmap
  PROVE  /\ IsFiniteSet(Group(n)) /\ Cardinality(Group(n)) \in Nat \ {0}
         /\ Left(n) \in Nat \ {0}
         /\ StartsGroup(n) => Left(n) = Cardinality(Group(n))
         /\ Left(n) = 1 /\ n + 1 \in DOMAIN lmap => StartsGroup(n + 1)
         /\ Left(n) # 1 => /\ n + 1 \in DOMAIN lmap /\ lmap[n + 1].lib = lmap[n].lib
                           /\ Left(n + 1) = Left(n) - 1
<1>1. PICK last \in Nat \ {0} : last = Len(lmap) /\ DOMAIN lmap = 1 .. last
  BY ListIs
<1>2. /\ Group(n) \in SUBSET (1 .. last) /\ n \in Group(n)
      /\ \A m \in 1 .. last : m \in Group(n) <=> lmap[m].lib = lmap[n].lib
  BY <1>1 DEF Group
<1>3. \A a, b, c \in 1 .. last : a < b /\ b < c /\ lmap[a].lib = lmap[c].lib => lmap[b].lib = lmap[a].lib
  BY <1>1 DEF Listed, Together
<1>4. IsFiniteSet(1 .. last)
  BY FS_Interval
<1>5. IsFiniteSet(Group(n)) /\ Cardinality(Group(n)) \in Nat \ {0}
  <2>1. IsFiniteSet(Group(n))
    BY <1>2, <1>4, FS_Subset
  <2>2. QED
    BY <1>2, <2>1, FS_CardinalityType, FS_EmptySet
<1> DEFINE S == {m \in Group(n) : m >= n}
<1>6. S \in SUBSET Group(n) /\ n \in S
  BY <1>1, <1>2
<1>7. IsFiniteSet(S) /\ Cardinality(S) \in Nat \ {0}
  <2> HIDE DEF S
  <2>1. IsFiniteSet(S)
    BY <1>5, <1>6, FS_Subset
  <2>2. QED
    BY <1>6, <2>1, FS_CardinalityType, FS_EmptySet
<1>8. Left(n) = Cardinality(S)
  BY DEF Left
<1>9. ASSUME StartsGroup(n) PROVE S = Group(n)
  <2> SUFFICES ASSUME NEW m \in Group(n), m < n PROVE FALSE
    BY <1>1, <1>2
  <2>1. m \in 1 .. last /\ n \in 1 .. last /\ lmap[m].lib = lmap[n].lib /\ n # 1
    BY <1>1, <1>2
  <2>2. n - 1 \in 1 .. last /\ lmap[n - 1].lib # lmap[n].lib
    BY <1>1, <1>9, <2>1 DEF StartsGroup
  <2>3. m # n - 1 /\ m < n - 1 /\ n - 1 < n
    BY <2>1, <2>2
  <2>4. lmap[n - 1].lib = lmap[m].lib
    BY <1>3, <2>1, <2>2, <2>3
  <2>5. QED
    BY <2>1, <2>2, <2>4
<1>10. ASSUME Left(n) = 1, n + 1 \in DOMAIN lmap PROVE StartsGroup(n + 1)
  <2>1. PICK x : S = {x}
    <3> HIDE DEF S
    <3>1. QED
      BY <1>7, <1>8, <1>10, FS_Singleton
  <2>2. n + 1 \notin S
    BY <1>1, <1>6, <2>1
  <2>3. n + 1 \notin Group(n)
    BY <1>1, <2>2
  <2>4. lmap[n + 1].lib # lmap[n].lib
    BY <1>1, <1>2, <1>10, <2>3
  <2>5. (n + 1) - 1 = n
    BY <1>1
  <2>6. QED
    BY <2>4, <2>5 DEF StartsGroup
<1>11. ASSUME Left(n) # 1
       PROVE  n + 1 \in DOMAIN lmap /\ lmap[n + 1].lib = lmap[n].lib /\ Left(n + 1) = Left(n) - 1
  <2>1. S # {n}
    BY <1>8, <1>11, FS_Singleton
  <2>2. PICK m \in S : m # n
    BY <1>6, <2>1
  <2>3. m \in 1 .. last /\ n \in 1 .. last /\ m > n /\ lmap[m].lib = lmap[n].lib
    BY <1>1, <1>2, <2>2
  <2>4. n + 1 \in 1 .. last /\ lmap[n + 1].lib = lmap[n].lib
    <3>1. n + 1 \in 1 .. last /\ (m = n + 1 \/ (n < n + 1 /\ n + 1 < m))
      BY <2>3
    <3>2. QED
      BY <1>3, <2>3, <3>1
  <2>5. {k \in Group(n + 1) : k >= n + 1} = S \ {n}
    <3>1. Group(n + 1) = Group(n)
      BY <1>1, <2>4 DEF Group
    <3>2. \A k \in Group(n) : k >= n + 1 <=> (k >= n /\ k # n)
      BY <1>1, <1>2
    <3>3. QED
      BY <3>1, <3>2
  <2>6. Left(n + 1) = Cardinality(S \ {n})
    BY <2>5 DEF Left
  <2>7. Cardinality(S \ {n}) = Cardinality(S) - 1
    <3> HIDE DEF S
    <3>1. QED
      BY <1>6, <1>7, FS_RemoveElement
  <2>8. QED
    BY <1>1, <1>8, <2>4, <2>6, <2>7
<1>12. QED
  BY <1>5, <1>7, <1>8, <1>9, <1>10, <1>11

-----------------------------------------------------------------------------
(* The invariant.                                                          *)

\* What the table says of an entry; its count is wiped out when it has been read.
Written(n) ==
  /\ table[At(n + 1) - 1] = Hash(lmap[n])
  /\ Headed(n) => table[At(n) + 1] = libs[lmap[n].lib].hash
  /\ isdyld(lmap[n].lib) \/ libs[lmap[n].lib].slide = 0
Counted(n) == Headed(n) => table[At(n)] = Cardinality(Group(n))

\* The table of the first k entries, and the whole one from a cell on.
WrittenTo(k) ==
  /\ table \in Seq(Nat) /\ Len(table) = At(k + 1) - 1
  /\ \A n \in 1 .. k : Written(n) /\ Counted(n)
TableFrom(from) ==
  /\ table \in Seq(Nat) /\ Len(table) = At(Len(lmap) + 1)
  /\ table[At(Len(lmap) + 1)] = 0
  /\ \A n \in DOMAIN lmap : Written(n) /\ (At(n) >= from => Counted(n))

LinkerInv ==
  /\ program \in Programs
  /\ phase = "resolve" =>
       table = <<>> /\ next \in 1 .. Len(Symbols) + 1 /\ ResolvedTo(lmap, next - 1)
  /\ phase = "parents" => table = <<>> /\ next \in Nat \ {0} /\ Listed(lmap)
  /\ phase \in {"choose", "mark"} => table = <<>> /\ next = 1 /\ Listed(lmap)
  /\ phase = "write" => next \in 1 .. Len(lmap) + 1 /\ Listed(lmap) /\ WrittenTo(next - 1)
  /\ phase = "linked" => Listed(lmap)
  /\ phase = "linked" /\ lphase \in {"off", "browse", "functions", "group", "images"} =>
       TableFrom(cell)

\* The slots before k hold addresses, dyld's slide awaits one in the first.
Address(n) == Func(lmap[n]).addr + libs[lmap[n].lib].slide
Filled(k) ==
  /\ k \in 1 .. Len(lmap) + 1
  /\ jump \in [DOMAIN lmap -> Nat]
  /\ \A n \in DOMAIN lmap :
       jump[n] = IF n < k THEN Address(n) ELSE IF n = 1 THEN libs[0].slide ELSE 0

\* Where the loader is in the table, and what it is looking for.
InGroup ==
  /\ slot \in DOMAIN lmap /\ lib = lmap[slot].lib
  /\ cell = At(slot + 1) - 1 /\ count = Left(slot)
NotYet ==
  /\ entry \in Nat \ {0}
  /\ \A k \in DOMAIN libs[lib].nlist :
       k < entry => program.hash[libs[lib].nlist[k].name] # Hash(lmap[slot])
BetweenGroups == cell = At(slot) /\ (slot \in DOMAIN lmap => Headed(slot))
AtLibrary ==
  /\ slot \in DOMAIN lmap /\ Headed(slot)
  /\ cell = At(slot) + 1 /\ count = Cardinality(Group(slot))

LoaderInv ==
  /\ lphase = "off" => slot = 1 /\ cell = 1
  /\ lphase # "off" =>
       /\ phase = "linked" /\ Filled(slot)
       /\ \A k \in DOMAIN images : images[k] \in DOMAIN libs
  /\ lphase \in {"browse", "functions"} => InGroup
  /\ lphase = "functions" => NotYet
  /\ lphase = "group" => BetweenGroups
  /\ lphase = "images" => AtLibrary
  /\ lphase \in {"calls", "restore", "done"} => slot = Len(lmap) + 1

ImportInv == LinkerInv /\ LoaderInv

LEMMA SteadyList ==
  ASSUME program' = program, NEW map
  PROVE  Listed(map)' <=> Listed(map)
<1>1. /\ libs' = libs /\ Entries' = Entries /\ Symbols' = Symbols
      /\ \A e : Func(e)' = Func(e) /\ (Sound(e)' <=> Sound(e))
      /\ \A s : Imported(s)' <=> Imported(s)
  BY Unmoved
<1>2. /\ Apart(map)' <=> Apart(map)
      /\ Together(map)' <=> Together(map)
      /\ OfDyld(map)' = OfDyld(map)
      /\ \A name : Named(map, name)' <=> Named(map, name)
  BY <1>1 DEF Apart, Together, OfDyld, Named
<1>3. QED
  BY <1>1, <1>2 DEF Listed

\* Once the functions are known, they stay what they are.
LEMMA Steady ==
  ASSUME program' = program, lmap' = lmap
  PROVE  /\ libs' = libs /\ Symbols' = Symbols
         /\ Listed(lmap)' <=> Listed(lmap)
         /\ \A n : /\ At(n)' = At(n) /\ (Headed(n)' <=> Headed(n))
                   /\ Group(n)' = Group(n) /\ Left(n)' = Left(n) /\ Address(n)' = Address(n)
<1>1. /\ libs' = libs /\ Entries' = Entries /\ Symbols' = Symbols
      /\ \A e : Func(e)' = Func(e) /\ (Sound(e)' <=> Sound(e))
      /\ \A s : Imported(s)' <=> Imported(s)
  BY Unmoved
<1>2. \A n : Headed(n)' <=> Headed(n)
  BY DEF Headed, StartsGroup
<1>3. \A n : Group(n)' = Group(n)
  BY DEF Group
<1>4. \A n : At(n)' = At(n)
  BY <1>2 DEF At
<1>5. \A n : Left(n)' = Left(n)
  BY <1>3 DEF Left
<1>6. \A n : Address(n)' = Address(n)
  BY <1>1 DEF Address
<1>7. PICK map : map = lmap
  OBVIOUS
<1>8. Listed(lmap)' <=> Listed(lmap)
  BY <1>7, SteadyList
<1>9. QED
  BY <1>1, <1>2, <1>3, <1>4, <1>5, <1>6, <1>8

LEMMA SteadyTable ==
  ASSUME program' = program, lmap' = lmap, table' = table
  PROVE  /\ \A k : WrittenTo(k)' <=> WrittenTo(k)
         /\ \A from : TableFrom(from)' <=> TableFrom(from)
<1>1. \A e : Hash(e)' = Hash(e)
  BY Unmoved
<1>2. \A n : At(n)' = At(n) /\ (Headed(n)' <=> Headed(n)) /\ Group(n)' = Group(n)
  BY Steady
<1>3. \A n : (Written(n)' <=> Written(n)) /\ (Counted(n)' <=> Counted(n))
  BY <1>1, <1>2, Steady DEF Written, Counted
<1>4. QED
  BY <1>2, <1>3 DEF WrittenTo, TableFrom

LEMMA SteadyJump ==
  ASSUME program' = program, lmap' = lmap, jump' = jump
  PROVE  \A k : Filled(k)' <=> Filled(k)
<1>1. libs' = libs /\ \A n : Address(n)' = Address(n)
  BY Steady
<1>2. QED
  BY <1>1 DEF Filled

-----------------------------------------------------------------------------
(* The linker's steps.                                                     *)

LEMMA ImportInit == IInit /\ LInit => ImportInv
<1> SUFFICES ASSUME IInit, LInit PROVE ImportInv
  OBVIOUS
<1>1. program \in Programs /\ phase = "resolve" /\ table = <<>> /\ next = 1 /\ lmap = <<>>
  BY DEF IInit
<1>2. PICK last \in Nat : Len(Symbols) = last + 1
  BY <1>1, SymbolsAre
<1>3. 1 \in 1 .. Len(Symbols) + 1
  BY <1>2
<1>4. ResolvedTo(lmap, next - 1)
  BY <1>1, NothingResolved
<1>5. LinkerInv
  BY <1>1, <1>3, <1>4 DEF LinkerInv
<1>6. LoaderInv
  BY DEF LInit, LoaderInv
<1>7. QED
  BY <1>5, <1>6 DEF ImportInv

\* While there is something to link, the loader does not run.
LEMMA OffYet ==
  ASSUME ImportInv, phase # "linked", UNCHANGED lvars
  PROVE  LoaderInv' /\ cell = 1 /\ cell' = 1
<1>1. lphase = "off" /\ slot = 1 /\ cell = 1
  BY DEF ImportInv, LoaderInv
<1>2. lphase' = "off" /\ slot' = 1 /\ cell' = 1
  BY <1>1 DEF lvars
<1>3. QED
  BY <1>1, <1>2 DEF LoaderInv

LEMMA ResolveStep ==
  ASSUME ImportInv, Resolve, UNCHANGED lvars
  PROVE  ImportInv'
<1>1. /\ phase = "resolve" /\ phase' = "resolve" /\ next <= Len(Symbols) /\ next' = next + 1
      /\ program' = program /\ table' = table
  BY DEF Resolve
<1>2. /\ program \in Programs /\ table = <<>> /\ next \in 1 .. Len(Symbols) + 1
      /\ ResolvedTo(lmap, next - 1)
  BY <1>1 DEF ImportInv, LinkerInv
<1>3. PICK all \in Nat : all = Len(Symbols)
  <2>1. PICK last \in Nat : Len(Symbols) = last + 1
    BY <1>2, SymbolsAre
  <2>2. QED
    BY <2>1
<1>4. PICK k \in Nat : k = next - 1 /\ k + 1 = next /\ k < all /\ next + 1 \in 1 .. all + 1
  BY <1>1, <1>2, <1>3
<1>5. ResolvedTo(lmap', k + 1)
  <2>1. CASE ~Imported(Symbols[next]) /\ lmap' = lmap
    BY <1>2, <1>3, <1>4, <2>1, NotImported
  <2>2. CASE \E e \in Matches(Symbols[next]) : ~Clash(e) /\ lmap' = Append(lmap, e)
    BY <1>2, <1>3, <1>4, <2>2, OneImport
  <2>3. QED
    BY <2>1, <2>2 DEF Resolve
<1>6. PICK map : map = lmap'
  OBVIOUS
<1>7. ResolvedTo(map, k + 1)' /\ Symbols' = Symbols
  BY <1>1, <1>5, <1>6, Unmoved
<1>8. ResolvedTo(lmap, next - 1)'
  <2>1. (next - 1)' = k + 1
    BY <1>1, <1>4
  <2>2. QED
    BY <1>6, <1>7, <2>1
<1>9. LinkerInv'
  BY <1>1, <1>2, <1>3, <1>4, <1>7, <1>8 DEF LinkerInv
<1>10. LoaderInv'
  BY <1>1, OffYet
<1>11. QED
  BY <1>9, <1>10 DEF ImportInv

LEMMA SortStep ==
  ASSUME ImportInv, Sort, UNCHANGED lvars
  PROVE  ImportInv'
<1>1. /\ phase = "resolve" /\ next > Len(Symbols) /\ next' = 1
      /\ program' = program /\ table' = table
  BY DEF Sort
<1>2. /\ program \in Programs /\ table = <<>> /\ next \in 1 .. Len(Symbols) + 1
      /\ ResolvedTo(lmap, next - 1)
  BY <1>1 DEF ImportInv, LinkerInv
<1>3. LoaderInv'
  BY <1>1, OffYet
<1>4. CASE LibrariesClash
  <2>1. phase' = "refused"
    BY <1>4 DEF Sort, Go
  <2>2. LinkerInv'
    BY <1>1, <1>2, <2>1 DEF LinkerInv
  <2>3. QED
    BY <1>3, <2>2 DEF ImportInv
<1>5. CASE ~LibrariesClash
  <2>1. phase' = "parents"
    BY <1>5 DEF Sort, Go
  <2>2. PICK place \in Bijection(DOMAIN lmap, DOMAIN lmap) :
          /\ \A m, n \in DOMAIN lmap : m < n => ~Before(lmap[place[n]], lmap[place[m]])
          /\ lmap' = [n \in DOMAIN lmap |-> lmap[place[n]]]
    BY <1>5 DEF Sort
  <2>3. Apart(lmap)
    BY <1>5 DEF LibrariesClash, Apart
  <2>4. ResolvedTo(lmap, Len(Symbols))
    <3>1. PICK last \in Nat : Len(Symbols) = last + 1
      BY <1>2, SymbolsAre
    <3>2. next - 1 = Len(Symbols)
      BY <1>1, <1>2, <3>1
    <3>3. QED
      BY <1>2, <3>2
  <2>5. Listed(lmap')
    BY <1>2, <2>2, <2>3, <2>4, Sorted
  <2>6. PICK map : map = lmap'
    OBVIOUS
  <2>7. Listed(map)'
    BY <1>1, <2>5, <2>6, SteadyList
  <2>8. LinkerInv'
    BY <1>1, <1>2, <2>1, <2>6, <2>7 DEF LinkerInv
  <2>9. QED
    BY <1>3, <2>8 DEF ImportInv
<1>6. QED
  BY <1>4, <1>5

\* map_libs reads the functions only.
LEMMA ParentsSteps ==
  ASSUME ImportInv, FindParents \/ AskParent \/ Answer \/ FoundParents \/ AllParents, UNCHANGED lvars
  PROVE  ImportInv'
<1>1. /\ phase = "parents" /\ program' = program /\ lmap' = lmap /\ table' = table
      /\ \/ phase' = phase /\ next' \in {next, next + 1}
         \/ phase' = "refused"
         \/ phase' = "choose" /\ next' = 1
  BY DEF FindParents, AskParent, Answer, FoundParents, AllParents, Go
<1>2. program \in Programs /\ table = <<>> /\ next \in Nat \ {0} /\ Listed(lmap)
  BY <1>1 DEF ImportInv, LinkerInv
<1>3. LoaderInv'
  BY <1>1, OffYet
<1>4. Listed(lmap)'
  BY <1>1, <1>2, Steady
<1>5. LinkerInv'
  BY <1>1, <1>2, <1>4 DEF LinkerInv
<1>6. QED
  BY <1>3, <1>5 DEF ImportInv

LEMMA ChooseSteps ==
  ASSUME ImportInv, TryCombination \/ Mark, UNCHANGED lvars
  PROVE  ImportInv'
<1>1. /\ phase \in {"choose", "mark"} /\ phase' \in {"refused", "choose", "mark", "write"}
      /\ program' = program /\ lmap' = lmap /\ next' = next /\ table' = table
  BY DEF TryCombination, Mark, Go
<1>2. program \in Programs /\ table = <<>> /\ next = 1 /\ Listed(lmap)
  BY <1>1 DEF ImportInv, LinkerInv
<1>3. LoaderInv'
  BY <1>1, OffYet
<1>4. Listed(lmap)'
  BY <1>1, <1>2, Steady
<1>5. WrittenTo(next - 1)
  <2>1. PICK k \in Nat : k = next - 1 /\ k = 0 /\ k + 1 = 1
    BY <1>2
  <2>2. Len(table) = At(k + 1) - 1
    BY <1>2, <2>1, FirstAt
  <2>3. table \in Seq(Nat)
    BY <1>2
  <2>4. WrittenTo(k)
    BY <2>1, <2>2, <2>3 DEF WrittenTo
  <2>5. QED
    BY <2>1, <2>4
<1>6. WrittenTo(next - 1)'
  BY <1>1, <1>5, SteadyTable
<1>7. next' \in 1 .. Len(lmap') + 1
  <2>1. PICK last \in Nat \ {0} : last = Len(lmap)
    BY <1>2, ListIs
  <2>2. QED
    BY <1>1, <1>2, <2>1
<1>8. LinkerInv'
  BY <1>1, <1>2, <1>4, <1>6, <1>7 DEF LinkerInv
<1>9. QED
  BY <1>3, <1>8 DEF ImportInv

LEMMA RefusalSteps ==
  ASSUME ImportInv, CannotResolve \/ CannotWrite, UNCHANGED lvars
  PROVE  ImportInv'
<1>1. /\ phase # "linked" /\ phase' = "refused" /\ program' = program
  BY DEF CannotResolve, CannotWrite, Go
<1>2. LinkerInv'
  BY <1>1 DEF ImportInv, LinkerInv
<1>3. LoaderInv'
  BY <1>1, OffYet
<1>4. QED
  BY <1>2, <1>3 DEF ImportInv

LEMMA CellsBefore ==
  ASSUME NEW m \in Nat \ {0}, NEW n \in Nat \ {0}, m < n
  PROVE  /\ At(m) \in 1 .. At(n) - 1 /\ At(m + 1) - 1 \in 1 .. At(n) - 1
         /\ Headed(m) => At(m) + 1 \in 1 .. At(n) - 1
<1>1. PICK a \in Nat \ {0}, b \in Nat \ {0}, c \in Nat \ {0} : a = At(m) /\ b = At(m + 1) /\ c = At(n)
  BY NextAt
<1>2. b <= c
  <2>1. m + 1 \in Nat \ {0} /\ m + 1 <= n
    OBVIOUS
  <2>2. QED
    BY <1>1, <2>1, AtGrows
<1>3. b = IF Headed(m) THEN a + 3 ELSE a + 1
  BY <1>1, NextAt
<1>4. QED
  BY <1>1, <1>2, <1>3

\* Cells that are left alone say what they said.
LEMMA StillWritten ==
  ASSUME program' = program, lmap' = lmap, NEW m \in Nat \ {0}, Written(m), Counted(m),
         table'[At(m + 1) - 1] = table[At(m + 1) - 1],
         Headed(m) => table'[At(m) + 1] = table[At(m) + 1] /\ table'[At(m)] = table[At(m)]
  PROVE  Written(m)' /\ Counted(m)'
<1>1. \A e : Hash(e)' = Hash(e)
  BY Unmoved
<1>2. /\ libs' = libs
      /\ \A n : At(n)' = At(n) /\ (Headed(n)' <=> Headed(n)) /\ Group(n)' = Group(n)
  BY Steady
<1>3. Written(m)'
  BY <1>1, <1>2 DEF Written
<1>4. Counted(m)'
  BY <1>2 DEF Counted
<1>5. QED
  BY <1>3, <1>4

LEMMA EntryAppended ==
  ASSUME NEW s \in Seq(Nat), NEW c \in Nat, NEW l \in Nat, NEW h \in Nat
  PROVE  /\ LET t == s \o <<c, l>> \o <<h>>
            IN  /\ t \in Seq(Nat) /\ Len(t) = Len(s) + 3
                /\ \A j \in 1 .. Len(s) : t[j] = s[j]
                /\ t[Len(s) + 1] = c /\ t[Len(s) + 2] = l /\ t[Len(s) + 3] = h
         /\ LET t == s \o <<>> \o <<h>>
            IN  /\ t \in Seq(Nat) /\ Len(t) = Len(s) + 1
                /\ \A j \in 1 .. Len(s) : t[j] = s[j]
                /\ t[Len(s) + 1] = h
OBVIOUS

LEMMA WriteEntryStep ==
  ASSUME ImportInv, WriteEntry, UNCHANGED lvars
  PROVE  ImportInv'
<1>1. /\ phase = "write" /\ phase' = "write" /\ next <= Len(lmap) /\ next' = next + 1
      /\ program' = program /\ lmap' = lmap
      /\ table' = table \o GroupHeader(next) \o <<Hash(lmap[next])>>
      /\ isdyld(lmap[next].lib) \/ libs[lmap[next].lib].slide = 0
  BY DEF WriteEntry
<1>2. /\ program \in Programs /\ next \in 1 .. Len(lmap) + 1 /\ Listed(lmap)
      /\ WrittenTo(next - 1)
  BY <1>1 DEF ImportInv, LinkerInv
<1>3. LoaderInv'
  BY <1>1, OffYet
<1>4. PICK last \in Nat \ {0} :
        /\ last = Len(lmap) /\ DOMAIN lmap = 1 .. last
        /\ \A n \in 1 .. last : lmap[n] \in Entries
  BY <1>2, ListIs
<1>5. PICK n \in 1 .. last : n = next /\ n \in Nat \ {0} /\ n + 1 \in 1 .. last + 1
  BY <1>1, <1>2, <1>4
<1>6. PICK a \in Nat \ {0}, b \in Nat \ {0} :
        a = At(n) /\ b = At(n + 1) /\ b = IF Headed(n) THEN a + 3 ELSE a + 1
  BY <1>5, NextAt
<1>7. PICK s \in Seq(Nat) : s = table /\ Len(s) + 1 = a
  <2>1. (next - 1) + 1 = n
    BY <1>5
  <2>2. table \in Seq(Nat) /\ Len(table) = At(n) - 1
    BY <1>2, <2>1 DEF WrittenTo
  <2>3. QED
    BY <1>6, <2>2
<1>8. PICK c \in Nat, l \in Nat, h \in Nat :
        c = Cardinality(Group(n)) /\ l = libs[lmap[n].lib].hash /\ h = Hash(lmap[n])
  <2>1. Cardinality(Group(n)) \in Nat
    BY <1>2, <1>4, <1>5, Groups
  <2>2. lmap[n].lib \in DOMAIN libs /\ Hash(lmap[n]) \in Nat
    BY <1>2, <1>4, <1>5, EntriesAre
  <2>3. libs[lmap[n].lib].hash \in Nat
    BY <1>2, <2>2, ProgramIs
  <2>4. QED
    BY <2>1, <2>2, <2>3
<1>9. PICK t \in Seq(Nat) :
        /\ t = table' /\ Len(t) + 1 = b
        /\ \A j \in 1 .. a - 1 : t[j] = table[j]
        /\ t[b - 1] = h
        /\ Headed(n) => t[a] = c /\ t[a + 1] = l
  <2>1. CASE Headed(n)
    <3>1. table' = s \o <<c, l>> \o <<h>>
      BY <1>1, <1>5, <1>7, <1>8, <2>1, HeaderIs
    <3>2. /\ table' \in Seq(Nat) /\ Len(table') = Len(s) + 3
          /\ \A j \in 1 .. Len(s) : table'[j] = s[j]
          /\ table'[Len(s) + 1] = c /\ table'[Len(s) + 2] = l /\ table'[Len(s) + 3] = h
      BY <3>1, EntryAppended
    <3>3. b - 1 = Len(s) + 3 /\ a = Len(s) + 1 /\ a + 1 = Len(s) + 2 /\ a - 1 = Len(s)
      BY <1>6, <1>7, <2>1
    <3>4. Len(table') + 1 = b
      BY <1>6, <3>2, <3>3
    <3>5. QED
      BY <1>7, <3>2, <3>3, <3>4
  <2>2. CASE ~Headed(n)
    <3>1. table' = s \o <<>> \o <<h>>
      BY <1>1, <1>5, <1>7, <1>8, <2>2, HeaderIs
    <3>2. /\ table' \in Seq(Nat) /\ Len(table') = Len(s) + 1
          /\ \A j \in 1 .. Len(s) : table'[j] = s[j]
          /\ table'[Len(s) + 1] = h
      BY <3>1, EntryAppended
    <3>3. b - 1 = Len(s) + 1 /\ a = Len(s) + 1 /\ a - 1 = Len(s)
      BY <1>6, <1>7, <2>2
    <3>4. Len(table') + 1 = b
      BY <1>6, <3>2, <3>3
    <3>5. QED
      BY <1>7, <2>2, <3>2, <3>3, <3>4
  <2>3. QED
    BY <2>1, <2>2
<1>10. /\ libs' = libs /\ \A e : Hash(e)' = Hash(e)
       /\ \A m : At(m)' = At(m) /\ (Headed(m)' <=> Headed(m)) /\ Group(m)' = Group(m)
  BY <1>1, Steady, Unmoved
<1>11. ASSUME NEW m \in 1 .. n PROVE Written(m)' /\ Counted(m)'
  <2>1. CASE m = n
    <3>1. Written(n)'
      BY <1>1, <1>5, <1>6, <1>8, <1>9, <1>10 DEF Written
    <3>2. Counted(n)'
      BY <1>1, <1>6, <1>8, <1>9, <1>10 DEF Counted
    <3>3. QED
      BY <2>1, <3>1, <3>2
  <2>2. CASE m < n
    <3>1. m \in Nat \ {0} /\ m \in 1 .. next - 1
      BY <1>5, <2>2
    <3>2. Written(m) /\ Counted(m)
      BY <1>2, <3>1 DEF WrittenTo
    <3>3. /\ At(m) \in 1 .. a - 1 /\ At(m + 1) - 1 \in 1 .. a - 1
          /\ Headed(m) => At(m) + 1 \in 1 .. a - 1
      BY <1>5, <1>6, <2>2, <3>1, CellsBefore
    <3>4. /\ table'[At(m + 1) - 1] = table[At(m + 1) - 1]
          /\ Headed(m) => table'[At(m) + 1] = table[At(m) + 1] /\ table'[At(m)] = table[At(m)]
      BY <1>9, <3>3
    <3>5. QED
      BY <1>1, <3>1, <3>2, <3>4, StillWritten
  <2>3. QED
    BY <1>5, <2>1, <2>2
<1>12. WrittenTo(next - 1)'
  <2>1. (next - 1)' = n /\ (n + 1)' = n + 1
    BY <1>1, <1>5
  <2>2. Len(table') = At(n + 1)' - 1
    BY <1>6, <1>9, <1>10
  <2>3. table' \in Seq(Nat)
    BY <1>9
  <2>4. WrittenTo(n)'
    BY <1>11, <2>2, <2>3 DEF WrittenTo
  <2>5. QED
    BY <2>1, <2>4
<1>13. Listed(lmap)'
  BY <1>1, <1>2, Steady
<1>14. next' \in 1 .. Len(lmap') + 1
  BY <1>1, <1>4, <1>5
<1>15. LinkerInv'
  BY <1>1, <1>2, <1>12, <1>13, <1>14 DEF LinkerInv
<1>16. QED
  BY <1>3, <1>15 DEF ImportInv

LEMMA WriteEndStep ==
  ASSUME ImportInv, WriteEnd, UNCHANGED lvars
  PROVE  ImportInv'
<1>1. /\ phase = "write" /\ phase' = "linked" /\ next > Len(lmap)
      /\ program' = program /\ lmap' = lmap /\ table' = Append(table, 0)
  BY DEF WriteEnd, Go
<1>2. /\ program \in Programs /\ next \in 1 .. Len(lmap) + 1 /\ Listed(lmap)
      /\ WrittenTo(next - 1)
  BY <1>1 DEF ImportInv, LinkerInv
<1>3. LoaderInv' /\ cell' = 1
  BY <1>1, OffYet
<1>4. PICK last \in Nat \ {0} : last = Len(lmap) /\ DOMAIN lmap = 1 .. last
  BY <1>2, ListIs
<1>5. next - 1 = last /\ last + 1 \in Nat \ {0}
  BY <1>1, <1>2, <1>4
<1>6. PICK a \in Nat \ {0} : a = At(last + 1)
  BY <1>4, NextAt
<1>7. PICK s \in Seq(Nat) : s = table /\ Len(s) = a - 1
  <2>1. WrittenTo(last)
    BY <1>2, <1>5
  <2>2. QED
    BY <1>6, <2>1 DEF WrittenTo
<1>8. /\ table' \in Seq(Nat) /\ Len(table') = a /\ table'[a] = 0
      /\ \A j \in 1 .. a - 1 : table'[j] = table[j]
  <2>1. table' = Append(s, 0)
    BY <1>1, <1>7
  <2>2. QED
    BY <1>6, <1>7, <2>1
<1>9. ASSUME NEW m \in 1 .. last PROVE Written(m)' /\ Counted(m)'
  <2>1. m \in Nat \ {0} /\ m < last + 1
    BY <1>4
  <2>2. Written(m) /\ Counted(m)
    BY <1>2, <1>5 DEF WrittenTo
  <2>3. /\ At(m) \in 1 .. a - 1 /\ At(m + 1) - 1 \in 1 .. a - 1
        /\ Headed(m) => At(m) + 1 \in 1 .. a - 1
    BY <1>5, <1>6, <2>1, CellsBefore
  <2>4. /\ table'[At(m + 1) - 1] = table[At(m + 1) - 1]
        /\ Headed(m) => table'[At(m) + 1] = table[At(m) + 1] /\ table'[At(m)] = table[At(m)]
    BY <1>8, <2>3
  <2>5. QED
    BY <1>1, <2>1, <2>2, <2>4, StillWritten
<1>10. TableFrom(cell)'
  <2>1. Len(lmap') + 1 = last + 1 /\ At(last + 1)' = a /\ DOMAIN lmap' = 1 .. last
    BY <1>1, <1>4, <1>6, Steady
  <2>2. At(Len(lmap) + 1)' = a
    BY <1>1, <1>4, <1>6, Steady
  <2>3. QED
    BY <1>8, <1>9, <2>1, <2>2 DEF TableFrom
<1>11. Listed(lmap)'
  BY <1>1, <1>2, Steady
<1>12. LinkerInv'
  BY <1>1, <1>2, <1>10, <1>11 DEF LinkerInv
<1>13. QED
  BY <1>3, <1>12 DEF ImportInv

LEMMA ImportSteps ==
  ASSUME ImportInv, INext, UNCHANGED lvars
  PROVE  ImportInv'
BY ResolveStep, SortStep, ParentsSteps, ChooseSteps, RefusalSteps, WriteEntryStep, WriteEndStep
   DEF INext

\* Steps that touch neither the imports nor the loader.
LEMMA OtherSteps ==
  ASSUME ImportInv, UNCHANGED ivars, UNCHANGED lvars
  PROVE  ImportInv'
<1>1. /\ program' = program /\ lmap' = lmap /\ table' = table /\ phase' = phase /\ next' = next
      /\ lphase' = lphase /\ jump' = jump /\ images' = images
      /\ slot' = slot /\ cell' = cell /\ count' = count /\ lib' = lib /\ entry' = entry
  BY DEF ivars, lvars
<1>2. LinkerInv'
  BY <1>1, Steady, SteadyTable, Unmoved DEF ImportInv, LinkerInv
<1>3. InGroup' <=> InGroup
  BY <1>1, Steady DEF InGroup
<1>4. NotYet' <=> NotYet
  BY <1>1, Steady, Unmoved DEF NotYet
<1>5. (BetweenGroups' <=> BetweenGroups) /\ (AtLibrary' <=> AtLibrary)
  BY <1>1, Steady DEF BetweenGroups, AtLibrary
<1>6. LoaderInv'
  BY <1>1, <1>3, <1>4, <1>5, Steady, SteadyJump DEF ImportInv, LoaderInv
<1>7. QED
  BY <1>2, <1>6 DEF ImportInv

-----------------------------------------------------------------------------
(* The loader's steps.                                                     *)

\* The first entry is dyld's, and the only one.
LEMMA FirstIsDyld ==
  ASSUME program \in Programs, Listed(lmap)
  PROVE  /\ 1 \in DOMAIN lmap /\ lmap[1].lib = 0
         /\ \A n \in DOMAIN lmap : lmap[n].lib = 0 => n = 1
         /\ ~Headed(1) /\ Left(1) = 1
         /\ \A n \in DOMAIN lmap : n # 1 /\ StartsGroup(n) => Headed(n)
<1>1. 1 \in DOMAIN lmap /\ \A n \in DOMAIN lmap : lmap[n].lib = 0 <=> n = 1
  BY DEF Listed, OfDyld, isdyld
<1>2. ~Headed(1)
  BY DEF Headed
<1>3. {m \in Group(1) : m >= 1} = {1}
  BY <1>1 DEF Group
<1>4. Left(1) = 1
  BY <1>3, FS_Singleton DEF Left
<1>5. \A n \in DOMAIN lmap : n # 1 /\ StartsGroup(n) => Headed(n)
  BY <1>1 DEF Headed
<1>6. QED
  BY <1>1, <1>2, <1>4, <1>5

LEMMA TableLater ==
  ASSUME program \in Programs, Listed(lmap), NEW from \in Nat, NEW to \in Nat, from <= to, TableFrom(from)
  PROVE  TableFrom(to)
<1>1. PICK last \in Nat \ {0} : last = Len(lmap) /\ DOMAIN lmap = 1 .. last
  BY ListIs
<1>2. \A n \in DOMAIN lmap : At(n) >= to => At(n) >= from
  <2> SUFFICES ASSUME NEW n \in DOMAIN lmap, At(n) >= to PROVE At(n) >= from
    OBVIOUS
  <2>1. PICK a \in Nat : a = At(n)
    <3>1. n \in Nat \ {0}
      BY <1>1
    <3>2. At(n) \in Nat
      BY <3>1, NextAt
    <3>3. QED
      BY <3>2
  <2>2. QED
    BY <2>1
<1>3. QED
  BY <1>2 DEF TableFrom

LEMMA StartStep ==
  ASSUME ImportInv, Start
  PROVE  ImportInv'
<1>1. /\ phase = "linked" /\ lphase = "off" /\ lphase' = "browse"
      /\ phase' = phase /\ program' = program /\ lmap' = lmap /\ table' = table
      /\ slot' = slot /\ cell' = cell /\ count' = 1 /\ lib' = 0
      /\ jump' = [k \in 1 .. Len(lmap) |-> IF k = 1 THEN libs[0].slide ELSE 0]
  BY DEF Start, ivars
<1>2. program \in Programs /\ Listed(lmap) /\ TableFrom(cell) /\ slot = 1 /\ cell = 1
  BY <1>1 DEF ImportInv, LinkerInv, LoaderInv
<1>3. PICK last \in Nat \ {0} : last = Len(lmap) /\ DOMAIN lmap = 1 .. last
  BY <1>2, ListIs
<1>4. LinkerInv'
  BY <1>1, <1>2, Steady, SteadyTable DEF LinkerInv
<1>5. Filled(slot)'
  <2>1. PICK x \in Nat : x = libs[0].slide
    BY <1>2, ProgramIs
  <2>2. jump' = [k \in 1 .. last |-> IF k = 1 THEN x ELSE 0]
    BY <1>1, <1>3, <2>1
  <2>3. jump' \in [1 .. last -> Nat]
    BY <2>2
  <2>4. libs' = libs
    BY <1>1, Steady
  <2>5. \A n \in 1 .. last : ~(n < 1) /\ jump'[n] = IF n = 1 THEN x ELSE 0
    BY <2>2
  <2>6. 1 \in 1 .. last + 1
    BY <1>3
  <2>7. QED
    BY <1>1, <1>2, <1>3, <2>1, <2>3, <2>4, <2>5, <2>6 DEF Filled
<1>6. \A k \in DOMAIN images' : images'[k] \in DOMAIN libs'
  <2>1. PICK order \in [1 .. Cardinality(Loaded(used)) -> Loaded(used)] : images' = order
    BY DEF Start
  <2>2. Loaded(used) \in SUBSET DOMAIN libs
    BY DEF Loaded
  <2>3. libs' = libs
    BY <1>1, Steady
  <2> HIDE DEF Loaded
  <2>4. QED
    BY <2>1, <2>2, <2>3
<1>7. InGroup'
  <2>1. 1 \in DOMAIN lmap /\ lmap[1].lib = 0 /\ ~Headed(1) /\ Left(1) = 1
    BY <1>2, FirstIsDyld
  <2>2. At(1 + 1) - 1 = 1
    <3>1. At(1 + 1) = IF Headed(1) THEN At(1) + 3 ELSE At(1) + 1
      BY NextAt
    <3>2. QED
      BY <2>1, <3>1, FirstAt
  <2>3. At(1 + 1)' = At(1 + 1) /\ Left(1)' = Left(1)
    BY <1>1, Steady
  <2>4. QED
    BY <1>1, <1>2, <2>1, <2>2, <2>3 DEF InGroup
<1>8. LoaderInv'
  BY <1>1, <1>5, <1>6, <1>7 DEF LoaderInv
<1>9. QED
  BY <1>4, <1>8 DEF ImportInv

LEMMA BrowseStep ==
  ASSUME ImportInv, BrowseMach
  PROVE  ImportInv'
<1>1. /\ lphase = "browse" /\ lphase' = "functions" /\ entry' = 1
      /\ phase' = phase /\ program' = program /\ lmap' = lmap /\ table' = table
      /\ slot' = slot /\ cell' = cell /\ count' = count /\ lib' = lib
      /\ jump' = jump /\ images' = images
  BY DEF BrowseMach, ivars
<1>2. /\ program \in Programs /\ phase = "linked" /\ Listed(lmap) /\ TableFrom(cell)
      /\ Filled(slot) /\ InGroup /\ \A k \in DOMAIN images : images[k] \in DOMAIN libs
  BY <1>1 DEF ImportInv, LinkerInv, LoaderInv
<1>3. LinkerInv'
  BY <1>1, <1>2, Steady, SteadyTable DEF LinkerInv
<1>4. InGroup'
  BY <1>1, <1>2, Steady DEF InGroup
<1>5. NotYet'
  <2>1. lmap[slot] \in Entries /\ lib = lmap[slot].lib
    BY <1>2, ListIs DEF InGroup
  <2>2. \A k \in DOMAIN libs[lib].nlist : k \in Nat \ {0}
    BY <1>2, <2>1, EntriesAre
  <2>3. libs' = libs
    BY <1>1, Steady
  <2>4. \A k \in DOMAIN libs[lib].nlist : ~(k < 1)
    BY <2>2
  <2>5. QED
    BY <1>1, <2>3, <2>4 DEF NotYet
<1>6. LoaderInv'
  BY <1>1, <1>2, <1>4, <1>5, Steady, SteadyJump DEF LoaderInv
<1>7. QED
  BY <1>3, <1>6 DEF ImportInv

LEMMA NextSymbolStep ==
  ASSUME ImportInv, NextSymbol
  PROVE  ImportInv'
<1>1. /\ lphase = "functions" /\ lphase' = "functions" /\ entry' = entry + 1
      /\ phase' = phase /\ program' = program /\ lmap' = lmap /\ table' = table
      /\ slot' = slot /\ cell' = cell /\ count' = count /\ lib' = lib
      /\ jump' = jump /\ images' = images
      /\ program.hash[libs[lib].nlist[entry].name] # table[cell]
  BY DEF NextSymbol, ivars, Symbol
<1>2. /\ program \in Programs /\ phase = "linked" /\ Listed(lmap) /\ TableFrom(cell)
      /\ Filled(slot) /\ InGroup /\ NotYet /\ \A k \in DOMAIN images : images[k] \in DOMAIN libs
  BY <1>1 DEF ImportInv, LinkerInv, LoaderInv
<1>3. LinkerInv'
  BY <1>1, <1>2, Steady, SteadyTable DEF LinkerInv
<1>4. InGroup'
  BY <1>1, <1>2, Steady DEF InGroup
<1>5. NotYet'
  <2>1. lmap[slot] \in Entries /\ lib = lmap[slot].lib
    BY <1>2, ListIs DEF InGroup
  <2>2. \A k \in DOMAIN libs[lib].nlist : k \in Nat \ {0}
    BY <1>2, <2>1, EntriesAre
  <2>3. libs' = libs /\ Hash(lmap[slot])' = Hash(lmap[slot])
    BY <1>1, Steady, Unmoved
  <2>4. table[cell] = Hash(lmap[slot])
    BY <1>2 DEF InGroup, TableFrom, Written
  <2>5. PICK x \in Nat \ {0} : x = entry
    BY <1>2 DEF NotYet
  <2>6. \A k \in DOMAIN libs[lib].nlist : k < x + 1 => k < x \/ k = x
    BY <2>2
  <2>7. \A k \in DOMAIN libs[lib].nlist :
          k < x + 1 => program.hash[libs[lib].nlist[k].name] # Hash(lmap[slot])
    BY <1>1, <1>2, <2>4, <2>5, <2>6 DEF NotYet
  <2>8. entry' = x + 1 /\ entry' \in Nat \ {0}
    BY <1>1, <2>5
  <2>9. QED
    BY <1>1, <2>3, <2>7, <2>8, Unmoved DEF NotYet
<1>6. LoaderInv'
  BY <1>1, <1>2, <1>4, <1>5, Steady, SteadyJump DEF LoaderInv
<1>7. QED
  BY <1>3, <1>6 DEF ImportInv

\* The first symbol with the hash is the one that was meant.
LEMMA RightSymbol ==
  ASSUME program \in Programs, Listed(lmap), NEW n \in DOMAIN lmap,
         NEW e \in DOMAIN libs[lmap[n].lib].nlist,
         program.hash[libs[lmap[n].lib].nlist[e].name] = Hash(lmap[n]),
         \A k \in DOMAIN libs[lmap[n].lib].nlist :
           k < e => program.hash[libs[lmap[n].lib].nlist[k].name] # Hash(lmap[n])
  PROVE  libs[lmap[n].lib].nlist[e] = Func(lmap[n])
<1>1. lmap[n] \in Entries /\ ~Clash(lmap[n])
  BY ListIs DEF Sound
<1>2. PICK func \in Nat \ {0} : func = lmap[n].func /\ func \in DOMAIN libs[lmap[n].lib].nlist
  BY <1>1, EntriesAre
<1>3. e \in Nat \ {0}
  BY <1>1, EntriesAre
<1>4. program.hash[libs[lmap[n].lib].nlist[func].name] = Hash(lmap[n])
  BY <1>2 DEF Hash, Func
<1>5. ~(func < e)
  BY <1>2, <1>4
<1>6. ~(e < func) \/ program.hash_type \in {1, 2}
  BY <1>1, <1>2 DEF Clash
<1>7. program.hash_type \in {1, 2} => e = func
  BY <1>1, <1>2 DEF Clash
<1>8. e = func
  BY <1>2, <1>3, <1>5, <1>6, <1>7
<1>9. QED
  BY <1>2, <1>8 DEF Func

LEMMA FoundSymbolStep ==
  ASSUME ImportInv, FoundSymbol
  PROVE  ImportInv'
<1>1. /\ lphase = "functions" /\ lphase' = (IF count = 1 THEN "group" ELSE "functions")
      /\ entry' = 1 /\ entry \in DOMAIN libs[lib].nlist
      /\ phase' = phase /\ program' = program /\ lmap' = lmap /\ table' = table
      /\ slot' = slot + 1 /\ cell' = cell + 1 /\ count' = count - 1 /\ lib' = lib
      /\ jump' = [jump EXCEPT ![slot] = @ + libs[lib].nlist[entry].addr] /\ images' = images
      /\ program.hash[libs[lib].nlist[entry].name] = table[cell]
  BY DEF FoundSymbol, ivars, Symbol, SymbolFits
<1>2. /\ program \in Programs /\ phase = "linked" /\ Listed(lmap) /\ TableFrom(cell)
      /\ Filled(slot) /\ InGroup /\ NotYet /\ \A k \in DOMAIN images : images[k] \in DOMAIN libs
  BY <1>1 DEF ImportInv, LinkerInv, LoaderInv
<1>3. PICK last \in Nat \ {0} :
        /\ last = Len(lmap) /\ DOMAIN lmap = 1 .. last
        /\ \A n \in 1 .. last : lmap[n] \in Entries /\ Sound(lmap[n])
  BY <1>2, ListIs
<1>4. PICK n \in 1 .. last : n = slot /\ n \in Nat \ {0}
  BY <1>2, <1>3 DEF InGroup
<1>5. PICK a \in Nat \ {0} : a = At(n + 1) /\ cell = a - 1 /\ cell \in Nat
  <2>1. At(n + 1) \in Nat \ {0}
    BY <1>4, NextAt
  <2>2. QED
    BY <1>2, <1>4, <2>1 DEF InGroup
<1>6. libs[lib].nlist[entry] = Func(lmap[n]) /\ lib = lmap[n].lib
  <2>1. table[cell] = Hash(lmap[n])
    BY <1>2, <1>4 DEF InGroup, TableFrom, Written
  <2>2. lib = lmap[n].lib
    BY <1>2, <1>4 DEF InGroup
  <2>3. QED
    BY <1>1, <1>2, <1>3, <1>4, <2>1, <2>2, RightSymbol DEF NotYet
<1>7. libs' = libs /\ Hash(lmap[n])' = Hash(lmap[n]) /\ \A m : /\ At(m)' = At(m) /\ (Headed(m)' <=> Headed(m))
                   /\ Group(m)' = Group(m) /\ Left(m)' = Left(m) /\ Address(m)' = Address(m)
  BY <1>1, Steady, Unmoved
<1>8. cell' = a /\ cell <= a
  BY <1>1, <1>5
<1>9. LinkerInv'
  <2>1. TableFrom(a)
    BY <1>2, <1>5, <1>8, TableLater
  <2>2. TableFrom(a)'
    BY <1>1, <2>1, SteadyTable
  <2>3. TableFrom(cell)'
    BY <1>8, <2>2
  <2>4. QED
    BY <1>1, <1>2, <2>3, Steady DEF LinkerInv
<1>10. Filled(slot)'
  <2>1. PICK x \in Nat, y \in Nat : x = Func(lmap[n]).addr /\ y = libs[lmap[n].lib].slide
    BY <1>2, <1>3, EntriesAre, ProgramIs
  <2>2. jump[n] = y
    <3>1. jump[n] = IF n = 1 THEN libs[0].slide ELSE 0
      BY <1>2, <1>3, <1>4 DEF Filled
    <3>2. n = 1 => lmap[n].lib = 0
      BY <1>2, FirstIsDyld
    <3>3. n # 1 => y = 0
      <4>1. n # 1 => ~isdyld(lmap[n].lib)
        BY <1>2, <1>3, FirstIsDyld DEF isdyld
      <4>2. Written(n)
        BY <1>2, <1>3 DEF TableFrom
      <4>3. QED
        BY <2>1, <4>1, <4>2 DEF Written
    <3>4. QED
      BY <2>1, <3>1, <3>2, <3>3
  <2>3. Address(n) = y + x
    BY <2>1 DEF Address
  <2>4. jump \in [1 .. last -> Nat]
    BY <1>2, <1>3 DEF Filled
  <2>5. jump' = [jump EXCEPT ![n] = Address(n)]
    BY <1>1, <1>4, <1>6, <2>1, <2>2, <2>3
  <2>6. y + x \in Nat
    OBVIOUS
  <2>7. jump' \in [1 .. last -> Nat]
    BY <2>3, <2>4, <2>5, <2>6
  <2>8. ASSUME NEW m \in 1 .. last
        PROVE  jump'[m] = IF m < n + 1 THEN Address(m) ELSE IF m = 1 THEN libs[0].slide ELSE 0
    <3>1. CASE m = n
      BY <2>4, <2>5, <3>1
    <3>2. CASE m # n
      <4>1. jump'[m] = jump[m]
        BY <2>4, <2>5, <3>2
      <4>2. jump[m] = IF m < n THEN Address(m) ELSE IF m = 1 THEN libs[0].slide ELSE 0
        BY <1>2, <1>3, <1>4 DEF Filled
      <4>3. m < n + 1 <=> m < n
        BY <3>2
      <4>4. QED
        BY <4>1, <4>2, <4>3
    <3>3. QED
      BY <3>1, <3>2
  <2>9. n + 1 \in 1 .. last + 1 /\ slot' = n + 1
    BY <1>1, <1>4
  <2>10. QED
    BY <1>1, <1>3, <1>7, <2>7, <2>8, <2>9 DEF Filled
<1>11. PICK c \in Nat \ {0} : c = count /\ c = Left(n)
  BY <1>2, <1>3, <1>4, Groups DEF InGroup
<1>12. CASE c = 1
  <2>1. lphase' = "group"
    BY <1>1, <1>11, <1>12
  <2>2. n + 1 \in DOMAIN lmap => Headed(n + 1)
    <3> SUFFICES ASSUME n + 1 \in DOMAIN lmap PROVE Headed(n + 1)
      OBVIOUS
    <3>1. StartsGroup(n + 1)
      BY <1>2, <1>3, <1>4, <1>11, <1>12, Groups
    <3>2. n + 1 # 1
      BY <1>4
    <3>3. QED
      BY <1>2, <3>1, <3>2, FirstIsDyld
  <2>3. BetweenGroups'
    BY <1>1, <1>4, <1>5, <1>7, <1>8, <2>2 DEF BetweenGroups
  <2>4. LoaderInv'
    BY <1>1, <1>2, <1>7, <1>10, <2>1, <2>3 DEF LoaderInv
  <2>5. QED
    BY <1>9, <2>4 DEF ImportInv
<1>13. CASE c # 1
  <2>1. lphase' = "functions"
    BY <1>1, <1>11, <1>13
  <2>2. n + 1 \in DOMAIN lmap /\ lmap[n + 1].lib = lmap[n].lib /\ Left(n + 1) = Left(n) - 1
    BY <1>2, <1>3, <1>4, <1>11, <1>13, Groups
  <2>3. ~Headed(n + 1)
    <3>1. (n + 1) - 1 = n /\ n + 1 # 1
      BY <1>4
    <3>2. QED
      BY <2>2, <3>1 DEF Headed, StartsGroup
  <2>4. At((n + 1) + 1) = a + 1
    <3>1. n + 1 \in Nat \ {0}
      BY <1>4
    <3>2. QED
      BY <1>5, <2>3, <3>1, NextAt
  <2>5. InGroup'
    <3>1. cell' = At((n + 1) + 1) - 1
      BY <1>5, <1>8, <2>4
    <3>2. count' = Left(n + 1)
      BY <1>1, <1>11, <2>2
    <3>3. slot' = n + 1
      BY <1>1, <1>4
    <3>4. QED
      BY <1>1, <1>6, <1>7, <2>2, <3>1, <3>2, <3>3 DEF InGroup
  <2>6. NotYet'
    <3>1. \A k \in DOMAIN libs[lib].nlist : k \in Nat \ {0}
      BY <1>2, <1>3, <1>6, EntriesAre
    <3>2. \A k \in DOMAIN libs[lib].nlist : ~(k < 1)
      BY <3>1
    <3>3. QED
      BY <1>1, <1>7, <3>2 DEF NotYet
  <2>7. LoaderInv'
    BY <1>1, <1>2, <1>7, <1>10, <2>1, <2>5, <2>6 DEF LoaderInv
  <2>8. QED
    BY <1>9, <2>7 DEF ImportInv
<1>14. QED
  BY <1>12, <1>13

\* Wiping out a count leaves everything else in the table.
LEMMA OtherCells ==
  ASSUME NEW n \in Nat \ {0}, Headed(n), NEW m \in Nat \ {0}
  PROVE  /\ At(m + 1) - 1 # At(n)
         /\ Headed(m) => At(m) + 1 # At(n)
         /\ m # n => At(m) # At(n)
<1>1. PICK a \in Nat, b \in Nat, c \in Nat, d \in Nat :
        /\ a = At(n) /\ b = At(n + 1) /\ c = At(m) /\ d = At(m + 1)
        /\ b = a + 3 /\ d = IF Headed(m) THEN c + 3 ELSE c + 1
  <2>1. At(n) \in Nat /\ At(n + 1) \in Nat /\ At(n + 1) = At(n) + 3
    BY NextAt
  <2>2. /\ At(m) \in Nat /\ At(m + 1) \in Nat
        /\ At(m + 1) = IF Headed(m) THEN At(m) + 3 ELSE At(m) + 1
    BY NextAt
  <2>3. QED
    BY <2>1, <2>2
<1>2. CASE m < n
  <2>1. m + 1 \in Nat \ {0} /\ m + 1 <= n
    BY <1>2
  <2>2. d <= a
    BY <1>1, <2>1, AtGrows
  <2>3. QED
    BY <1>1, <1>2, <2>2
<1>3. CASE m = n
  BY <1>1, <1>3
<1>4. CASE m > n
  <2>1. n + 1 \in Nat \ {0} /\ n + 1 <= m
    BY <1>4
  <2>2. b <= c
    BY <1>1, <2>1, AtGrows
  <2>3. QED
    BY <1>1, <1>4, <2>2
<1>5. QED
  BY <1>2, <1>3, <1>4

LEMMA NextGroupStep ==
  ASSUME ImportInv, NextGroup
  PROVE  ImportInv'
<1>1. /\ lphase = "group" /\ cell \in DOMAIN table
      /\ count' = table[cell] /\ table' = [table EXCEPT ![cell] = 0] /\ cell' = cell + 1
      /\ lphase' = IF table[cell] # 0 THEN "images"
                   ELSE IF program.absolute THEN "calls" ELSE "done"
      /\ phase' = phase /\ program' = program /\ lmap' = lmap
      /\ slot' = slot /\ jump' = jump /\ images' = images
  BY DEF NextGroup
<1>2. /\ program \in Programs /\ phase = "linked" /\ Listed(lmap) /\ TableFrom(cell)
      /\ Filled(slot) /\ BetweenGroups /\ \A k \in DOMAIN images : images[k] \in DOMAIN libs
  BY <1>1 DEF ImportInv, LinkerInv, LoaderInv
<1>3. PICK last \in Nat \ {0} : last = Len(lmap) /\ DOMAIN lmap = 1 .. last
  BY <1>2, ListIs
<1>4. PICK n \in 1 .. last + 1 : n = slot /\ n \in Nat \ {0} /\ cell = At(n)
  BY <1>2, <1>3 DEF Filled, BetweenGroups
<1>5. PICK a \in Nat \ {0} : a = At(n) /\ cell = a
  BY <1>4, NextAt
<1>6. libs' = libs /\ \A m : /\ At(m)' = At(m) /\ (Headed(m)' <=> Headed(m))
                   /\ Group(m)' = Group(m) /\ Left(m)' = Left(m) /\ Address(m)' = Address(m)
  BY <1>1, Steady
<1>7. PICK s \in Seq(Nat) : s = table
  BY <1>2 DEF TableFrom
<1>8. /\ table' \in Seq(Nat) /\ Len(table') = Len(s)
      /\ \A j \in DOMAIN s : table'[j] = IF j = a THEN 0 ELSE s[j]
      /\ DOMAIN s = 1 .. Len(s) /\ Len(s) \in Nat
  <2>1. table' = [s EXCEPT ![a] = 0] /\ a \in DOMAIN s
    BY <1>1, <1>5, <1>7
  <2>2. QED
    BY <2>1
<1>9. CASE n = last + 1
  <2>1. table[cell] = 0
    BY <1>2, <1>3, <1>4, <1>9 DEF TableFrom
  <2>2. lphase' \in {"calls", "done"}
    BY <1>1, <2>1
  <2>3. LinkerInv'
    BY <1>1, <1>2, <2>2, Steady DEF LinkerInv
  <2>4. LoaderInv'
    BY <1>1, <1>2, <1>3, <1>4, <1>6, <1>9, <2>2, SteadyJump DEF LoaderInv
  <2>5. QED
    BY <2>3, <2>4 DEF ImportInv
<1>10. CASE n # last + 1
  <2>1. n \in 1 .. last /\ n \in DOMAIN lmap
    BY <1>3, <1>10
  <2>2. Headed(n)
    BY <1>2, <1>4, <2>1 DEF BetweenGroups
  <2>3. Counted(n)
    BY <1>2, <1>5, <2>1 DEF TableFrom
  <2>4. PICK c \in Nat \ {0} : c = Cardinality(Group(n)) /\ table[cell] = c
    BY <1>2, <1>4, <2>1, <2>2, <2>3, Groups DEF Counted
  <2>5. lphase' = "images" /\ count' = c
    BY <1>1, <2>4
  <2>6. PICK top \in Nat \ {0} : top = At(last + 1) /\ top = Len(s)
    <3>1. last + 1 \in Nat \ {0}
      OBVIOUS
    <3>2. At(last + 1) \in Nat \ {0}
      BY <3>1, NextAt
    <3>3. QED
      BY <1>2, <1>3, <1>7, <3>2 DEF TableFrom
  <2>7. ASSUME NEW m \in 1 .. last
        PROVE  Written(m)' /\ (At(m) >= a + 1 => Counted(m)')
    <3>1. m \in Nat \ {0} /\ m < last + 1 /\ last + 1 \in Nat \ {0}
      OBVIOUS
    <3>2. /\ At(m) \in 1 .. top - 1 /\ At(m + 1) - 1 \in 1 .. top - 1
          /\ Headed(m) => At(m) + 1 \in 1 .. top - 1
      BY <2>6, <3>1, CellsBefore
    <3>3. /\ At(m) \in DOMAIN s /\ At(m + 1) - 1 \in DOMAIN s
          /\ Headed(m) => At(m) + 1 \in DOMAIN s
      <4>1. \A k \in 1 .. top - 1 : k \in DOMAIN s
        BY <1>8, <2>6
      <4>2. QED
        BY <3>2, <4>1
    <3>4. /\ At(m + 1) - 1 # a
          /\ Headed(m) => At(m) + 1 # a
      BY <1>4, <1>5, <2>2, <3>1, OtherCells
    <3>5. /\ table'[At(m + 1) - 1] = table[At(m + 1) - 1]
          /\ Headed(m) => table'[At(m) + 1] = table[At(m) + 1]
      BY <1>7, <1>8, <3>3, <3>4
    <3>6. Written(m)
      BY <1>2, <1>3 DEF TableFrom
    <3>7. Written(m)'
      BY <1>1, <1>6, <3>5, <3>6, Unmoved DEF Written
    <3>8. ASSUME At(m) >= a + 1 PROVE Counted(m)'
      <4>1. PICK x \in Nat : x = At(m)
        BY <3>1, NextAt
      <4>2. x # a /\ x >= a
        BY <1>5, <3>8, <4>1
      <4>3. table'[At(m)] = table[At(m)]
        BY <1>7, <1>8, <3>3, <4>1, <4>2
      <4>4. Counted(m)
        BY <1>2, <1>3, <1>5, <4>1, <4>2 DEF TableFrom
      <4>5. QED
        BY <1>6, <4>3, <4>4 DEF Counted
    <3>9. QED
      BY <3>7, <3>8
  <2>8. table'[top] = 0
    <3>1. s[top] = 0
      BY <1>2, <1>3, <1>7, <2>6 DEF TableFrom
    <3>2. top \in DOMAIN s
      BY <1>8, <2>6
    <3>3. QED
      BY <1>8, <3>1, <3>2
  <2>9. TableFrom(cell)'
    <3>1. cell' = a + 1 /\ At(last + 1)' = top
      BY <1>1, <1>5, <1>6, <2>6
    <3>2. At(Len(lmap) + 1)' = top
      BY <1>1, <1>3, <3>1
    <3>3. Len(table') = top
      BY <1>8, <2>6
    <3>4. QED
      BY <1>1, <1>3, <1>6, <1>8, <2>7, <2>8, <3>1, <3>2, <3>3 DEF TableFrom
  <2>10. LinkerInv'
    BY <1>1, <1>2, <2>9, Steady DEF LinkerInv
  <2>11. AtLibrary'
    BY <1>1, <1>4, <1>5, <1>6, <2>1, <2>2, <2>4, <2>5 DEF AtLibrary
  <2>12. LoaderInv'
    BY <1>1, <1>2, <1>6, <2>5, <2>11, SteadyJump DEF LoaderInv
  <2>13. QED
    BY <2>10, <2>12 DEF ImportInv
<1>11. QED
  BY <1>9, <1>10

LEMMA NextImageStep ==
  ASSUME ImportInv, NextImage
  PROVE  ImportInv'
<1>1. /\ lphase = "images" /\ lphase' = "images"
      /\ phase' = phase /\ program' = program /\ lmap' = lmap /\ table' = table
      /\ slot' = slot /\ cell' = cell /\ count' = count /\ lib' = lib
      /\ jump' = jump /\ images' = images
  BY DEF NextImage, ivars
<1>2. /\ program \in Programs /\ phase = "linked" /\ Listed(lmap) /\ TableFrom(cell)
      /\ Filled(slot) /\ AtLibrary /\ \A k \in DOMAIN images : images[k] \in DOMAIN libs
  BY <1>1 DEF ImportInv, LinkerInv, LoaderInv
<1>3. LinkerInv'
  BY <1>1, <1>2, Steady, SteadyTable DEF LinkerInv
<1>4. AtLibrary'
  BY <1>1, <1>2, Steady DEF AtLibrary
<1>5. LoaderInv'
  BY <1>1, <1>2, <1>4, Steady, SteadyJump DEF LoaderInv
<1>6. QED
  BY <1>3, <1>5 DEF ImportInv

\* The first image with the hash is the library that was meant.
LEMMA FoundImageStep ==
  ASSUME ImportInv, FoundImage
  PROVE  ImportInv'
<1>1. /\ lphase = "images" /\ lphase' = "browse"
      /\ entry \in DOMAIN images /\ libs[images[entry]].hash = table[cell]
      /\ lib' = images[entry] /\ cell' = cell + 1
      /\ phase' = phase /\ program' = program /\ lmap' = lmap /\ table' = table
      /\ slot' = slot /\ count' = count
      /\ jump' = jump /\ images' = images
  BY DEF FoundImage, ImageFits, ivars
<1>2. /\ program \in Programs /\ phase = "linked" /\ Listed(lmap) /\ TableFrom(cell)
      /\ Filled(slot) /\ AtLibrary /\ \A k \in DOMAIN images : images[k] \in DOMAIN libs
  BY <1>1 DEF ImportInv, LinkerInv, LoaderInv
<1>3. PICK last \in Nat \ {0} : last = Len(lmap) /\ DOMAIN lmap = 1 .. last
  BY <1>2, ListIs
<1>4. PICK n \in 1 .. last : n = slot /\ n \in Nat \ {0} /\ Headed(n)
  BY <1>2, <1>3 DEF AtLibrary
<1>5. PICK a \in Nat \ {0} : a = At(n) /\ cell = a + 1 /\ At(n + 1) = a + 3
  <2>1. At(n) \in Nat \ {0} /\ At(n + 1) = At(n) + 3
    BY <1>4, NextAt
  <2>2. QED
    BY <1>2, <1>4, <2>1 DEF AtLibrary
<1>6. images[entry] = lmap[n].lib
  <2>1. table[cell] = libs[lmap[n].lib].hash
    BY <1>2, <1>3, <1>4, <1>5 DEF TableFrom, Written
  <2>2. Apart(lmap) /\ images[entry] \in DOMAIN libs
    BY <1>1, <1>2 DEF Listed
  <2>3. QED
    BY <1>1, <1>3, <2>1, <2>2 DEF Apart
<1>7. \A m : At(m)' = At(m) /\ Left(m)' = Left(m)
  BY <1>1, Steady
<1>8. LinkerInv'
  <2>1. cell \in Nat /\ cell + 1 \in Nat /\ cell <= cell + 1
    BY <1>5
  <2>2. TableFrom(cell + 1)
    BY <1>2, <2>1, TableLater
  <2>3. PICK c : c = cell + 1
    OBVIOUS
  <2>4. TableFrom(c)'
    BY <1>1, <2>2, <2>3, SteadyTable
  <2>5. TableFrom(cell)'
    BY <1>1, <2>3, <2>4
  <2>6. QED
    BY <1>1, <1>2, <2>5, Steady DEF LinkerInv
<1>9. InGroup'
  <2>1. cell' = At(n + 1) - 1
    BY <1>1, <1>5
  <2>2. count = Left(n)
    <3>1. StartsGroup(n)
      BY <1>4 DEF Headed
    <3>2. QED
      BY <1>2, <1>3, <1>4, <3>1, Groups DEF AtLibrary
  <2>3. QED
    BY <1>1, <1>3, <1>4, <1>6, <1>7, <2>1, <2>2 DEF InGroup
<1>10. LoaderInv'
  BY <1>1, <1>2, <1>9, Steady, SteadyJump DEF LoaderInv
<1>11. QED
  BY <1>8, <1>10 DEF ImportInv

LEMMA LoaderSteps ==
  ASSUME ImportInv, LNext
  PROVE  ImportInv'
BY StartStep, BrowseStep, NextSymbolStep, FoundSymbolStep, NextGroupStep, NextImageStep,
   FoundImageStep DEF LNext

\* Restoring the code leaves the jump table alone.
LEMMA RestoreSteps ==
  ASSUME ImportInv, CLoad
  PROVE  ImportInv'
<1>1. /\ lphase \in {"calls", "restore"} /\ lphase' \in {"restore", "done"}
      /\ phase' = phase /\ program' = program /\ lmap' = lmap
      /\ slot' = slot /\ jump' = jump /\ images' = images
  BY DEF CLoad, StartRestore, RestoreCall, ivars
<1>2. /\ program \in Programs /\ phase = "linked" /\ Listed(lmap) /\ slot = Len(lmap) + 1
      /\ Filled(slot) /\ \A k \in DOMAIN images : images[k] \in DOMAIN libs
  BY <1>1 DEF ImportInv, LinkerInv, LoaderInv
<1>3. LinkerInv'
  BY <1>1, <1>2, Steady DEF LinkerInv
<1>4. LoaderInv'
  BY <1>1, <1>2, Steady, SteadyJump DEF LoaderInv
<1>5. QED
  BY <1>3, <1>4 DEF ImportInv

LEMMA ImportNext == ImportInv /\ [Next]_vars => ImportInv'
<1> SUFFICES ASSUME ImportInv, [Next]_vars PROVE ImportInv'
  OBVIOUS
<1>1. CASE Import
  BY <1>1, ImportSteps DEF Import
<1>2. CASE Link
  <2>1. UNCHANGED ivars /\ UNCHANGED lvars
    <3>1. CASE BNext /\ UNCHANGED <<lvars, cvars>>
      BY <3>1 DEF BNext, Rest, Collect, Place, TooSmallArea, Placed, Relocate, CannotRelocate,
                  Relocated, Pack, PackNothing, Pad
    <3>2. CASE CLink
      BY <3>2 DEF CLink, FindCall, TranslateCalls, CannotTranslate
    <3>3. QED
      BY <1>2, <3>1, <3>2 DEF Link
  <2>2. QED
    BY <2>1, OtherSteps
<1>3. CASE Load
  BY <1>3, LoaderSteps, RestoreSteps DEF Load
<1>4. CASE UNCHANGED vars
  BY <1>4, OtherSteps DEF vars
<1>5. QED
  BY <1>1, <1>2, <1>3, <1>4 DEF Next, Terminating

\* A slot that is found by its name has an address of that name.
LEMMA BoundAtLast == ImportInv => BoundRight
<1> SUFFICES ASSUME ImportInv, lphase = "done", NEW k \in DOMAIN Symbols, Imported(Symbols[k])
             PROVE  jump[SlotOf(Symbols[k].name)] \in
                      {Func(e).addr + libs[e.lib].slide :
                         e \in Matches([Symbols[k] EXCEPT !.isdyld = (Symbols[k].name = InfosName)])}
  BY DEF BoundRight
<1> DEFINE s == [Symbols[k] EXCEPT !.isdyld = (Symbols[k].name = InfosName)]
<1>1. /\ program \in Programs /\ phase = "linked" /\ Listed(lmap)
      /\ Filled(slot) /\ slot = Len(lmap) + 1
  BY DEF ImportInv, LinkerInv, LoaderInv
<1>2. PICK last \in Nat \ {0} :
        /\ last = Len(lmap) /\ DOMAIN lmap = 1 .. last
        /\ \A n \in 1 .. last : lmap[n] \in Entries /\ Sound(lmap[n])
  BY <1>1, ListIs
<1>3. PICK name : name = Symbols[k].name
  OBVIOUS
<1>4. /\ Slots(name) \in SUBSET Nat /\ Slots(name) # {}
      /\ \A n : n \in Slots(name) <=> n \in 1 .. last /\ Func(lmap[n]).name = name
  <2>1. Named(lmap, name)
    BY <1>1, <1>3 DEF Listed
  <2>2. QED
    BY <1>2, <2>1 DEF Named, Slots
<1>5. PICK n \in 1 .. last : n = SlotOf(name) /\ n \in Slots(name) /\ \A m \in Slots(name) : n <= m
  <2>1. Min(Slots(name)) \in Slots(name) /\ \A m \in Slots(name) : Min(Slots(name)) <= m
    BY <1>4, MinIs
  <2>2. QED
    BY <1>4, <2>1 DEF SlotOf
<1>6. jump[n] = Func(lmap[n]).addr + libs[lmap[n].lib].slide
  <2>1. n < last + 1
    OBVIOUS
  <2>2. QED
    BY <1>1, <1>2, <2>1 DEF Filled, Address
<1>7. isdyld(lmap[n].lib) <=> name = InfosName
  <2>1. isdyld(lmap[n].lib) => name = InfosName
    BY <1>2, <1>4, <1>5 DEF Sound
  <2>2. ASSUME name = InfosName PROVE isdyld(lmap[n].lib)
    <3>1. 1 \in 1 .. last /\ isdyld(lmap[1].lib)
      BY <1>1, <1>2, FirstIsDyld DEF isdyld
    <3>2. 1 \in Slots(name)
      BY <1>2, <1>4, <2>2, <3>1 DEF Sound
    <3>3. n = 1
      BY <1>5, <3>2
    <3>4. QED
      BY <3>1, <3>3
  <2>3. QED
    BY <2>1, <2>2
<1>8. lmap[n] \in Matches(s)
  <2>1. s.name = name /\ s.isdyld = (name = InfosName)
    BY <1>3, SymbolFields
  <2>2. /\ lmap[n] \in Entries /\ Func(lmap[n]).name = name /\ Func(lmap[n]).addr # 0
    BY <1>2, <1>4, <1>5 DEF Sound
  <2>3. isdyld(lmap[n].lib) = (name = InfosName)
    BY <1>7 DEF isdyld
  <2> HIDE DEF s
  <2>4. QED
    BY <2>1, <2>2, <2>3 DEF Matches
<1>9. QED
  BY <1>3, <1>5, <1>6, <1>8

-----------------------------------------------------------------------------
(* The libraries that bring in another.                                    *)

Nameable == {j \in DOMAIN libs : libs[j].name_len > 0}

\* Whom to name for d.
Namers(d) == {j \in Nameable : d \in Loaded({j})}

LEMMA LibrariesAre ==
  ASSUME program \in Programs
  PROVE  /\ IsFiniteSet(DOMAIN libs) /\ DOMAIN libs \in SUBSET Nat
         /\ \A j \in DOMAIN libs : libs[j].name_len \in Nat /\ libs[j].childs \in SUBSET (DOMAIN libs)
<1>1. /\ IsFiniteSet(DOMAIN libs) /\ DOMAIN libs = 0 .. Cardinality(DOMAIN libs) - 1
      /\ \A j \in DOMAIN libs : libs[j].name_len \in Nat /\ libs[j].childs \subseteq DOMAIN libs \ {0}
  BY ProgramAssumption, Zenon DEF libs
<1>2. Cardinality(DOMAIN libs) \in Nat
  BY <1>1, FS_CardinalityType
<1>3. QED
  BY <1>1, <1>2

LEMMA LoadsItself ==
  ASSUME NEW j \in DOMAIN libs
  PROVE  j \in Loaded({j})
BY DEF Loaded

\* A library that needs one which loads d loads d.
LEMMA ParentLoads ==
  ASSUME NEW j \in DOMAIN libs, NEW k \in Parents(j), NEW d \in Loaded({j})
  PROVE  k \in DOMAIN libs /\ d \in Loaded({k})
<1>1. k \in DOMAIN libs /\ j \in libs[k].childs /\ d \in DOMAIN libs
  BY DEF Parents, Loaded
<1>2. ASSUME NEW s \in SUBSET DOMAIN libs, {k} \subseteq s, \A m \in s : libs[m].childs \subseteq s
      PROVE  d \in s
  <2>1. {j} \subseteq s
    BY <1>1, <1>2
  <2>2. QED
    BY <1>2, <2>1 DEF Loaded
<1>3. QED
  BY <1>1, <1>2 DEF Loaded

\* Libraries among which are d and all parents of theirs are all that load d.
LEMMA AllLoaders ==
  ASSUME program \in Programs, NEW U \in SUBSET DOMAIN libs, NEW d \in U, \A j \in U : Parents(j) \subseteq U,
         NEW k \in DOMAIN libs, d \in Loaded({k})
  PROVE  k \in U
<1> SUFFICES ASSUME k \notin U PROVE FALSE
  OBVIOUS
<1> DEFINE s == {m \in DOMAIN libs : m \notin U}
<1>1. PICK S : S = s
  OBVIOUS
<1>2. {k} \subseteq S /\ S \in SUBSET DOMAIN libs /\ d \notin S
  BY <1>1
<1>3. \E m \in S : ~(libs[m].childs \subseteq S)
  <2> HIDE DEF s
  <2>1. QED
    BY <1>2 DEF Loaded
<1>4. QED
  BY <1>1, <1>3, LibrariesAre DEF Parents

\* More libraries load more, and what several load one of them loads.
LEMMA LoadsMore ==
  ASSUME NEW j, NEW s, j \in s, NEW d \in Loaded({j})
  PROVE  d \in Loaded(s)
BY DEF Loaded

LEMMA OneLoads ==
  ASSUME program \in Programs, NEW s \in SUBSET DOMAIN libs, NEW d \in Loaded(s)
  PROVE  \E j \in s : d \in Loaded({j})
<1> DEFINE U == {k \in DOMAIN libs : \E j \in s : k \in Loaded({j})}
<1>1. PICK V : V = U
  OBVIOUS
<1>2. s \subseteq V
  BY <1>1, LoadsItself
<1>3. ASSUME NEW m \in V PROVE libs[m].childs \subseteq V
  <2> SUFFICES ASSUME NEW c \in libs[m].childs PROVE c \in V
    OBVIOUS
  <2>1. PICK j \in s : m \in Loaded({j})
    BY <1>1
  <2>2. m \in DOMAIN libs /\ c \in DOMAIN libs
    BY <1>1, LibrariesAre
  <2>3. c \in Loaded({j})
    BY <2>1, <2>2 DEF Loaded
  <2>4. QED
    BY <1>1, <2>2, <2>3
<1>4. d \in V
  <2>1. V \in SUBSET DOMAIN libs
    BY <1>1
  <2> HIDE DEF U
  <2>2. QED
    BY <1>2, <1>3, <2>1 DEF Loaded
<1>5. QED
  BY <1>1, <1>4

-----------------------------------------------------------------------------
(* The length of the names.                                                *)

NameLengths(F) ==
  /\ SumsOver(F, [j \in DOMAIN libs |-> libs[j].name_len], DOMAIN libs)
  /\ \A s \in SUBSET DOMAIN libs : FoldSet(LAMBDA j, sum : sum + libs[j].name_len, 0, s) = F[s]
  /\ \A s \in SUBSET DOMAIN libs : F[s] \in Nat
  /\ \A s, t \in SUBSET DOMAIN libs : s \subseteq t => F[s] <= F[t]

LEMMA FoldIsSum ==
  ASSUME program \in Programs, NEW F, NEW f, f = [j \in DOMAIN libs |-> libs[j].name_len],
         SumsOver(F, f, DOMAIN libs), NEW D \in SUBSET DOMAIN libs
  PROVE  FoldSet(LAMBDA j, sum : sum + libs[j].name_len, 0, D) = F[D]
<1> DEFINE Folds(G) == G = [S \in SUBSET D |->
                              IF S = {} THEN 0
                              ELSE G[S \ {CHOOSE x \in S : TRUE}] + libs[CHOOSE x \in S : TRUE].name_len]
           G == CHOOSE G : Folds(G)
<1>1. FoldSet(LAMBDA j, sum : sum + libs[j].name_len, 0, D) = G[D]
  BY DEF FoldSet, MapThenFoldSet
<1>2. /\ F[{}] = 0 /\ \A S \in SUBSET D : F[S] \in Int
      /\ \A S \in SUBSET D : \A x \in S : F[S] = F[S \ {x}] + libs[x].name_len
  <2>1. ASSUME NEW S \in SUBSET D, NEW x \in S PROVE F[S] = F[S \ {x}] + libs[x].name_len
    <3>1. S \in SUBSET DOMAIN libs /\ x \in DOMAIN libs
      OBVIOUS
    <3>2. F[S] = f[x] + F[S \ {x}] /\ F[S \ {x}] \in Int
      BY <3>1, SumParts, SMTT(20)
    <3>3. f[x] = libs[x].name_len /\ f[x] \in Int
      BY <3>1, LibrariesAre
    <3>4. QED
      BY <3>2, <3>3
  <2>2. F[{}] = 0 /\ \A S \in SUBSET D : F[S] \in Int
    BY DEF SumsOver
  <2>3. QED
    BY <2>1, <2>2
<1>3. Folds([S \in SUBSET D |-> F[S]])
  <2>1. \A S \in SUBSET D : S # {} =>
          F[S] = F[S \ {CHOOSE x \in S : TRUE}] + libs[CHOOSE x \in S : TRUE].name_len
    BY <1>2
  <2>2. QED
    BY <1>2, <2>1
<1>4. Folds(G)
  BY <1>3, Zenon
<1>5. /\ G[{}] = 0
      /\ \A S \in SUBSET D : S # {} => \E x \in S : G[S] = G[S \ {x}] + libs[x].name_len
  <2>1. G[{}] = 0
    BY <1>4
  <2>2. ASSUME NEW S \in SUBSET D, S # {} PROVE \E x \in S : G[S] = G[S \ {x}] + libs[x].name_len
    <3>1. G[S] = G[S \ {CHOOSE x \in S : TRUE}] + libs[CHOOSE x \in S : TRUE].name_len
      BY <1>4, <2>2
    <3>2. (CHOOSE x \in S : TRUE) \in S
      BY <2>2
    <3>3. QED
      BY <3>1, <3>2
  <2>3. QED
    BY <2>1, <2>2
<1> HIDE DEF G
<1> DEFINE N == {n \in Nat : \A S \in SUBSET D : Cardinality(S) = n => G[S] = F[S]}
<1>6. \A S \in SUBSET D : IsFiniteSet(S) /\ Cardinality(S) \in Nat
  BY LibrariesAre, FS_Subset, FS_CardinalityType
<1>7. 0 \in N
  <2>1. \A S \in SUBSET D : Cardinality(S) = 0 => S = {}
    BY <1>6, FS_EmptySet
  <2>2. QED
    BY <1>2, <1>5, <2>1
<1>8. ASSUME NEW n \in N PROVE n + 1 \in N
  <2> SUFFICES ASSUME NEW S \in SUBSET D, Cardinality(S) = n + 1 PROVE G[S] = F[S]
    OBVIOUS
  <2>1. n \in Nat /\ n + 1 # 0
    OBVIOUS
  <2>2. S # {}
    BY <2>1, FS_EmptySet
  <2>3. PICK x \in S : G[S] = G[S \ {x}] + libs[x].name_len
    BY <1>5, <2>2
  <2>4. Cardinality(S \ {x}) = n /\ S \ {x} \in SUBSET D
    <3>1. IsFiniteSet(S) /\ x \in S
      BY <1>6, <2>3
    <3>2. Cardinality(S \ {x}) = Cardinality(S) - 1
      BY <3>1, FS_RemoveElement
    <3>3. QED
      BY <2>1, <3>2
  <2>5. G[S \ {x}] = F[S \ {x}]
    BY <2>4
  <2>6. QED
    BY <1>2, <2>3, <2>5
<1> HIDE DEF N
<1>9. N = Nat
  <2>1. N \in SUBSET Nat
    BY DEF N
  <2>2. QED
    BY <1>7, <1>8, <2>1, SetInduction
<1>10. G[D] = F[D]
  BY <1>6, <1>9 DEF N
<1>11. QED
  BY <1>1, <1>10

LEMMA LengthsExist ==
  ASSUME program \in Programs
  PROVE  \E F : NameLengths(F)
<1>1. PICK f : f = [j \in DOMAIN libs |-> libs[j].name_len]
  OBVIOUS
<1>2. PICK D : D = DOMAIN libs /\ IsFiniteSet(D)
  BY LibrariesAre
<1>3. f \in [D -> Nat] /\ f \in [D -> Int]
  BY <1>1, <1>2, LibrariesAre
<1>4. PICK F : SumsOver(F, f, D)
  BY <1>2, <1>3, SumsExist
<1>5. \A s \in SUBSET D : F[s] \in Nat
  BY <1>2, <1>3, <1>4, SumNatural
<1>6. \A s \in SUBSET DOMAIN libs : FoldSet(LAMBDA j, sum : sum + libs[j].name_len, 0, s) = F[s]
  BY <1>1, <1>2, <1>4, FoldIsSum
<1>7. ASSUME NEW s \in SUBSET D PROVE \A t \in SUBSET D : s \subseteq t => F[s] <= F[t]
  <2> DEFINE T == {r \in SUBSET D : F[s] <= F[s \cup r]}
  <2>1. {} \in T
    <3>1. F[s] \in Nat /\ s \cup {} = s
      BY <1>5
    <3>2. QED
      BY <3>1
  <2>2. ASSUME NEW r \in T, NEW x \in D \ r PROVE r \cup {x} \in T
    <3>1. r \in SUBSET D /\ F[s] <= F[s \cup r] /\ s \cup r \in SUBSET D
      OBVIOUS
    <3>2. CASE x \in s
      <4>1. s \cup (r \cup {x}) = s \cup r
        BY <3>2
      <4>2. QED
        BY <3>1, <4>1
    <3>3. CASE x \notin s
      <4>1. x \in D \ (s \cup r) /\ s \cup (r \cup {x}) = (s \cup r) \cup {x}
        BY <3>3
      <4>2. F[(s \cup r) \cup {x}] = f[x] + F[s \cup r]
        BY <1>4, <3>1, <4>1, SumParts
      <4>3. f[x] \in Nat /\ F[s] \in Nat /\ F[s \cup r] \in Nat
        BY <1>3, <1>5, <3>1
      <4>4. PICK a \in Nat, b \in Nat, y \in Nat : a = F[s] /\ b = F[s \cup r] /\ y = f[x]
        BY <4>3
      <4>5. F[s \cup (r \cup {x})] = y + b
        BY <4>1, <4>2, <4>4
      <4>6. a <= b
        BY <3>1, <4>4
      <4>7. a <= y + b
        BY <4>6
      <4>8. F[s] <= F[s \cup (r \cup {x})]
        BY <4>4, <4>5, <4>7
      <4>9. QED
        BY <3>1, <4>8
    <3>4. QED
      BY <3>2, <3>3
  <2>3. T \in SUBSET (SUBSET D)
    OBVIOUS
  <2> HIDE DEF T
  <2>4. T = SUBSET D
    BY <1>2, <2>1, <2>2, <2>3, SubsetInduction
  <2>5. \A r \in SUBSET D : F[s] <= F[s \cup r]
    BY <2>4 DEF T
  <2>6. \A t \in SUBSET D : s \subseteq t => s \cup t = t
    OBVIOUS
  <2>7. QED
    BY <2>5, <2>6
<1>8. QED
  BY <1>1, <1>2, <1>4, <1>5, <1>6, <1>7 DEF NameLengths

-----------------------------------------------------------------------------
(* The combinations.                                                       *)

Combs == {c \in [DOMAIN depmap -> Nat] : \A d \in DOMAIN depmap : c[d] \in DOMAIN depmap[d]}

\* What find_named_parents gives: libraries to choose from, for every library.
Selectable == depmap \in Seq(Seq(DOMAIN libs)) /\ \A d \in DOMAIN depmap : depmap[d] # <<>>

\* c was tried before e.
Earlier(c, e) ==
  \E d \in DOMAIN depmap : c[d] < e[d] /\ \A n \in DOMAIN depmap : n > d => c[n] = e[n]

LEMMA SelectableAre ==
  ASSUME Selectable
  PROVE  \E L \in Nat : /\ DOMAIN depmap = 1 .. L /\ L = Len(depmap)
                        /\ \A d \in 1 .. L : /\ Len(depmap[d]) \in Nat \ {0}
                                             /\ DOMAIN depmap[d] = 1 .. Len(depmap[d])
                                             /\ depmap[d] \in Seq(DOMAIN libs)
<1>1. PICK T : T = Seq(DOMAIN libs)
  OBVIOUS
<1>2. depmap \in Seq(T)
  BY <1>1 DEF Selectable
<1>3. Len(depmap) \in Nat /\ DOMAIN depmap = 1 .. Len(depmap) /\ \A d \in 1 .. Len(depmap) : depmap[d] \in T
  BY <1>2
<1>4. ASSUME NEW d \in 1 .. Len(depmap)
      PROVE  /\ Len(depmap[d]) \in Nat \ {0} /\ DOMAIN depmap[d] = 1 .. Len(depmap[d])
             /\ depmap[d] \in Seq(DOMAIN libs)
  <2>1. PICK q \in Seq(DOMAIN libs) : q = depmap[d] /\ q # <<>>
    BY <1>1, <1>3 DEF Selectable
  <2>2. QED
    BY <2>1
<1>5. QED
  BY <1>3, <1>4

LEMMA CombsAre ==
  ASSUME Selectable, NEW c \in Combs
  PROVE  /\ DOMAIN c = DOMAIN depmap
         /\ \A d \in DOMAIN depmap : c[d] \in 1 .. Len(depmap[d]) /\ c[d] \in Nat /\ Len(depmap[d]) \in Nat
BY SelectableAre DEF Combs

\* Behind digits that are as large as they get nothing agrees on the others.
LEMMA NothingBehind ==
  ASSUME Selectable, NEW c \in Combs, NEW e \in Combs, NEW j \in Nat,
         \A n \in DOMAIN depmap : n < j => c[n] = Len(depmap[n]),
         \A n \in DOMAIN depmap : n >= j => e[n] = c[n]
  PROVE  Earlier(e, c) \/ e = c
<1> SUFFICES ASSUME e # c PROVE Earlier(e, c)
  OBVIOUS
<1>1. PICK L \in Nat : DOMAIN depmap = 1 .. L
  BY SelectableAre
<1>2. PICK S : S = {n \in 1 .. L : e[n] # c[n]}
  OBVIOUS
<1>3. S # {}
  <2>1. e \in [1 .. L -> Nat] /\ c \in [1 .. L -> Nat]
    BY <1>1 DEF Combs
  <2>2. QED
    BY <1>2, <2>1
<1>4. PICK k : k \in S /\ \A n \in S : n <= k
  <2>1. S \in SUBSET (0 .. L)
    BY <1>2
  <2>2. QED
    BY <1>3, <2>1, MaxIs
<1>5. k \in 1 .. L /\ e[k] # c[k] /\ k < j
  BY <1>1, <1>2, <1>4
<1>6. e[k] < c[k]
  <2>1. c[k] = Len(depmap[k]) /\ e[k] \in 1 .. Len(depmap[k]) /\ Len(depmap[k]) \in Nat
    BY <1>1, <1>5, CombsAre
  <2>2. QED
    BY <1>5, <2>1
<1>7. \A n \in 1 .. L : n > k => e[n] = c[n]
  BY <1>2, <1>4, <1>5
<1>8. QED
  BY <1>1, <1>5, <1>6, <1>7 DEF Earlier

LEMMA MovingIs ==
  ASSUME Selectable, NEW c \in Combs, NEW M, M = {d \in DOMAIN c : c[d] # Len(depmap[d])}
  PROVE  /\ M = {} => NextCombs(c) = <<>>
         /\ M # {} => /\ NextCombs(c) # <<>>
                      /\ \E j \in DOMAIN depmap :
                           /\ j \in Nat /\ c[j] # Len(depmap[j])
                           /\ \A n \in DOMAIN depmap : n < j => c[n] = Len(depmap[n])
                           /\ NextCombs(c) = [d \in DOMAIN depmap |-> IF d < j THEN 1
                                                                      ELSE IF d = j THEN c[d] + 1 ELSE c[d]]
<1>1. PICK L \in Nat : DOMAIN depmap = 1 .. L
  BY SelectableAre
<1>2. DOMAIN c = DOMAIN depmap
  BY CombsAre
<1>3. CASE M = {}
  BY <1>3 DEF NextCombs
<1>4. CASE M # {}
  <2>1. M \in SUBSET Nat
    BY <1>1, <1>2
  <2>2. PICK j : j = Min(M) /\ j \in M /\ \A y \in M : j <= y
    BY <1>4, <2>1, MinIs
  <2>3. j \in DOMAIN depmap /\ j \in Nat /\ c[j] # Len(depmap[j])
    BY <1>1, <1>2, <2>2
  <2>4. ASSUME NEW n \in DOMAIN depmap, n < j PROVE c[n] = Len(depmap[n])
    <3>1. n \in Nat /\ ~(j <= n)
      BY <1>1, <2>3, <2>4
    <3>2. n \notin M
      BY <2>2, <3>1
    <3>3. QED
      BY <1>2, <3>2
  <2>5. PICK e : e = [d \in DOMAIN depmap |-> IF d < j THEN 1 ELSE IF d = j THEN c[d] + 1 ELSE c[d]]
    OBVIOUS
  <2>6. NextCombs(c) = e
    BY <1>2, <1>4, <2>2, <2>5 DEF NextCombs
  <2>7. e # <<>>
    <3>1. j \in DOMAIN e
      BY <2>3, <2>5
    <3>2. QED
      BY <3>1
  <2>8. QED
    BY <1>4, <2>3, <2>4, <2>5, <2>6, <2>7
<1>5. QED
  BY <1>3, <1>4

\* The next combination is one, and what comes before it was tried.
LEMMA OdometerNext ==
  ASSUME Selectable, NEW c \in Combs, NextCombs(c) # <<>>
  PROVE  /\ NextCombs(c) \in Combs
         /\ \A e \in Combs : Earlier(e, NextCombs(c)) => Earlier(e, c) \/ e = c
<1>1. PICK M : M = {d \in DOMAIN c : c[d] # Len(depmap[d])}
  OBVIOUS
<1>2. M # {}
  BY <1>1, MovingIs
<1>3. PICK j \in DOMAIN depmap :
           /\ j \in Nat /\ c[j] # Len(depmap[j])
           /\ \A n \in DOMAIN depmap : n < j => c[n] = Len(depmap[n])
           /\ NextCombs(c) = [d \in DOMAIN depmap |-> IF d < j THEN 1
                                                      ELSE IF d = j THEN c[d] + 1 ELSE c[d]]
  BY <1>1, <1>2, MovingIs
<1>4. PICK g : g = NextCombs(c)
  OBVIOUS
<1>5. PICK L \in Nat : DOMAIN depmap = 1 .. L
  BY SelectableAre
<1>6. \A d \in 1 .. L : c[d] \in 1 .. Len(depmap[d]) /\ c[d] \in Nat /\ Len(depmap[d]) \in Nat
  BY <1>5, CombsAre
<1>7. /\ DOMAIN g = 1 .. L /\ g \in [1 .. L -> Nat]
      /\ \A d \in 1 .. L : /\ d < j => g[d] = 1
                           /\ d = j => g[d] = c[d] + 1
                           /\ d > j => g[d] = c[d]
  BY <1>3, <1>4, <1>5, <1>6
<1>8. g \in Combs
  <2>1. ASSUME NEW d \in 1 .. L PROVE g[d] \in DOMAIN depmap[d]
    <3>1. PICK a \in Nat, b \in Nat : a = c[d] /\ b = Len(depmap[d]) /\ a \in 1 .. b
      BY <1>6
    <3>2. DOMAIN depmap[d] = 1 .. b
      BY <1>5, <3>1, SelectableAre
    <3>3. CASE d < j
      BY <1>7, <3>1, <3>2, <3>3
    <3>4. CASE d = j
      BY <1>3, <1>7, <3>1, <3>2, <3>4
    <3>5. CASE d > j
      BY <1>7, <3>1, <3>2, <3>5
    <3>6. QED
      BY <1>3, <3>3, <3>4, <3>5
  <2>2. QED
    BY <1>5, <1>7, <2>1 DEF Combs
<1>9. ASSUME NEW e \in Combs, Earlier(e, g) PROVE Earlier(e, c) \/ e = c
  <2>1. PICK k \in 1 .. L : e[k] < g[k] /\ \A n \in 1 .. L : n > k => e[n] = g[n]
    BY <1>5, <1>9 DEF Earlier
  <2>2. e[k] \in Nat /\ e[k] >= 1 /\ c[k] \in Nat
    BY <1>5, <1>6, CombsAre
  <2>3. k >= j
    BY <1>3, <1>7, <2>1, <2>2
  <2>4. \A n \in 1 .. L : n > k => e[n] = c[n]
    BY <1>3, <1>7, <2>1, <2>3
  <2>5. CASE e[k] < c[k]
    BY <1>5, <2>4, <2>5 DEF Earlier
  <2>6. CASE ~(e[k] < c[k])
    <3>1. k = j /\ e[k] = c[k]
      BY <1>3, <1>7, <2>1, <2>2, <2>3, <2>6
    <3>2. \A n \in DOMAIN depmap : n >= j => e[n] = c[n]
      BY <1>3, <1>5, <2>4, <3>1
    <3>3. QED
      BY <1>3, <3>2, NothingBehind
  <2>7. QED
    BY <2>5, <2>6
<1>10. QED
  BY <1>4, <1>8, <1>9

\* After the last combination all were tried.
LEMMA OdometerEnd ==
  ASSUME Selectable, NEW c \in Combs, NextCombs(c) = <<>>, NEW e \in Combs
  PROVE  Earlier(e, c) \/ e = c
<1>1. PICK L \in Nat : DOMAIN depmap = 1 .. L
  BY SelectableAre
<1>2. \A n \in DOMAIN depmap : c[n] = Len(depmap[n])
  <2>1. DOMAIN c = DOMAIN depmap
    BY CombsAre
  <2>2. {d \in DOMAIN c : c[d] # Len(depmap[d])} = {}
    BY MovingIs
  <2>3. QED
    BY <2>1, <2>2
<1>3. \A n \in DOMAIN depmap : ~(n >= L + 1)
  BY <1>1
<1>4. L + 1 \in Nat
  OBVIOUS
<1>5. QED
  BY <1>2, <1>3, <1>4, NothingBehind

LEMMA OdometerStart ==
  ASSUME Selectable, NEW c, c = [d \in DOMAIN depmap |-> 1]
  PROVE  c \in Combs /\ \A e \in Combs : ~Earlier(e, c)
<1>1. PICK L \in Nat : /\ DOMAIN depmap = 1 .. L
                       /\ \A d \in 1 .. L : Len(depmap[d]) \in Nat \ {0} /\ DOMAIN depmap[d] = 1 .. Len(depmap[d])
  BY SelectableAre
<1>2. c \in [1 .. L -> Nat] /\ \A d \in 1 .. L : c[d] = 1
  BY <1>1
<1>3. c \in Combs
  <2>1. \A d \in 1 .. L : c[d] \in DOMAIN depmap[d]
    BY <1>1, <1>2
  <2>2. QED
    BY <1>1, <1>2, <2>1 DEF Combs
<1>4. ASSUME NEW e \in Combs, Earlier(e, c) PROVE FALSE
  <2>1. PICK d \in 1 .. L : e[d] < c[d]
    BY <1>1, <1>4 DEF Earlier
  <2>2. e[d] \in Nat /\ e[d] >= 1 /\ c[d] = 1
    BY <1>1, <1>2, CombsAre
  <2>3. QED
    BY <2>1, <2>2
<1>5. QED
  BY <1>3, <1>4

-----------------------------------------------------------------------------
(* map_libs finds the shortest names.                                      *)

\* The libraries that the first k functions come from.
Needed(k) == {lmap[n].lib : n \in 1 .. k} \ {0}

\* dep has the libraries to choose from for every library needed by the first k.
Maps(dep, k) ==
  /\ dep \in Seq(Seq(DOMAIN libs)) /\ \A m \in DOMAIN dep : dep[m] # <<>>
  /\ \A m \in DOMAIN dep : \E d \in Needed(k) : Range(dep[m]) = Namers(d)
  /\ \A d \in Needed(k) : \E m \in DOMAIN dep : Range(dep[m]) = Namers(d)

\* In find_named_parents: all that is used loads the library at hand, and what
\* is no longer looked at has been asked for all its parents.
Walking ==
  /\ next \in DOMAIN lmap /\ IsDependency(next)
  /\ used \in SUBSET DOMAIN libs /\ lmap[next].lib \in used
  /\ path \in Seq(used)
  /\ \A x \in used : x \in Range(path) \/ Parents(x) \subseteq used
  /\ \A x \in used : lmap[next].lib \in Loaded({x})
  /\ parents \in Seq(DOMAIN libs) /\ Range(parents) = used \cap Nameable

Finding ==
  /\ best_len = -1 /\ Maps(depmap, next - 1)
  /\ path = <<>> => parents = <<>> /\ used = {} /\ next \in 1 .. Len(lmap) + 1
  /\ path # <<>> => Walking

\* The best combination of those before combs.
Tried ==
  /\ combs \in Combs /\ best_combs \in Combs
  /\ best_len = -1 => \A c \in Combs : ~Earlier(c, combs)
  /\ best_len # -1 => /\ best_len = NameLength(best_combs)
                      /\ \A c \in Combs : Earlier(c, combs) => best_len <= NameLength(c)

BestFound ==
  best_combs \in Combs /\ \A c \in Combs : NameLength(best_combs) <= NameLength(c)

MapInv ==
  /\ phase = "resolve" =>
       path = <<>> /\ parents = <<>> /\ depmap = <<>> /\ used = {} /\ best_len = -1
  /\ phase = "parents" => Finding
  /\ phase \in {"choose", "mark", "write", "linked"} => Maps(depmap, Len(lmap))
  /\ phase = "choose" => Tried
  /\ phase \in {"mark", "write", "linked"} => BestFound
  /\ phase \in {"write", "linked"} => used = Chosen(best_combs)

LEMMA SteadyMap ==
  ASSUME program' = program, lmap' = lmap
  PROVE  /\ libs' = libs /\ Nameable' = Nameable
         /\ \A j : Parents(j)' = Parents(j)
         /\ \A s : Loaded(s)' = Loaded(s)
         /\ \A d : Namers(d)' = Namers(d)
         /\ \A k : Needed(k)' = Needed(k)
         /\ \A n : IsDependency(n)' <=> IsDependency(n)
         /\ \A dep, k : Maps(dep, k)' <=> Maps(dep, k)
<1>1. libs' = libs
  BY DEF libs
<1>2. Nameable' = Nameable
  BY <1>1 DEF Nameable
<1>3. \A j : Parents(j)' = Parents(j)
  BY <1>1 DEF Parents
<1>4. \A s : Loaded(s)' = Loaded(s)
  BY <1>1 DEF Loaded
<1>5. \A d : Namers(d)' = Namers(d)
  BY <1>2, <1>4 DEF Namers
<1>6. \A k : Needed(k)' = Needed(k)
  BY DEF Needed
<1>7. \A n : IsDependency(n)' <=> IsDependency(n)
  BY DEF IsDependency, isdyld
<1>8. \A dep, k : Maps(dep, k)' <=> Maps(dep, k)
  BY <1>1, <1>5, <1>6 DEF Maps
<1>9. QED
  BY <1>1, <1>2, <1>3, <1>4, <1>5, <1>6, <1>7, <1>8

LEMMA SteadyCombs ==
  ASSUME program' = program, depmap' = depmap
  PROVE  /\ Combs' = Combs
         /\ \A c : Chosen(c)' = Chosen(c)
         /\ \A c : NameLength(c)' = NameLength(c)
         /\ \A c, e : Earlier(c, e)' <=> Earlier(c, e)
<1>1. libs' = libs
  BY DEF libs
<1>2. Combs' = Combs
  BY DEF Combs
<1>3. \A c : Chosen(c)' = Chosen(c)
  BY DEF Chosen
<1>4. \A c : NameLength(c)' = NameLength(c)
  BY <1>1, <1>3, ZenonT(30) DEF NameLength, FoldSet, MapThenFoldSet
<1>5. \A c, e : Earlier(c, e)' <=> Earlier(c, e)
  BY DEF Earlier
<1>6. QED
  BY <1>2, <1>3, <1>4, <1>5

LEMMA StillFound ==
  ASSUME program' = program, depmap' = depmap, best_combs' = best_combs
  PROVE  BestFound' <=> BestFound
BY SteadyCombs DEF BestFound

LEMMA MapsSelectable ==
  ASSUME NEW k, Maps(depmap, k)
  PROVE  Selectable
BY DEF Maps, Selectable

\* The linker's later steps and the loader leave the names alone.
LEMMA OtherMapSteps ==
  ASSUME MapInv, program' = program, lmap' = lmap, next' = next, phase' = phase, UNCHANGED mapvars
  PROVE  MapInv'
<1>1. /\ path' = path /\ parents' = parents /\ depmap' = depmap /\ combs' = combs
      /\ best_combs' = best_combs /\ best_len' = best_len /\ used' = used
  BY DEF mapvars
<1>2. Maps(depmap, next - 1)' <=> Maps(depmap, next - 1)
  BY <1>1, SteadyMap
<1>3. Maps(depmap, Len(lmap))' <=> Maps(depmap, Len(lmap))
  BY <1>1, SteadyMap
<1>4. Walking' <=> Walking
  BY <1>1, SteadyMap DEF Walking
<1>5. Finding' <=> Finding
  BY <1>1, <1>2, <1>4 DEF Finding
<1>6. Tried' <=> Tried
  BY <1>1, SteadyCombs DEF Tried
<1>7. BestFound' <=> BestFound
  BY <1>1, StillFound
<1>8. Chosen(best_combs)' = Chosen(best_combs)
  BY <1>1, SteadyCombs
<1>9. QED
  BY <1>1, <1>3, <1>5, <1>6, <1>7, <1>8 DEF MapInv

LEMMA MapInit == IInit => MapInv
BY DEF IInit, MapInv

LEMMA MapResolveSteps ==
  ASSUME MapInv, Resolve \/ CannotResolve
  PROVE  MapInv'
<1>1. /\ phase = "resolve" /\ phase' \in {"resolve", "refused"} /\ path' = path /\ parents' = parents
      /\ depmap' = depmap /\ used' = used /\ best_len' = best_len
  BY DEF Resolve, CannotResolve, Go, mapvars
<1>2. QED
  BY <1>1 DEF MapInv

LEMMA NothingMapped ==
  ASSUME NEW k, k = 0
  PROVE  Maps(<<>>, k)
<1>1. Needed(k) = {}
  BY DEF Needed
<1>2. QED
  BY <1>1 DEF Maps

LEMMA MapSortStep ==
  ASSUME MapInv, ImportInv', Sort
  PROVE  MapInv'
<1>1. /\ phase = "resolve" /\ next' = 1 /\ phase' \in {"parents", "refused"} /\ UNCHANGED mapvars
  BY DEF Sort, Go
<1>2. /\ path' = <<>> /\ parents' = <<>> /\ depmap' = <<>> /\ used' = {} /\ best_len' = -1
  BY <1>1 DEF MapInv, mapvars
<1>3. CASE phase' = "parents"
  <2>1. Listed(lmap)' /\ program' \in Programs
    BY <1>3 DEF ImportInv, LinkerInv
  <2>2. Len(lmap)' \in Nat
    <3>1. PICK E : E = Entries'
      OBVIOUS
    <3>2. lmap' \in Seq(E)
      BY <2>1, <3>1 DEF Listed
    <3>3. QED
      BY <3>2
  <2>3. (next \in 1 .. Len(lmap) + 1)'
    BY <1>1, <2>2
  <2>4. Maps(depmap, next - 1)'
    <3>1. (next - 1)' = 0
      BY <1>1
    <3>2. Needed(next - 1)' = {}
      BY <3>1 DEF Needed
    <3>3. QED
      BY <1>2, <3>2 DEF Maps
  <2>5. Finding'
    BY <1>2, <2>3, <2>4 DEF Finding
  <2>6. QED
    BY <1>3, <2>5 DEF MapInv
<1>4. CASE phase' = "refused"
  BY <1>4 DEF MapInv
<1>5. QED
  BY <1>1, <1>3, <1>4

\* Where find_named_parents_r goes, it stays among what loads d.
LEMMA EnterStep ==
  ASSUME program \in Programs, NEW U, U = used, U \in SUBSET DOMAIN libs,
         NEW d \in DOMAIN libs, NEW child \in DOMAIN libs, d \in Loaded({child}), child \notin U,
         \A x \in U : d \in Loaded({x}),
         path \in Seq(U), \A x \in U : x \in Range(path) \/ Parents(x) \subseteq U,
         parents \in Seq(DOMAIN libs), Range(parents) = U \cap Nameable,
         Enter(child)
  PROVE  /\ used' = U \cup {child} /\ used' \in SUBSET DOMAIN libs
         /\ path' \in Seq(used') /\ path' # <<>>
         /\ \A x \in used' : x \in Range(path') \/ Parents(x) \subseteq used'
         /\ \A x \in used' : d \in Loaded({x})
         /\ parents' \in Seq(DOMAIN libs) /\ Range(parents') = used' \cap Nameable
<1>1. PICK V : V = U \cup {child} /\ V \in SUBSET DOMAIN libs
  <2>1. U \cup {child} \in SUBSET DOMAIN libs
    BY Zenon
  <2>2. QED
    BY <2>1, Zenon
<1>2. /\ path' = Append(path, child) /\ used' = V
      /\ parents' = IF libs[child].name_len > 0 /\ child \notin Range(parents)
                    THEN Append(parents, child) ELSE parents
  BY <1>1 DEF Enter
<1>3. path \in Seq(V)
  <2>1. path \in [1 .. Len(path) -> U] /\ Len(path) \in Nat
    OBVIOUS
  <2>2. U \subseteq V
    BY <1>1
  <2>3. path \in [1 .. Len(path) -> V]
    BY <2>1, <2>2
  <2>4. QED
    BY <2>1, <2>3, SeqDef
<1>4. /\ path' \in Seq(V) /\ Len(path') = Len(path) + 1 /\ path'[Len(path) + 1] = child
      /\ \A n \in 1 .. Len(path) : path'[n] = path[n]
  BY <1>1, <1>2, <1>3
<1>5. child \in Range(path') /\ Range(path) \subseteq Range(path')
  <2>1. Len(path) \in Nat /\ DOMAIN path = 1 .. Len(path) /\ DOMAIN path' = 1 .. Len(path) + 1
    BY <1>3, <1>4
  <2>2. QED
    BY <1>4, <2>1 DEF Range
<1>6. \A x \in V : x \in Range(path') \/ Parents(x) \subseteq V
  BY <1>1, <1>5
<1>7. \A x \in V : d \in Loaded({x})
  BY <1>1
<1>8. parents' \in Seq(DOMAIN libs) /\ Range(parents') = V \cap Nameable
  <2>1. child \notin Range(parents)
    OBVIOUS
  <2>2. CASE child \in Nameable
    <3>1. parents' = Append(parents, child)
      BY <1>2, <2>1, <2>2 DEF Nameable
    <3>2. /\ parents' \in Seq(DOMAIN libs) /\ Len(parents') = Len(parents) + 1
          /\ parents'[Len(parents) + 1] = child /\ Len(parents) \in Nat
          /\ \A n \in 1 .. Len(parents) : parents'[n] = parents[n]
          /\ DOMAIN parents = 1 .. Len(parents) /\ DOMAIN parents' = 1 .. Len(parents) + 1
      BY <3>1
    <3>3. Range(parents') = Range(parents) \cup {child}
      <4>1. \A n \in 1 .. Len(parents) + 1 : n \in 1 .. Len(parents) \/ n = Len(parents) + 1
        BY <3>2
      <4>2. \A n \in 1 .. Len(parents) : n \in 1 .. Len(parents) + 1
        BY <3>2
      <4>3. Len(parents) + 1 \in 1 .. Len(parents) + 1
        BY <3>2
      <4>4. QED
        BY <3>2, <4>1, <4>2, <4>3 DEF Range
    <3>4. QED
      BY <1>1, <2>2, <3>2, <3>3
  <2>3. CASE child \notin Nameable
    <3>1. parents' = parents
      BY <1>2, <2>3 DEF Nameable
    <3>2. QED
      BY <1>1, <2>3, <3>1
  <2>4. QED
    BY <2>2, <2>3
<1>9. path' # <<>>
  BY <1>3, <1>4
<1>10. QED
  BY <1>1, <1>2, <1>4, <1>6, <1>7, <1>8, <1>9

\* The library at hand is one that can be asked for.
LEMMA DependencyIs ==
  ASSUME ImportInv, phase = "parents"
  PROVE  /\ program \in Programs /\ Len(lmap) \in Nat \ {0} /\ DOMAIN lmap = 1 .. Len(lmap)
         /\ \A n \in DOMAIN lmap : lmap[n].lib \in DOMAIN libs
<1>1. program \in Programs /\ Listed(lmap)
  BY DEF ImportInv, LinkerInv
<1>2. PICK last \in Nat \ {0} : /\ last = Len(lmap) /\ DOMAIN lmap = 1 .. last
                                /\ \A n \in 1 .. last : lmap[n] \in Entries
  BY <1>1, ListIs
<1>3. \A n \in 1 .. last : lmap[n].lib \in DOMAIN libs
  BY <1>1, <1>2, EntriesAre
<1>4. QED
  BY <1>1, <1>2, <1>3

LEMMA FindParentsStep ==
  ASSUME ImportInv, MapInv, FindParents
  PROVE  MapInv'
<1>1. /\ phase = "parents" /\ phase' = phase /\ path = <<>> /\ next <= Len(lmap)
      /\ program' = program /\ lmap' = lmap /\ depmap' = depmap /\ best_len' = best_len
  BY DEF FindParents
<1>2. /\ program \in Programs /\ Len(lmap) \in Nat \ {0} /\ DOMAIN lmap = 1 .. Len(lmap)
      /\ \A n \in DOMAIN lmap : lmap[n].lib \in DOMAIN libs
  BY <1>1, DependencyIs
<1>3. Finding /\ parents = <<>> /\ used = {} /\ next \in 1 .. Len(lmap)
  BY <1>1, <1>2 DEF MapInv, Finding
<1>4. PICK d : d = lmap[next].lib /\ d \in DOMAIN libs
  BY <1>2, <1>3
<1>5. CASE IsDependency(next)
  <2>1. Enter(d) /\ next' = next
    BY <1>4, <1>5 DEF FindParents
  <2>2. PICK U : U = used /\ U = {}
    BY <1>3
  <2>3. d \in Loaded({d})
    BY <1>4, LoadsItself
  <2>4. path \in Seq(U) /\ parents \in Seq(DOMAIN libs)
    BY <1>1, <1>3
  <2>10. Range(parents) = U \cap Nameable
    BY <1>3, <2>2 DEF Range
  <2>11. /\ U \in SUBSET DOMAIN libs /\ d \notin U
         /\ \A x \in U : d \in Loaded({x})
         /\ \A x \in U : x \in Range(path) \/ Parents(x) \subseteq U
    BY <2>2
  <2>5. /\ used' = U \cup {d} /\ used' \in SUBSET DOMAIN libs
        /\ path' \in Seq(used') /\ path' # <<>>
        /\ \A x \in used' : x \in Range(path') \/ Parents(x) \subseteq used'
        /\ \A x \in used' : d \in Loaded({x})
        /\ parents' \in Seq(DOMAIN libs) /\ Range(parents') = used' \cap Nameable
    BY <1>2, <1>4, <2>1, <2>2, <2>3, <2>4, <2>10, <2>11, EnterStep, ZenonT(30)
  <2>6. Walking'
    BY <1>1, <1>2, <1>3, <1>4, <1>5, <2>1, <2>2, <2>5, SteadyMap DEF Walking
  <2>7. Maps(depmap, next - 1)'
    BY <1>1, <1>3, <2>1, SteadyMap DEF Finding
  <2>8. Finding'
    BY <1>1, <1>3, <2>5, <2>6, <2>7 DEF Finding
  <2>9. QED
    BY <1>1, <2>8 DEF MapInv
<1>6. CASE ~IsDependency(next)
  <2>1. next' = next + 1 /\ path' = <<>> /\ parents' = <<>> /\ used' = {}
    BY <1>1, <1>3, <1>6 DEF FindParents
  <2>2. PICK n \in Nat : n = next - 1 /\ next = n + 1
    BY <1>3
  <2>3. Needed(n + 1) = Needed(n)
    <3>1. d = 0 \/ (n \in 1 .. n /\ lmap[n].lib = d)
      BY <1>3, <1>4, <1>6, <2>2 DEF IsDependency, isdyld
    <3>2. \A m \in 1 .. n + 1 : m \in 1 .. n \/ m = n + 1
      OBVIOUS
    <3>3. 1 .. n \subseteq 1 .. n + 1
      OBVIOUS
    <3>4. QED
      BY <1>4, <2>2, <3>1, <3>2, <3>3 DEF Needed
  <2>4. Maps(depmap, n + 1)
    BY <1>3, <2>2, <2>3 DEF Maps, Finding
  <2>5. (next - 1)' = n + 1 /\ (next \in 1 .. Len(lmap) + 1)'
    BY <1>1, <1>2, <1>3, <2>1, <2>2
  <2>6. Maps(depmap, next - 1)'
    BY <1>1, <2>4, <2>5, SteadyMap
  <2>7. Finding'
    BY <1>1, <1>3, <2>1, <2>5, <2>6 DEF Finding
  <2>8. QED
    BY <1>1, <2>7 DEF MapInv
<1>7. QED
  BY <1>5, <1>6

LEMMA AskParentStep ==
  ASSUME ImportInv, MapInv, AskParent
  PROVE  MapInv'
<1>1. /\ phase = "parents" /\ phase' = phase /\ path # <<>> /\ Unused(Last(path)) # {} /\ next' = next
      /\ program' = program /\ lmap' = lmap /\ depmap' = depmap /\ best_len' = best_len
      /\ Enter(Min(Unused(Last(path))))
  BY DEF AskParent
<1>2. /\ program \in Programs /\ DOMAIN lmap = 1 .. Len(lmap)
      /\ \A n \in DOMAIN lmap : lmap[n].lib \in DOMAIN libs
  BY <1>1, DependencyIs
<1>3. Finding /\ Walking
  BY <1>1 DEF MapInv, Finding
<1>4. PICK d : d = lmap[next].lib /\ d \in DOMAIN libs
  BY <1>2, <1>3 DEF Walking
<1>5. PICK U : U = used
  OBVIOUS
<1>6. /\ U \in SUBSET DOMAIN libs /\ path \in Seq(U)
      /\ \A x \in U : x \in Range(path) \/ Parents(x) \subseteq U
      /\ \A x \in U : d \in Loaded({x})
      /\ parents \in Seq(DOMAIN libs) /\ Range(parents) = U \cap Nameable
  BY <1>3, <1>4, <1>5 DEF Walking
<1>7. PICK x : x = Last(path) /\ x \in U
  <2>1. Len(path) \in Nat /\ Len(path) # 0
    BY <1>1, <1>6
  <2>2. Len(path) \in 1 .. Len(path)
    BY <2>1
  <2>3. path[Len(path)] \in U
    BY <1>6, <2>2
  <2>4. QED
    BY <2>3 DEF Last
<1>8. PICK child : child = Min(Unused(x)) /\ child \in Parents(x) /\ child \notin U
  <2>1. Unused(x) \in SUBSET Nat
    BY <1>2, LibrariesAre DEF Unused, Parents
  <2>2. Min(Unused(x)) \in Unused(x)
    BY <1>1, <1>7, <2>1, MinIs
  <2>3. QED
    BY <1>5, <2>2 DEF Unused
<1>9. child \in DOMAIN libs /\ d \in Loaded({child})
  BY <1>6, <1>7, <1>8, ParentLoads
<1>10. Enter(child)
  BY <1>1, <1>7, <1>8
<1>11. /\ used' = U \cup {child} /\ used' \in SUBSET DOMAIN libs
       /\ path' \in Seq(used') /\ path' # <<>>
       /\ \A y \in used' : y \in Range(path') \/ Parents(y) \subseteq used'
       /\ \A y \in used' : d \in Loaded({y})
       /\ parents' \in Seq(DOMAIN libs) /\ Range(parents') = used' \cap Nameable
  BY <1>2, <1>4, <1>5, <1>6, <1>8, <1>9, <1>10, EnterStep
<1>12. next \in DOMAIN lmap /\ IsDependency(next) /\ d \in U
  BY <1>3, <1>4, <1>5 DEF Walking
<1>13. Walking'
  BY <1>1, <1>4, <1>11, <1>12, SteadyMap DEF Walking
<1>14. Maps(depmap, next - 1)'
  BY <1>1, <1>3, SteadyMap DEF Finding
<1>15. Finding'
  BY <1>1, <1>3, <1>11, <1>13, <1>14 DEF Finding
<1>16. QED
  BY <1>1, <1>15 DEF MapInv

\* What was asked for all its parents may be left.
LEMMA AnswerStep ==
  ASSUME MapInv, Answer
  PROVE  MapInv'
<1>1. /\ phase = "parents" /\ phase' = phase /\ Len(path) > 1 /\ Unused(Last(path)) = {} /\ next' = next
      /\ program' = program /\ lmap' = lmap /\ depmap' = depmap /\ best_len' = best_len
      /\ path' = Front(path) /\ parents' = parents /\ used' = used
  BY DEF Answer
<1>2. Finding /\ Walking
  <2>1. path # <<>>
    BY <1>1
  <2>2. QED
    BY <1>1, <2>1 DEF MapInv, Finding
<1>3. PICK U : U = used /\ path \in Seq(U)
  BY <1>2 DEF Walking
<1>4. PICK l \in Nat : /\ l + 1 = Len(path) /\ l # 0 /\ DOMAIN path = 1 .. l + 1
                       /\ \A n \in 1 .. l + 1 : path[n] \in U
  <2>1. Len(path) \in Nat /\ DOMAIN path = 1 .. Len(path) /\ \A n \in 1 .. Len(path) : path[n] \in U
    BY <1>3
  <2>2. Len(path) - 1 \in Nat /\ Len(path) - 1 + 1 = Len(path) /\ Len(path) - 1 # 0
    BY <1>1, <2>1
  <2>3. QED
    BY <2>1, <2>2
<1>5. path' = SubSeq(path, 1, l) /\ Last(path) = path[l + 1]
  <2>1. Len(path) - 1 = l
    BY <1>4
  <2>2. QED
    BY <1>1, <1>4, <2>1 DEF Front, Last
<1>6. path' \in Seq(U) /\ Len(path') = l /\ \A n \in 1 .. l : path'[n] = path[n]
  BY <1>3, <1>4, <1>5
<1>7. path' # <<>> /\ DOMAIN path' = 1 .. l
  BY <1>4, <1>6
<1>8. Parents(path[l + 1]) \subseteq U
  BY <1>1, <1>3, <1>5 DEF Unused
<1>9. \A x \in U : x \in Range(path') \/ Parents(x) \subseteq U
  <2>1. \A n \in 1 .. l + 1 : n \in 1 .. l \/ n = l + 1
    OBVIOUS
  <2>2. Range(path) \subseteq Range(path') \cup {path[l + 1]}
    BY <1>4, <1>6, <1>7, <2>1 DEF Range
  <2>3. \A x \in U : x \in Range(path) \/ Parents(x) \subseteq U
    BY <1>2, <1>3 DEF Walking
  <2>4. QED
    BY <1>8, <2>2, <2>3
<1>10. /\ next \in DOMAIN lmap /\ IsDependency(next)
       /\ U \in SUBSET DOMAIN libs /\ lmap[next].lib \in U
       /\ \A x \in U : lmap[next].lib \in Loaded({x})
       /\ parents \in Seq(DOMAIN libs) /\ Range(parents) = U \cap Nameable
  BY <1>2, <1>3 DEF Walking
<1>11. Walking'
  BY <1>1, <1>3, <1>6, <1>9, <1>10, SteadyMap DEF Walking
<1>12. Maps(depmap, next - 1)'
  BY <1>1, <1>2, SteadyMap DEF Finding
<1>13. Finding'
  BY <1>1, <1>2, <1>7, <1>11, <1>12 DEF Finding
<1>14. QED
  BY <1>1, <1>13 DEF MapInv

LEMMA MapsAppended ==
  ASSUME NEW k \in Nat, NEW dep, Maps(dep, k), NEW p \in Seq(DOMAIN libs), p # <<>>,
         NEW d, Range(p) = Namers(d), Needed(k + 1) = Needed(k) \cup {d}
  PROVE  Maps(Append(dep, p), k + 1)
<1>1. PICK T : T = Seq(DOMAIN libs)
  OBVIOUS
<1>2. dep \in Seq(T) /\ p \in T
  BY <1>1 DEF Maps
<1>3. PICK all : all = Append(dep, p)
  OBVIOUS
<1>4. PICK l \in Nat : l = Len(dep) /\ DOMAIN dep = 1 .. l
  BY <1>2
<1>5. all \in Seq(T) /\ DOMAIN all = 1 .. l + 1 /\ all[l + 1] = p /\ \A n \in 1 .. l : all[n] = dep[n]
  BY <1>2, <1>3, <1>4
<1>6. \A n \in 1 .. l + 1 : n \in 1 .. l \/ n = l + 1
  BY <1>4
<1>7. (\A n \in 1 .. l : n \in 1 .. l + 1) /\ l + 1 \in 1 .. l + 1
  BY <1>4
<1>8. \A n \in DOMAIN all : all[n] # <<>>
  BY <1>4, <1>5, <1>6 DEF Maps
<1>9. \A n \in DOMAIN all : \E e \in Needed(k + 1) : Range(all[n]) = Namers(e)
  BY <1>4, <1>5, <1>6 DEF Maps
<1>10. ASSUME NEW e \in Needed(k + 1) PROVE \E n \in DOMAIN all : Range(all[n]) = Namers(e)
  <2>1. CASE e = d
    BY <1>5, <1>7, <2>1
  <2>2. CASE e \in Needed(k)
    <3>1. PICK n \in DOMAIN dep : Range(dep[n]) = Namers(e)
      BY <2>2 DEF Maps
    <3>2. QED
      BY <1>4, <1>5, <1>7, <3>1
  <2>3. QED
    BY <2>1, <2>2
<1>11. QED
  BY <1>1, <1>3, <1>5, <1>8, <1>9, <1>10 DEF Maps

\* Nothing is missing when the outermost call is over.
LEMMA FoundAll ==
  ASSUME program \in Programs, Walking, Len(path) = 1, Unused(Last(path)) = {}
  PROVE  Range(parents) = Namers(lmap[next].lib)
<1>1. PICK U : U = used
  OBVIOUS
<1>2. PICK d : d = lmap[next].lib
  OBVIOUS
<1>3. /\ U \in SUBSET DOMAIN libs /\ d \in U /\ path \in Seq(U)
      /\ \A x \in U : x \in Range(path) \/ Parents(x) \subseteq U
      /\ \A x \in U : d \in Loaded({x})
      /\ Range(parents) = U \cap Nameable
  BY <1>1, <1>2 DEF Walking
<1>4. \A x \in U : Parents(x) \subseteq U
  <2>1. DOMAIN path = 1 .. 1 /\ Last(path) = path[1]
    BY <1>3 DEF Last
  <2>2. \A x \in Range(path) : x = path[1]
    BY <2>1 DEF Range
  <2>3. Parents(path[1]) \subseteq U
    BY <1>1, <2>1 DEF Unused
  <2>4. QED
    BY <1>3, <2>2, <2>3
<1>5. \A x \in DOMAIN libs : d \in Loaded({x}) => x \in U
  BY <1>3, <1>4, AllLoaders
<1>6. Namers(d) = U \cap Nameable
  BY <1>3, <1>5 DEF Namers, Nameable
<1>7. QED
  BY <1>2, <1>3, <1>6

LEMMA FoundParentsStep ==
  ASSUME ImportInv, MapInv, FoundParents
  PROVE  MapInv'
<1>1. /\ phase = "parents" /\ Len(path) = 1 /\ Unused(Last(path)) = {} /\ next' = next + 1
      /\ program' = program /\ lmap' = lmap /\ best_len' = best_len
      /\ path' = <<>> /\ parents' = <<>> /\ used' = {}
  BY DEF FoundParents
<1>2. /\ program \in Programs /\ Len(lmap) \in Nat \ {0} /\ DOMAIN lmap = 1 .. Len(lmap)
      /\ \A n \in DOMAIN lmap : lmap[n].lib \in DOMAIN libs
  BY <1>1, DependencyIs
<1>3. Finding /\ Walking
  <2>1. path # <<>>
    BY <1>1
  <2>2. QED
    BY <1>1, <2>1 DEF MapInv, Finding
<1>4. CASE parents = <<>>
  <2>1. phase' = "refused"
    BY <1>4 DEF FoundParents, Go
  <2>2. QED
    BY <2>1 DEF MapInv
<1>5. CASE parents # <<>>
  <2>1. phase' = "parents" /\ depmap' = Append(depmap, parents)
    BY <1>1, <1>5 DEF FoundParents
  <2>2. next \in 1 .. Len(lmap) /\ IsDependency(next) /\ parents \in Seq(DOMAIN libs)
    BY <1>2, <1>3 DEF Walking
  <2>3. PICK n \in Nat : n = next - 1 /\ next = n + 1
    BY <2>2
  <2>4. PICK d : d = lmap[next].lib
    OBVIOUS
  <2>5. Range(parents) = Namers(d)
    BY <1>1, <1>2, <1>3, <2>4, FoundAll
  <2>6. Needed(n + 1) = Needed(n) \cup {d}
    <3>1. d # 0
      BY <2>2, <2>4 DEF IsDependency, isdyld
    <3>2. \A m \in 1 .. n + 1 : m \in 1 .. n \/ m = n + 1
      OBVIOUS
    <3>3. 1 .. n \subseteq 1 .. n + 1 /\ n + 1 \in 1 .. n + 1
      OBVIOUS
    <3>4. QED
      BY <2>3, <2>4, <3>1, <3>2, <3>3 DEF Needed
  <2>7. Maps(depmap, n)
    BY <1>3, <2>3 DEF Finding
  <2>8. Maps(depmap', n + 1)
    BY <1>5, <2>1, <2>2, <2>5, <2>6, <2>7, MapsAppended
  <2>9. PICK dep : dep = depmap'
    OBVIOUS
  <2>10. (next - 1)' = n + 1 /\ (next \in 1 .. Len(lmap) + 1)'
    BY <1>1, <1>2, <2>2, <2>3
  <2>11. Maps(depmap, next - 1)'
    BY <1>1, <2>8, <2>9, <2>10, SteadyMap
  <2>12. Finding'
    BY <1>1, <1>3, <2>10, <2>11 DEF Finding
  <2>13. QED
    BY <2>1, <2>12 DEF MapInv
<1>6. QED
  BY <1>4, <1>5

LEMMA AllParentsStep ==
  ASSUME ImportInv, MapInv, AllParents
  PROVE  MapInv'
<1>1. /\ phase = "parents" /\ phase' \in {"choose", "refused"} /\ path = <<>> /\ next > Len(lmap)
      /\ program' = program /\ lmap' = lmap /\ depmap' = depmap /\ best_len' = best_len
      /\ combs' = [d \in DOMAIN depmap |-> 1] /\ best_combs' = combs'
  BY DEF AllParents, Go
<1>2. program \in Programs /\ Len(lmap) \in Nat \ {0}
  BY <1>1, DependencyIs
<1>3. Finding /\ next - 1 = Len(lmap)
  BY <1>1, <1>2 DEF MapInv, Finding
<1>4. Maps(depmap, Len(lmap)) /\ best_len = -1
  BY <1>3 DEF Finding
<1>5. Selectable
  BY <1>4, MapsSelectable
<1>6. PICK c : c = combs' /\ c = [d \in DOMAIN depmap |-> 1]
  BY <1>1
<1>7. c \in Combs /\ \A e \in Combs : ~Earlier(e, c)
  BY <1>5, <1>6, OdometerStart
<1>8. Tried'
  BY <1>1, <1>4, <1>6, <1>7, SteadyCombs DEF Tried
<1>9. Maps(depmap, Len(lmap))'
  BY <1>1, <1>4, SteadyMap
<1>10. QED
  BY <1>1, <1>8, <1>9 DEF MapInv

LEMMA NameLengthIs ==
  ASSUME Selectable, NEW F, NameLengths(F), NEW c \in Combs
  PROVE  Chosen(c) \in SUBSET DOMAIN libs /\ NameLength(c) = F[Chosen(c)] /\ NameLength(c) \in Nat
<1>1. DOMAIN c = DOMAIN depmap
  BY CombsAre
<1>2. ASSUME NEW d \in DOMAIN depmap PROVE depmap[d][c[d]] \in DOMAIN libs
  <2>1. depmap[d] \in Seq(DOMAIN libs)
    BY SelectableAre
  <2>2. c[d] \in DOMAIN depmap[d]
    BY DEF Combs
  <2>3. QED
    BY <2>1, <2>2
<1>3. Chosen(c) \in SUBSET DOMAIN libs
  BY <1>1, <1>2 DEF Chosen
<1>4. PICK s : s = Chosen(c)
  OBVIOUS
<1>5. FoldSet(LAMBDA j, sum : sum + libs[j].name_len, 0, s) = F[s] /\ F[s] \in Nat
  BY <1>3, <1>4 DEF NameLengths
<1>6. QED
  BY <1>3, <1>4, <1>5 DEF NameLength

LEMMA TryCombinationStep ==
  ASSUME ImportInv, MapInv, TryCombination
  PROVE  MapInv'
<1>1. /\ phase = "choose" /\ program' = program /\ lmap' = lmap /\ depmap' = depmap
  BY DEF TryCombination
<1>2. /\ program \in Programs /\ Maps(depmap, Len(lmap)) /\ Tried
  BY <1>1 DEF MapInv, ImportInv, LinkerInv
<1>3. Selectable
  BY <1>2, MapsSelectable
<1>4. PICK F : NameLengths(F)
  BY <1>2, LengthsExist
<1>5. \A e \in Combs : NameLength(e) \in Nat
  BY <1>3, <1>4, NameLengthIs
<1>6. PICK c \in Combs : c = combs
  BY <1>2 DEF Tried
<1>7. PICK b \in Combs, l \in Nat :
        /\ b = best_combs' /\ l = best_len' /\ l = NameLength(b) /\ l <= NameLength(c)
        /\ best_len = -1 \/ l <= best_len
  <2>1. CASE best_len = -1 \/ NameLength(c) < best_len
    <3>1. best_len' = NameLength(c) /\ best_combs' = c
      BY <1>6, <2>1 DEF TryCombination
    <3>2. PICK n \in Nat : n = NameLength(c)
      BY <1>5
    <3>3. best_len = -1 \/ n <= best_len
      <4>1. CASE best_len # -1
        <5>1. best_len \in Nat
          BY <1>2, <1>5, <4>1 DEF Tried
        <5>2. QED
          BY <2>1, <3>2, <4>1, <5>1
      <4>2. QED
        BY <4>1
    <3>4. QED
      BY <3>1, <3>2, <3>3
  <2>2. CASE ~(best_len = -1 \/ NameLength(c) < best_len)
    <3>1. best_len' = best_len /\ best_combs' = best_combs
      BY <1>6, <2>2 DEF TryCombination
    <3>2. best_combs \in Combs /\ best_len = NameLength(best_combs)
      BY <1>2, <2>2 DEF Tried
    <3>3. PICK n \in Nat, m \in Nat : n = NameLength(c) /\ m = best_len
      BY <1>5, <3>2
    <3>4. m <= n
      BY <2>2, <3>3
    <3>5. QED
      BY <3>1, <3>2, <3>3, <3>4
  <2>3. QED
    BY <2>1, <2>2
<1>8. \A e \in Combs : Earlier(e, c) \/ e = c => l <= NameLength(e)
  <2> SUFFICES ASSUME NEW e \in Combs, Earlier(e, c) PROVE l <= NameLength(e)
    BY <1>7
  <2>1. best_len # -1 /\ best_len <= NameLength(e) /\ best_len = NameLength(best_combs) /\ best_combs \in Combs
    BY <1>2, <1>6 DEF Tried
  <2>2. PICK n \in Nat, m \in Nat : n = NameLength(e) /\ m = best_len
    BY <1>5, <2>1
  <2>3. QED
    BY <1>7, <2>1, <2>2
<1>9. Maps(depmap, Len(lmap))'
  BY <1>1, <1>2, SteadyMap
<1>10. CASE NextCombs(c) = <<>>
  <2>1. phase' = "mark"
    BY <1>6, <1>10 DEF TryCombination, Go
  <2>2. \A e \in Combs : NameLength(b) <= NameLength(e)
    BY <1>3, <1>7, <1>8, <1>10, OdometerEnd
  <2>3. BestFound'
    BY <1>1, <1>7, <2>2, SteadyCombs DEF BestFound
  <2>4. QED
    BY <1>9, <2>1, <2>3 DEF MapInv
<1>11. CASE NextCombs(c) # <<>>
  <2>1. phase' = "choose" /\ combs' = NextCombs(c)
    BY <1>6, <1>11 DEF TryCombination, Go
  <2>2. PICK e : e = NextCombs(c)
    OBVIOUS
  <2>3. e \in Combs /\ \A g \in Combs : Earlier(g, e) => Earlier(g, c) \/ g = c
    BY <1>3, <1>11, <2>2, OdometerNext
  <2>4. \A g \in Combs : Earlier(g, e) => l <= NameLength(g)
    BY <1>8, <2>3
  <2>5. l # -1
    BY <1>7
  <2>6. Tried'
    BY <1>1, <1>7, <2>1, <2>2, <2>3, <2>4, <2>5, SteadyCombs DEF Tried
  <2>7. QED
    BY <1>9, <2>1, <2>6 DEF MapInv
<1>12. QED
  BY <1>10, <1>11

LEMMA MarkSteps ==
  ASSUME MapInv, Mark \/ WriteEntry \/ CannotWrite \/ WriteEnd
  PROVE  MapInv'
<1>1. /\ phase \in {"mark", "write"} /\ program' = program /\ lmap' = lmap /\ depmap' = depmap
      /\ best_combs' = best_combs /\ phase' \in {"write", "linked", "refused"}
      /\ used' = IF phase = "mark" THEN Chosen(best_combs) ELSE used
  BY DEF Mark, WriteEntry, CannotWrite, WriteEnd, Go, mapvars
<1>2. Maps(depmap, Len(lmap)) /\ BestFound
  BY <1>1 DEF MapInv
<1>3. Maps(depmap, Len(lmap))' /\ BestFound'
  BY <1>1, <1>2, SteadyMap, StillFound
<1>4. (used = Chosen(best_combs))'
  <2>1. used' = Chosen(best_combs)
    BY <1>1 DEF MapInv
  <2>2. PICK b : b = best_combs
    OBVIOUS
  <2>3. Chosen(b)' = Chosen(b)
    BY <1>1, SteadyCombs
  <2>4. QED
    BY <1>1, <2>1, <2>2, <2>3
<1>5. QED
  BY <1>1, <1>3, <1>4 DEF MapInv

LEMMA MapNext == ImportInv /\ MapInv /\ [Next]_vars => MapInv'
<1> SUFFICES ASSUME ImportInv, MapInv, [Next]_vars PROVE MapInv'
  OBVIOUS
<1>1. CASE Import
  <2>1. ImportInv'
    BY <1>1, ImportSteps DEF Import
  <2>2. INext
    BY <1>1 DEF Import
  <2>3. QED
    BY <2>1, <2>2, MapResolveSteps, MapSortStep, FindParentsStep, AskParentStep, AnswerStep,
       FoundParentsStep, AllParentsStep, TryCombinationStep, MarkSteps DEF INext
<1>2. CASE UNCHANGED ivars
  <2>1. program' = program /\ lmap' = lmap /\ next' = next /\ phase' = phase /\ UNCHANGED mapvars
    BY <1>2 DEF ivars, mapvars
  <2>2. QED
    BY <2>1, OtherMapSteps
<1>3. CASE Link
  <2>1. UNCHANGED ivars
    <3>1. CASE BNext /\ UNCHANGED <<lvars, cvars>>
      BY <3>1 DEF BNext, Rest, Collect, Place, TooSmallArea, Placed, Relocate, CannotRelocate,
                  Relocated, Pack, PackNothing, Pad
    <3>2. CASE CLink
      BY <3>2 DEF CLink, FindCall, TranslateCalls, CannotTranslate
    <3>3. QED
      BY <1>3, <3>1, <3>2 DEF Link
  <2>2. QED
    BY <1>2, <2>1
<1>4. CASE Load
  <2>1. program' = program /\ lmap' = lmap /\ next' = next /\ phase' = phase /\ UNCHANGED mapvars
    BY <1>4 DEF Load, LNext, Start, BrowseMach, NextSymbol, FoundSymbol, NextGroup, NextImage, FoundImage,
                CLoad, StartRestore, RestoreCall, ivars, mapvars
  <2>2. QED
    BY <2>1, OtherMapSteps
<1>5. CASE UNCHANGED vars
  BY <1>2, <1>5 DEF vars
<1>6. QED
  BY <1>1, <1>3, <1>4, <1>5 DEF Next, Terminating

LEMMA ShortestAtLast == ImportInv /\ MapInv => ShortestNames
<1> SUFFICES ASSUME ImportInv, MapInv, phase = "linked" PROVE ShortestNames
  BY DEF ShortestNames
<1>1. /\ program \in Programs /\ Listed(lmap) /\ Maps(depmap, Len(lmap)) /\ BestFound
      /\ used = Chosen(best_combs)
  BY DEF ImportInv, LinkerInv, MapInv
<1>2. Selectable
  BY <1>1, MapsSelectable
<1>3. PICK F : NameLengths(F)
  BY <1>1, LengthsExist
<1>4. PICK b \in Combs : b = best_combs /\ \A c \in Combs : NameLength(b) <= NameLength(c)
  BY <1>1 DEF BestFound
<1>5. used = Chosen(b) /\ used \in SUBSET DOMAIN libs
  BY <1>1, <1>2, <1>3, <1>4, NameLengthIs
<1>6. PICK needed : /\ needed = {lmap[n].lib : n \in DOMAIN lmap} \ {0}
                    /\ \A m \in DOMAIN depmap : \E d \in needed : Range(depmap[m]) = Namers(d)
                    /\ \A d \in needed : \E m \in DOMAIN depmap : Range(depmap[m]) = Namers(d)
  <2>1. DOMAIN lmap = 1 .. Len(lmap)
    BY <1>1, ListIs
  <2>2. Needed(Len(lmap)) = {lmap[n].lib : n \in DOMAIN lmap} \ {0}
    BY <2>1 DEF Needed
  <2>3. QED
    BY <1>1, <2>2 DEF Maps
<1>7. needed \subseteq Loaded(used)
  <2> SUFFICES ASSUME NEW d \in needed PROVE d \in Loaded(used)
    OBVIOUS
  <2>1. PICK m \in DOMAIN depmap : Range(depmap[m]) = Namers(d)
    BY <1>6
  <2>2. DOMAIN b = DOMAIN depmap /\ b[m] \in DOMAIN depmap[m]
    BY <1>2, <1>4, CombsAre DEF Combs
  <2>3. PICK j : j = depmap[m][b[m]]
    OBVIOUS
  <2>4. j \in used /\ j \in Range(depmap[m])
    BY <1>5, <2>2, <2>3 DEF Chosen, Range
  <2>5. d \in Loaded({j})
    BY <2>1, <2>4 DEF Namers
  <2>6. QED
    BY <2>4, <2>5, LoadsMore
<1>8. ASSUME NEW s \in SUBSET Nameable, needed \subseteq Loaded(s)
      PROVE  FoldSet(LAMBDA j, sum : sum + libs[j].name_len, 0, used)
               <= FoldSet(LAMBDA j, sum : sum + libs[j].name_len, 0, s)
  <2>1. s \in SUBSET DOMAIN libs
    BY DEF Nameable
  <2>2. ASSUME NEW m \in DOMAIN depmap PROVE \E x \in DOMAIN depmap[m] : depmap[m][x] \in s
    <3>1. PICK d \in needed : Range(depmap[m]) = Namers(d)
      BY <1>6
    <3>2. PICK j \in s : d \in Loaded({j})
      BY <1>1, <1>8, <2>1, <3>1, OneLoads
    <3>3. j \in Range(depmap[m])
      BY <3>1, <3>2 DEF Namers
    <3>4. QED
      BY <3>2, <3>3 DEF Range
  <2>3. PICK c : c = [m \in DOMAIN depmap |-> CHOOSE x \in DOMAIN depmap[m] : depmap[m][x] \in s]
    OBVIOUS
  <2>4. /\ DOMAIN c = DOMAIN depmap
        /\ \A m \in DOMAIN depmap : c[m] \in DOMAIN depmap[m] /\ depmap[m][c[m]] \in s
    BY <2>2, <2>3
  <2>5. c \in Combs
    <3>1. ASSUME NEW m \in DOMAIN depmap PROVE c[m] \in Nat
      <4>1. DOMAIN depmap[m] \in SUBSET Nat
        BY <1>2, SelectableAre
      <4>2. QED
        BY <2>4, <4>1
    <3>2. c \in [DOMAIN depmap -> Nat]
      BY <2>3, <2>4, <3>1
    <3>3. QED
      BY <2>4, <3>2 DEF Combs
  <2>6. Chosen(c) \subseteq s
    BY <2>4 DEF Chosen
  <2>7. NameLength(b) <= NameLength(c) /\ NameLength(b) = F[Chosen(b)] /\ NameLength(c) = F[Chosen(c)]
        /\ Chosen(c) \in SUBSET DOMAIN libs
    BY <1>2, <1>3, <1>4, <2>5, NameLengthIs
  <2>8. PICK x \in Nat, y \in Nat, z \in Nat : x = F[used] /\ y = F[Chosen(c)] /\ z = F[s]
    BY <1>3, <1>5, <2>1, <2>7 DEF NameLengths
  <2>9. x <= y /\ y <= z
    BY <1>3, <1>5, <2>1, <2>6, <2>7, <2>8 DEF NameLengths
  <2>10. x <= z
    BY <2>9
  <2>11. /\ FoldSet(LAMBDA j, sum : sum + libs[j].name_len, 0, used) = x
         /\ FoldSet(LAMBDA j, sum : sum + libs[j].name_len, 0, s) = z
    BY <1>3, <1>5, <2>1, <2>8 DEF NameLengths
  <2>12. QED
    BY <2>10, <2>11
<1>9. QED
  BY <1>6, <1>7, <1>8 DEF ShortestNames, Nameable

\* BoundRight: the jump table of a program that starts leads where its symbols say,
\* for all libraries and hashes.
THEOREM LoaderBindsRight == Spec => []BoundRight
<1>1. Init => ImportInv
  BY ImportInit DEF Init
<1>2. ImportInv /\ [Next]_vars => ImportInv'
  BY ImportNext
<1>3. QED
  BY <1>1, <1>2, BoundAtLast, PTL DEF Spec

\* ShortestNames: the names in the header of a linked program bring in all that it
\* imports from, and no other names that do are shorter, for all libraries.
THEOREM NamesAreShortest == Spec => []ShortestNames
<1>1. Init => ImportInv /\ MapInv
  BY ImportInit, MapInit DEF Init
<1>2. ImportInv /\ MapInv /\ [Next]_vars => ImportInv' /\ MapInv'
  BY ImportNext, MapNext
<1>3. QED
  BY <1>1, <1>2, ShortestAtLast, PTL DEF Spec

=============================================================================
