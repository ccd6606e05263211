---------------------------- MODULE ImportTable ----------------------------
(***************************************************************************)
(* hashloader.c: which library functions a program needs, and the table of *)
(* hashes that tells its loader to find them.                              *)
(*                                                                         *)
(* map_funcs finds every undefined symbol of the objects in the libraries  *)
(* that laturi itself has loaded and refuses what the loader could         *)
(* confuse; map_libs finds the libraries to name in the header, so that    *)
(* all others are loaded with them, and makes the names as short as it     *)
(* can; create_map writes the table.                                       *)
(*                                                                         *)
(* Names are numbers in strcmp's order.  Library 0 is dyld, whose table of *)
(* symbols the loader starts from.  An entry of a library's table without  *)
(* an address is a symbol that the library needs itself ("suspect").       *)
(***************************************************************************)
EXTENDS Integers, Sequences, FiniteSets, SequencesExt, FiniteSetsExt

CONSTANTS
  Programs,   \* bound: what is linked, with what; see the assumption
  MaxCount    \* [255] the largest number of functions a library's count can say

InfosName == 0    \* _dyld_all_image_infos

ASSUME ProgramAssumption ==
  \A p \in Programs :
    /\ p.hash_type \in 0 .. 2
    /\ IsFiniteSet(DOMAIN p.libs) /\ DOMAIN p.libs = 0 .. Cardinality(DOMAIN p.libs) - 1
    /\ \A j \in DOMAIN p.libs :
         LET lib == p.libs[j]
         IN  /\ lib.name_len \in Nat        \* of its name in the header, 0: not named there
             /\ lib.slide \in Nat /\ lib.hash \in Nat
             /\ lib.childs \subseteq DOMAIN p.libs \ {0}
             /\ lib.nlist \in Seq([name : DOMAIN p.hash, addr : Nat])
    /\ 0 \in DOMAIN p.libs /\ p.libs[0].childs = {} /\ p.libs[0].name_len = 0
    /\ \A name \in DOMAIN p.hash : p.hash[name] \in Nat
    \* Only insert_dyld_symbol asks for a symbol of dyld.
    /\ p.symbols \in Seq([name : Nat, type : {"extern", "laturi", "defined", "none"},
                         isdyld : {FALSE}, obj : Nat, num : Nat, uaddr : Nat])

VARIABLES
  program,            \* the objects, the libraries and the hashes
  lmap,               \* lmap: functions to import, [lib, func]
  next,               \* the symbol or the entry of lmap at hand
  path,               \* the calls of find_named_parents_r at hand, by their child
  parents,            \* parents: what they have found
  depmap,             \* depmap: for every library imported from, whom to name
  combs, best_combs,  \* combs, best_combs
  best_len,           \* best_len, -1 for ~0U
  used,               \* libraries whose "used" is set
  table,              \* the hash table
  phase

ivars == <<program, lmap, next, path, parents, depmap, combs, best_combs, best_len, used, table, phase>>
mapvars == <<path, parents, depmap, combs, best_combs, best_len, used>>

libs == program.libs
isdyld(j) == j = 0
Func(f) == libs[f.lib].nlist[f.func]
Hash(f) == program.hash[Func(f).name]

\* insert_dyld_symbol: the loader's own import.
Symbols ==
  Append(program.symbols, [name |-> InfosName, type |-> "extern", isdyld |-> TRUE])

ITypeOK ==
  /\ \A n \in DOMAIN lmap : /\ lmap[n].lib \in DOMAIN libs
                            /\ lmap[n].func \in DOMAIN libs[lmap[n].lib].nlist
  /\ next \in Nat \ {0}
  /\ used \subseteq DOMAIN libs
  /\ best_len \in Nat \cup {-1}

IInit ==
  /\ program \in Programs
  /\ lmap = <<>> /\ next = 1
  /\ path = <<>> /\ parents = <<>> /\ depmap = <<>>
  /\ combs = <<>> /\ best_combs = <<>> /\ best_len = -1
  /\ used = {} /\ table = <<>>
  /\ phase = "resolve"

Go(to) == phase' = to

-----------------------------------------------------------------------------
(* map_funcs.                                                              *)

\* Another object has it.  Symbols that laturi defines are no imports either.
Solved(s) ==
  \E n \in DOMAIN Symbols :
    Symbols[n].name = s.name /\ Symbols[n].isdyld = s.isdyld /\ Symbols[n].type = "defined"

Imported(s) == s.type = "extern" /\ ~Solved(s)

Entries ==
  UNION {{[lib |-> j, func |-> k] : k \in DOMAIN libs[j].nlist} : j \in DOMAIN libs}

\* Of several definitions the last one that dladdr confirms is taken, or the
\* first one: any of them, as far as this program can tell.
Matches(s) ==
  {f \in Entries : Func(f).name = s.name /\ Func(f).addr # 0 /\ isdyld(f.lib) = s.isdyld}

\* Mutant of Clash: symbols that the library only needs itself do not count.
ClashDefined(f) ==
  \E k \in DOMAIN libs[f.lib].nlist :
    /\ IF program.hash_type \in {1, 2} THEN k # f.func ELSE k < f.func
    /\ libs[f.lib].nlist[k].addr # 0
    /\ program.hash[libs[f.lib].nlist[k].name] = Hash(f)

\* Hashes of two bytes clash too often to look behind the function as well.
Clash(f) ==
  \E k \in DOMAIN libs[f.lib].nlist :
    /\ IF program.hash_type \in {1, 2} THEN k # f.func ELSE k < f.func
    /\ program.hash[libs[f.lib].nlist[k].name] = Hash(f)

Resolve ==
  /\ phase = "resolve" /\ next <= Len(Symbols)
  /\ LET s == Symbols[next]
     IN  \/ ~Imported(s) /\ lmap' = lmap
         \/ /\ Imported(s)
            /\ \E f \in Matches(s) : ~Clash(f) /\ lmap' = Append(lmap, f)
  /\ next' = next + 1
  /\ UNCHANGED <<program, mapvars, table, phase>>

\* "Could not resolve", "Functions clash".
CannotResolve ==
  /\ phase = "resolve" /\ next <= Len(Symbols)
  /\ Imported(Symbols[next])
  /\ Matches(Symbols[next]) = {} \/ \E f \in Matches(Symbols[next]) : Clash(f)
  /\ Go("refused")
  /\ UNCHANGED <<program, lmap, next, mapvars, table>>

\* linkmap_sort
Before(f, g) ==
  \/ isdyld(f.lib) /\ ~isdyld(g.lib)
  \/ /\ isdyld(f.lib) = isdyld(g.lib)
     /\ \/ libs[f.lib].hash < libs[g.lib].hash
        \/ libs[f.lib].hash = libs[g.lib].hash /\ Func(f).name < Func(g).name

LibrariesClash ==
  \E n \in DOMAIN lmap, j \in DOMAIN libs :
    lmap[n].lib # j /\ libs[lmap[n].lib].hash = libs[j].hash

\* qsort, which leaves open how entries that compare equal are ordered, and the
\* last check.
Sort ==
  /\ phase = "resolve" /\ next > Len(Symbols)
  /\ IF LibrariesClash THEN Go("refused") /\ lmap' = lmap
     ELSE /\ \E place \in Bijection(DOMAIN lmap, DOMAIN lmap) :
               /\ \A m, n \in DOMAIN lmap : m < n => ~Before(lmap[place[n]], lmap[place[m]])
               /\ lmap' = [n \in DOMAIN lmap |-> lmap[place[n]]]
          /\ Go("parents")
  /\ next' = 1
  /\ UNCHANGED <<program, mapvars, table>>

\* The slot of a function is that of the first entry of its name.
Slots(name) == {k \in DOMAIN lmap : Func(lmap[k]).name = name}
SlotOf(name) == Min(Slots(name))

-----------------------------------------------------------------------------
(* map_libs.                                                               *)

Parents(c) == {i \in DOMAIN libs : c \in libs[i].childs}

\* find_named_parents_r is called.
Enter(child) ==
  /\ path' = Append(path, child)
  /\ used' = used \cup {child}
  /\ parents' = IF libs[child].name_len > 0 /\ child \notin Range(parents)
                THEN Append(parents, child) ELSE parents

\* Every library imported from is looked at once; dyld is always there.
IsDependency(n) == ~isdyld(lmap[n].lib) /\ (n = 1 \/ lmap[n - 1].lib # lmap[n].lib)

FindParents ==
  /\ phase = "parents" /\ path = <<>> /\ next <= Len(lmap)
  /\ IF IsDependency(next) THEN Enter(lmap[next].lib) /\ next' = next
     ELSE next' = next + 1 /\ UNCHANGED <<path, parents, used>>
  /\ UNCHANGED <<program, lmap, depmap, combs, best_combs, best_len, table, phase>>

Unused(child) == Parents(child) \ used

\* The first parent that is not used yet.
AskParent ==
  /\ phase = "parents" /\ path # <<>> /\ Unused(Last(path)) # {}
  /\ Enter(Min(Unused(Last(path))))
  /\ UNCHANGED <<program, lmap, next, depmap, combs, best_combs, best_len, table, phase>>

Answer ==
  /\ phase = "parents" /\ Len(path) > 1 /\ Unused(Last(path)) = {}
  /\ path' = Front(path)
  /\ UNCHANGED <<program, lmap, next, parents, depmap, combs, best_combs, best_len, used, table, phase>>

\* The outermost call is over.  The libraries are unmarked for the next one.
FoundParents ==
  /\ phase = "parents" /\ Len(path) = 1 /\ Unused(Last(path)) = {}
  /\ path' = <<>> /\ parents' = <<>> /\ used' = {}
  /\ \/ parents # <<>> /\ depmap' = Append(depmap, parents) /\ UNCHANGED phase
     \/ parents = <<>> /\ depmap' = depmap /\ Go("refused")      \* "Could not resolve properly"
  /\ next' = next + 1
  /\ UNCHANGED <<program, lmap, combs, best_combs, best_len, table>>

\* "Object does not have externals!"
AllParents ==
  /\ phase = "parents" /\ path = <<>> /\ next > Len(lmap)
  /\ combs' = [d \in DOMAIN depmap |-> 1] /\ best_combs' = combs'
  /\ IF depmap = <<>> THEN Go("refused") ELSE Go("choose")
  /\ next' = 1
  /\ UNCHANGED <<program, lmap, path, parents, depmap, best_len, used, table>>

Chosen(c) == {depmap[d][c[d]] : d \in DOMAIN c}

\* Mutant of NameLength: a library named for two others is paid twice.
NameLengthTwice(c) ==
  FoldLeft(LAMBDA sum, d : sum + libs[depmap[d][c[d]]].name_len, 0, [d \in DOMAIN c |-> d])

NameLength(c) == FoldSet(LAMBDA j, sum : sum + libs[j].name_len, 0, Chosen(c))

\* Mutant of NextCombs: the last combination is followed by the first.
NextCombsWrap(c) ==
  LET moving == {d \in DOMAIN c : c[d] # Len(depmap[d])}
  IN  [d \in DOMAIN c |-> IF moving = {} \/ d < Min(moving) THEN 1
                          ELSE IF d = Min(moving) THEN c[d] + 1 ELSE c[d]]

\* The first digit runs fastest; nothing comes after the last combination.
NextCombs(c) ==
  LET moving == {d \in DOMAIN c : c[d] # Len(depmap[d])}
  IN  IF moving = {} THEN <<>>
      ELSE [d \in DOMAIN c |-> IF d < Min(moving) THEN 1
                               ELSE IF d = Min(moving) THEN c[d] + 1 ELSE c[d]]

TryCombination ==
  /\ phase = "choose"
  /\ IF best_len = -1 \/ NameLength(combs) < best_len
     THEN best_len' = NameLength(combs) /\ best_combs' = combs
     ELSE UNCHANGED <<best_len, best_combs>>
  /\ IF NextCombs(combs) = <<>> THEN Go("mark") /\ combs' = combs
     ELSE Go("choose") /\ combs' = NextCombs(combs)
  /\ UNCHANGED <<program, lmap, next, path, parents, depmap, used, table>>

\* insert_libraries names these libraries in the header.
Mark ==
  /\ phase = "mark"
  /\ used' = Chosen(best_combs)
  /\ Go("write")
  /\ UNCHANGED <<program, lmap, next, path, parents, depmap, combs, best_combs, best_len, table>>

-----------------------------------------------------------------------------
(* create_map.  A count, a library or a function takes a cell of the table.*)

Group(n) == {m \in DOMAIN lmap : lmap[m].lib = lmap[n].lib}
StartsGroup(n) == n = 1 \/ lmap[n - 1].lib # lmap[n].lib

\* No count and no hash for dyld.
Headed(n) == StartsGroup(n) /\ lmap[n].lib # lmap[1].lib

GroupHeader(n) ==
  IF Headed(n)
  THEN <<Cardinality(Group(n)), libs[lmap[n].lib].hash>> ELSE <<>>

WriteEntry ==
  /\ phase = "write" /\ next <= Len(lmap)
  /\ Cardinality(Group(next)) <= MaxCount
  /\ isdyld(lmap[next].lib) \/ libs[lmap[next].lib].slide = 0
  /\ table' = table \o GroupHeader(next) \o <<Hash(lmap[next])>>
  /\ next' = next + 1
  /\ UNCHANGED <<program, lmap, mapvars, phase>>

\* "more than 255 functions per library", "VM-sliding not supported".
CannotWrite ==
  /\ phase = "write" /\ next <= Len(lmap)
  /\ \/ Cardinality(Group(next)) > MaxCount
     \/ ~isdyld(lmap[next].lib) /\ libs[lmap[next].lib].slide # 0
  /\ Go("refused")
  /\ UNCHANGED <<program, lmap, next, mapvars, table>>

WriteEnd ==
  /\ phase = "write" /\ next > Len(lmap)
  /\ table' = Append(table, 0)
  /\ Go("linked")
  /\ UNCHANGED <<program, lmap, next, mapvars>>

INext ==
  \/ Resolve \/ CannotResolve \/ Sort
  \/ FindParents \/ AskParent \/ Answer \/ FoundParents \/ AllParents
  \/ TryCombination \/ Mark
  \/ WriteEntry \/ CannotWrite \/ WriteEnd

-----------------------------------------------------------------------------
(* Properties.                                                             *)

\* What dyld loads for a set of libraries named in the header: all that they need.
Loaded(named) ==
  {j \in DOMAIN libs : \A s \in SUBSET DOMAIN libs :
     named \subseteq s /\ (\A k \in s : libs[k].childs \subseteq s) => j \in s}

\* The libraries named in the header bring in every library imported from, and
\* no other set that does has shorter names.
ShortestNames ==
  phase = "linked" =>
    LET length(s) == FoldSet(LAMBDA j, sum : sum + libs[j].name_len, 0, s)
        nameable  == {j \in DOMAIN libs : libs[j].name_len > 0}
        needed    == {lmap[n].lib : n \in DOMAIN lmap} \ {0}
    IN  /\ needed \subseteq Loaded(used)
        /\ \A s \in SUBSET nameable :
             needed \subseteq Loaded(s) => length(used) <= length(s)
============================================================================
