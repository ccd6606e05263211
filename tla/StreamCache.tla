---------------------------- MODULE StreamCache ----------------------------
(***************************************************************************)
(* StreamCodec::Encode over several runs of the packer that share a cache  *)
(* file (CacheFile.cpp).  A run either searches for the best way to join   *)
(* neighbouring blocks and writes what it found to the cache, or takes     *)
(* that decision from the cache of an earlier run.                         *)
(*                                                                         *)
(* The cache is keyed on nothing but the number of blocks, is written in   *)
(* place, and a build can be interrupted at any time: later runs meet      *)
(* caches of other data and caches that end in the middle.                 *)
(*                                                                         *)
(* A block is a sequence of bytes; a header is its raw length and a token  *)
(* for its models.  The file is a sequence of fields; one cut in the       *)
(* middle reads like one that is missing, both set failbit.                *)
(***************************************************************************)
EXTENDS Integers, Sequences, SequencesExt

CONSTANTS
  Inputs,     \* the sequences of blocks that are packed, no block empty
  Shifts,     \* [1 .. 16]
  Tokens,     \* what CreateContextModels may come up with
  MaxRuns,    \* bound: runs of the packer
  MaxLength   \* [65535] EncodeHeaderAndClean: "Too long buffer"

ASSUME InputAssumption ==
  /\ \A input \in Inputs :
       /\ input \in Seq(Seq(Nat)) /\ Len(input) > 0
       /\ \A i \in DOMAIN input : Len(input[i]) > 0
  /\ Shifts \subseteq Nat \ {0} /\ MaxRuns \in Nat /\ MaxLength \in Nat

VARIABLES
  file,      \* the fields of the cache, <<>> when there is none
  phase,     \* "idle", "starting", "encoding", "writing", "packing", "packed"
  blocks,    \* encodeBlocks of the present run
  shift,     \* _shift
  final,     \* finalBlocks: how many blocks are joined, their data, the header
  unsaved,   \* fields that writeFile has still to write
  cached,    \* the present run took its decision from the cache
  runs,      \* runs started
  author     \* history: the run that wrote the cache, "nobody" unless it
             \* got to the end of it

vars == <<file, phase, blocks, shift, final, unsaved, cached, runs, author>>

Nobody == [blocks |-> <<>>, shift |-> 0, final |-> <<>>]
Myself == [blocks |-> blocks, shift |-> shift, final |-> final]
Joined(bs) == FlattenSeq(bs)
Final(count, data, token) ==
  [count |-> count, data |-> data, header |-> [size |-> Len(data), token |-> token]]

Init ==
  /\ file = <<>>
  /\ phase = "idle"
  /\ blocks = <<>> /\ shift = 0 /\ final = <<>> /\ unsaved = <<>>
  /\ cached = FALSE /\ runs = 0 /\ author = Nobody

\* The packer is started on some data, perhaps edited since the last run.
Start(input) ==
  /\ phase = "idle"
  /\ runs < MaxRuns
  /\ runs' = runs + 1
  /\ blocks' = input
  /\ phase' = "starting"
  /\ cached' = FALSE
  /\ UNCHANGED <<file, shift, final, unsaved, author>>

-----------------------------------------------------------------------------
(* The cache file: shift, number of blocks, number of entries, and for     *)
(* every entry the number of joined blocks, the header's size and itself.  *)

CacheFields(sh, numBlocks, entries) ==
  [j \in 1 .. 3 + 3 * Len(entries) |->
     CASE j = 1     -> sh
       [] j = 2     -> numBlocks
       [] j = 3     -> Len(entries)
       [] j > 3 /\ j % 3 = 1 -> entries[j \div 3].count
       [] j > 3 /\ j % 3 = 2 -> "length"
       [] j > 3 /\ j % 3 = 0 -> entries[j \div 3 - 1].header]

\* Mutant of ReadsWhole: the file could be opened.
ReadsOpen(f) == Len(f) >= 3

\* readFile returns bool(file): every field it asked for was there.
ReadsWhole(f) == Len(f) >= 3 /\ Len(f) >= 3 + 3 * f[3]

Combine(f) == [i \in 1 .. f[3] |-> IF 3 * i + 1 <= Len(f) THEN f[3 * i + 1] ELSE 0]
CachedHeader(f, i) ==
  IF 3 * i + 3 <= Len(f) THEN f[3 * i + 3] ELSE [size |-> 0, token |-> "none"]

\* Mutant of CachedShift: the shift is left at the default.
CachedShiftUnread(f) == 0

CachedShift(f) == f[1]

CacheApplies == ReadsWhole(file) /\ file[2] = Len(blocks)

\* Blocks i + 1 .. i + n as one.
Slice(i, n) == Joined(SubSeq(blocks, i + 1, i + n))

\* Sum of the first k counts: where the next joined block starts.
StartOf(counts, k) == FoldLeft(LAMBDA a, b : a + b, 0, SubSeq(counts, 1, k))

\* The loop over the cached entries goes on until the blocks are used up.
Entries(f) ==
  {k \in 1 .. f[3] : StartOf(Combine(f), k - 1) < Len(blocks)}

\* Mutant of SetHeader: the length of the cached header stays.
SetHeaderStale(header, data) == header

\* SetHeader keeps the models and takes the length of the data at hand.
SetHeader(header, data) == [header EXCEPT !.size = Len(data)]

UseCache ==
  /\ phase = "starting"
  /\ CacheApplies
  /\ cached' = TRUE
  /\ shift' = CachedShift(file)
  /\ final' = [k \in Entries(file) |->
                 LET n    == Combine(file)[k]
                     data == Slice(StartOf(Combine(file), k - 1), n)
                 IN  [count |-> n, data |-> data,
                      header |-> SetHeader(CachedHeader(file, k), data)]]
  /\ \A k \in DOMAIN final' : Len(final'[k].data) <= MaxLength
  /\ phase' = "packing"
  /\ UNCHANGED <<file, blocks, unsaved, runs, author>>

-----------------------------------------------------------------------------
\* Brute force.  A combination says where its joined blocks end: behind the last
\* block, and wherever its number has a bit.
Combinations ==
  {ends \in UNION {[1 .. m -> 1 .. Len(blocks)] : m \in 1 .. Len(blocks)} :
     /\ ends[Len(ends)] = Len(blocks)
     /\ \A k \in 1 .. Len(ends) - 1 : ends[k] < ends[k + 1]}

Counts(ends) == [k \in DOMAIN ends |-> ends[k] - (IF k = 1 THEN 0 ELSE ends[k - 1])]

\* The estimated lengths decide which combination, shift and models win; any
\* may.  All combinations are tried, so all blocks together must fit the two
\* bytes of a block length (EncodeHeaderAndClean, "Too long buffer").
Search(ends, sh, tokens) ==
  /\ phase = "starting"
  /\ ~CacheApplies
  /\ Len(Joined(blocks)) <= MaxLength
  /\ LET counts == Counts(ends)
     IN  final' = [k \in DOMAIN counts |->
                     Final(counts[k], Slice(StartOf(counts, k - 1), counts[k]),
                           tokens[k])]
  /\ shift' = sh
  /\ phase' = "encoding"
  /\ UNCHANGED <<file, blocks, unsaved, cached, runs, author>>

\* ofstream with trunc: what was there is gone before the first field is out.
OpenCache ==
  /\ phase = "encoding"
  /\ file' = <<>>
  /\ author' = Nobody
  /\ unsaved' = CacheFields(shift, Len(blocks), final)
  /\ phase' = "writing"
  /\ UNCHANGED <<blocks, shift, final, cached, runs>>

\* No cache file name, or it cannot be opened; the result is not looked at.
NoCache ==
  /\ phase = "encoding"
  /\ phase' = "packing"
  /\ UNCHANGED <<file, blocks, shift, final, unsaved, cached, runs, author>>

WriteField ==
  /\ phase = "writing" /\ unsaved # <<>>
  /\ file' = Append(file, Head(unsaved))
  /\ unsaved' = Tail(unsaved)
  /\ author' = IF Len(unsaved) = 1 THEN Myself ELSE author
  /\ UNCHANGED <<phase, blocks, shift, final, cached, runs>>

CloseCache ==
  /\ phase = "writing" /\ unsaved = <<>>
  /\ phase' = "packing"
  /\ UNCHANGED <<file, blocks, shift, final, unsaved, cached, runs, author>>

\* The disk is full: the stream goes bad, the fields after that are dropped.
WriteFails ==
  /\ phase = "writing" /\ unsaved # <<>>
  /\ unsaved' = <<>>
  /\ UNCHANGED <<file, phase, blocks, shift, final, cached, runs, author>>

-----------------------------------------------------------------------------
\* Both arithmetic encoders go over the blocks; the stream is complete.
Pack ==
  /\ phase = "packing"
  /\ phase' = "packed"
  /\ UNCHANGED <<file, blocks, shift, final, unsaved, cached, runs, author>>

\* The run ends, gives up in an ASSERT, or is killed somewhere on its way.
Stop ==
  /\ phase # "idle"
  /\ phase' = "idle"
  /\ blocks' = <<>> /\ shift' = 0 /\ final' = <<>> /\ unsaved' = <<>>
  /\ cached' = FALSE
  /\ UNCHANGED <<file, runs, author>>

Terminating == phase = "idle" /\ runs = MaxRuns /\ UNCHANGED vars

Next ==
  \/ \E input \in Inputs : Start(input)
  \/ UseCache
  \/ \E ends \in Combinations, sh \in Shifts,
        tokens \in [1 .. Len(blocks) -> Tokens] : Search(ends, sh, tokens)
  \/ OpenCache \/ NoCache \/ WriteField \/ CloseCache \/ WriteFails
  \/ Pack \/ Stop \/ Terminating

Spec == Init /\ [][Next]_vars

-----------------------------------------------------------------------------
(* Properties.                                                             *)

\* Every block of the input is packed exactly once and in order, and every
\* header says the length of its own data, whether the split was searched for
\* or comes from a cache that was written for other data.
PacksTheInput ==
  phase \in {"encoding", "writing", "packing", "packed"} =>
    /\ Joined([k \in DOMAIN final |-> final[k].data]) = Joined(blocks)
    /\ \A k \in DOMAIN final : final[k].header.size = Len(final[k].data)
    /\ \A k \in DOMAIN final : final[k].data # <<>>

\* A cache that an interrupted run or a full disk cut short is never used: the
\* fields a reader asks for are all there only when all have been written.
OnlyWholeCaches == cached => author # Nobody

\* Packing the same data again with the cache gives the stream of the run that
\* searched, header for header, though only tokens and counts were saved.
CacheReproduces ==
  cached /\ author.blocks = blocks => Myself = author

=============================================================================
