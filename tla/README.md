# BR4096 in TLA+

BR4096 is a 4096-byte intro for macOS together with the tools that make it fit:

* **oneKpaq** (`src/laturi/onekpaq/`), a context mixing packer whose unpacker is
  a few hundred bytes of 32-bit assembler inside the intro;
* **laturi** (`src/laturi/*.c`), a linker that imports functions by hash and
  hands the linked image to a packer: oneKpaq, or **kompura**, an optimising
  deflate encoder;
* the **intro** (`src/intro.asm`, `src/audio/`, `src/video/`): a software
  synthesizer in an audio callback, and a main loop that draws one shader.

What a small test cannot show is that packer and unpacker agree. The two sides
are different programs (C++ and hand-optimised assembler that reuses flags,
headers and uninitialised registers), talk through a bit stream without any
redundancy, and a disagreement of one point in one sub-range, 30 000 symbols
into the data, means an intro that crashes. The modules here start from that.

## 1. Inventory

| component | state | operations | interacts with |
|---|---|---|---|
| arithmetic encoder `ArithEncoder.cpp` | `_range`, `_value`, `_bitCount`, `_dest`/`_destPos`, `_hasPreBit` | PreEncode, Encode, EndSection, Finalize; each runs Normalize | called by BlockCodec; its bytes go to both decoders |
| arithmetic decoder `ArithDecoder.cpp` | `_src`/`_srcPos`, `_range`, `_value`, `_destPos`, `_hasPreBit` | PreDecode, Decode, ProcessEndOfSection; ASSERTs | called by BlockCodec; only used to verify |
| unpacker `onekpaq_decompressor32.asm` | registers, source bytes shifted out in place, header words counted down in place | one loop | runs in the intro on what StreamCodec produced |
| block codec `BlockCodec.cpp` | models, weights, raw length, header | CreateContextModels, EncodeHeaderAndClean, DecodeHeader, SetHeader, Encode, Decode | float context models; DispatchLoop |
| stream codec `StreamCodec.cpp` | mode, shift, headers, two packed streams | Encode, LoadStream, Decode, DecodeAsmStream, CreateAsmHeader | block codec, cache |
| cache `CacheFile.cpp` | shift, block count, counts, headers; a file | readFile, writeFile | shared between runs of the packer |
| parallel loop `SimpleDispatch.hpp` | none of its own | DispatchLoop | a thread pool; arrays written without locks |
| kompura `kompura.c` | slots of packed runs, Huffman maps, a buffer of bits | pack every run in several ways, choose the cut, write blocks | called by laturi with its blocks; zlib format |
| linker `hashloader.c` | libraries, symbols, sections, relocations, the image | resolve names, choose libraries, write hashes, lay out, relocate, translate calls, hand over blocks | objects, dyld of the building machine; both packers; the loader |
| `onekpaq_integration.cpp` | blocks | takes blocks until they add up, calls StreamCodec | linker, packer |
| loaders `loader32.asm`, `loader64.asm` | jump table, place in the hash table, in dyld's lists | hash every exported name, store the address; restore calls | the linker's table and numbers, dyld |
| audio `src/audio/` | `sample_position`; per channel place in the song, rest, flags, pitch, patch; per voice envelope and delay line | AudioProc, a buffer per call | called by CoreAudio's thread; main loop reads the sample counter |
| main loop `src/intro.asm` | none of its own | poll the counter, draw, quit | audio callback thread |
| video, drivers, build tools, song data | -- | straight-line set-up, option parsing, constants | -- |

What is hard here, and what correctness means:

* **the coder**: the encoder sends bits before the interval they belong to is
  settled (carries), warms up for 33 doublings, flushes a fixed 63, plants three
  framing bits. Correct: the decoder gets back every bit with the same ranges,
  and no carry is lost.
* **the single section trick**: the end symbol costs no table space because it
  shares an interval boundary; the coder's range is one point too wide after
  every zero. Correct: whatever is decodable is accepted and whatever is not is
  caught by a check before it ships.
* **the unpacker**: finds byte ends by a sentinel bit and the end of data by a
  processor flag; `ebp` starts undefined. Correct: it agrees with the C++
  decoder that stands in for it, and stays inside its memory.
* **headers**: weights are coded by the order and repetition of model bytes and
  read forwards by one program, backwards by another. Correct: both get the
  same models and weights.
* **the search**: long sequences of edits of a model set, in parallel. Correct:
  always encodable; no race; no result read early.
* **the cache**: survives kills and full disks, is keyed on the block count
  only. Correct: the input is packed whatever the cache holds, and a partial
  cache is never used.
* **kompura**: budgets of code points spent symbol by symbol, tables cut into
  repeats, an odometer over all cuts, bits put together across bytes, an end
  symbol that may be missing. Correct: any inflater gets the image back, and what
  is written is the best of what was considered.
* **laturi and its loader**: functions are found by hash, in the order another
  machine happens to hold them, by loops that have no end; sections move between
  linking, packing and running; calls are rewritten without decoding
  instructions, by a byte in front. Correct: what is not refused binds and is
  restored exactly, and the references that the linker understands (section 5
  lists the others) lead where they should.
* **audio**: state of three different life times (sample, tick, row) that the
  system's buffers cut anywhere. Correct: what sounds is what is written.

## 2. Modules

| module | models | size parameters |
|---|---|---|
| `ArithInterval` | what an arithmetic encoder promises, in unbounded numbers: the abstract specification | Threshold, Skip |
| `ArithEncoder` | `ArithEncoder.cpp`, called as `BlockCodec::Encode` and `StreamCodec::Encode` do | Threshold, WarmUp, Unit, FlushBits, ByteBits, StreamByte |
| `ArithDecoder` | `ArithDecoder.cpp` | Threshold, ByteBits, StreamByte |
| `ArithCodec` | encoder, then decoder on its stream; run as part of `AsmCodec` | both |
| `AsmDecoder` | the arithmetic half of `onekpaq_decompressor32.asm` | and LenWord |
| `AsmCodec` | encoder, C++ decoder, unpacker on the same stream | and LenWord |
| `BlockHeader` | block and stream headers, and the four programs that write or read them | ModelCount, ByteMax, LengthByte |
| `ContextSearch` | `CreateContextModels`, then both streams of headers | Weights, SeedWeights, Sizes |
| `StreamCache` | `StreamCodec::Encode` and `CacheFile` over several runs | Inputs, Shifts, Tokens |
| `DispatchLoop` | `DispatchLoop` on a thread pool | Threads, Iterations, Stride |
| `HuffmanLengths` | `optimize_huffman_coeffs`: code lengths and codes from counts | MapSize, Width, MaxBitLen, Smooths |
| `Codewords` | `encode_codeword` and deflate's meaning of a symbol; real numbers throughout | -- |
| `TableLengths` | `create_best_huffman_map`: run-length coding of the two tables as code words; real numbers | LitTables, DistTables |
| `DeflateStream` | `write_bits`, `write_compressed_data` | ByteBits, LenBytes |
| `BlockChoice` | `kompura`: the slots of packed runs, the odometer, the writing of the blocks chosen; extends `DeflateStream` | LinkerBlocks, Image, Items, Codings, Ways, MaxRaw, HdrLen, Room |
| `Inflater` | a reader of the bytes written; extends `BlockChoice` | -- |
| `ImportTable` | `map_funcs`, `map_libs`, `create_map`: names, libraries, hash table | Programs, MaxCount |
| `ImportLoader` | the loader's walk over dyld's lists and the hash table; extends `ImportTable` | -- |
| `LinkBinary` | `link_binary`: order, places, relocations, the blocks for the packers; extends `ImportTable` | Segment, MinFile, Field, ItemSize, CommandSize, Packed |
| `CallTranslation` | translation of calls in `link_binary` and its reversal in the loader; extends the two above | ByteValues, CallByte, MaxTranslations |
| `Laturi` | the three together: objects in, running program out | -- |
| `AudioPlayer` | `audio_proc.asm`, the sequencer and the voices of `player.asm`, envelope and delay of `modules.asm` | Songs, Patches, TickDivider, TicksPerRow, OffTick, DelaySize, One |
| `CodecProofs`, `ContextSearchProofs`, `StreamCacheProofs`, `KompuraProofs`, `ImportProofs`, `LaturiProofs`, `AudioPlayerProofs` | theorems (section 4) | -- |
| `Induction` | what those rest on: induction over a set of naturals and over sequences, powers of two without exponents, what folds, flattening and sums compute, greatest and least elements | -- |

The `MC*` modules only give the constants that are functions or sets of
sequences their small values.

### The coder

One call of the source is one action (`PreEncode`, `Encode`, `EndSection`,
`FinalizeStep`) that narrows the range, followed by the iterations of
`Normalize` (`Shift` while the warm-up counter runs, `SendBit` after it,
`Overflow` for the ASSERT). No call starts before the range is back at the
threshold (`Ready`), as in the source, where Normalize is the tail of every
call. The ASSERTs end a behaviour in a phase of their own.

Sub-ranges are nondeterministic. `CalculateSubRange` computes them in floating
point from the data before the symbol, the models and the present range, and
clamps nothing; so an action takes any number up to the range, and the
"probability error" ASSERT is an action that can fire. The decoder asks the same
function. In `ArithCodec` the encoder's calls are recorded and the decoder is
given the sub-range of the same call, which is right as long as it has decoded
the same bits and has the same range -- `DecoderFollows` says the first,
`MirrorRange` the second, so the abstraction is discharged by what it is used to
check. A decoder that returns a wrong bit stops there (`DecoderWrongBit`).

The word size is a parameter. `Unit[b]` is the width of the whole interval
while `b` warm-up doublings are left; in the source 2^30 at the start, 2^63 when
bits are sent. `Finalize` goes on to count: `FlushBits` doublings, 63 in the
source, at the fixed width. With a threshold of 4 or 8 instead of 2^30 a handful of symbols
takes the encoder through warm-up, framing, carries and flushing.

Three history variables see what the program does not keep. `ceiling` in
`ArithCodec` is how far above the encoder's low end the nearest point lies that
an earlier single section zero gave away; it separates the streams that can be
decoded from those that cannot without decoding them. `calls` records for every
call also the low end and the scale of its interval, and `marks` where in the
stream the register stood: the proofs need them, and no guard reads them. A
fourth, `ends` in `AsmCodec`, records how many calls there were when each block
was closed.

### The unpacker

`AsmDecoder` follows the registers: `ReadBit` and `ReadBitOfNextByte` are the two
paths through `shl / jnz / inc / rcl`, the second with a byte that can be
anything when it lies behind the stream; `SingleSymbol` and `MultiSymbol` are the
two builds of the code behind `fistp`, flags included. `Enter` takes `ebp` from
its whole range. `AsmWalk` and `AsmStarts` in `BlockHeader` are the context loop
and `skip_header_loop` over the header bytes in the order `edx` meets them.

### Headers and search

`Repeats` is the "free double" of `EncodeHeaderAndClean`; weights are kept as
exponents. `ContextSearch` lets every comparison of estimated lengths have either
outcome, so its states are all the sets any data could lead the search through.

### The cache

Every field that `writeFile` writes is a step, a run can be stopped between any
two (`Stop` covers the normal end, an ASSERT and a kill), and the disk can be
full at any field. `author` is a history variable that remembers which run
completed the file.

### kompura

The six modules follow a block backwards from the decision to the bits.
`HuffmanLengths` has an action per level merged (`RemoveLevel`) and per pass of
the spending loop (`Spend`); a pass is the fold `ScanStep` over the symbols in
qsort's order, including that it writes a saving off once it cannot be afforded.
Shares and savings, ratios in the source, are compared as integers. `-log2` of a
zero count is an infinity whose conversion to an integer is undefined; the model
takes what x86 gives, zero, which is what the rest of the function relies on.

`TableLengths` runs the two nested loops over `tmp_table`, one word per step,
and next to it the table of an inflater (`heard`, a history variable).
`BlockChoice` keeps the flat index arithmetic of `w`. What the ways of packing
make of a run of bytes is a *coding* (a code, the bits of its tables, the words)
that the configuration gives, two different ones for every run independently;
storing is computed as in the source. `dispatch_apply` is a barrier, and its items
write nothing but their own slot and read nothing that another one writes, so the
order of the calls makes no difference: `Pack` fills the slots of one group after
the other (how a pool runs such a loop is the subject of `DispatchLoop`). The blocks
of the best cut are then written by `DeflateStream`'s actions, so the length compared, the
bits written and what a reader makes of them are one behaviour. `DeflateStream`
writes bytes: `Put` is the pair of `|=` at the end of `write_bits`. Only the part of
the buffer that can be reached is a function of bytes (`Room`). The reader
(`Inflater`) and the meaning of symbols are written from RFC 1951, which the source
names as its only reference, and marked external. It is a module of its own since it
is recursive, and nothing that is proved depends on it.

The buffer for the stream is twice the image and holds the shell stub too.
Packing never makes much of a block longer (storing costs five bytes, the static
code nine bits for a literal at the most), and the linker hands over at least its
own header: `BufferHolds` checks that this is enough at the tightest sizes.

### laturi and its loader

A program is data: libraries with their tables in the order dyld gives them,
symbols, sections with references, hashes. Names are numbers and the hash is any
function of them, so that every clash the loader could meet is one of the
inputs. `ImportTable` resolves (`Resolve`, refusing in `CannotResolve` what it
cannot tell apart) and sorts. `find_named_parents_r` marks libraries as it goes from
one to its parents; its calls are the stack `path`, and a step enters a library
(`AskParent`) or leaves it (`Answer`). Then the odometer `NextCombs` runs over the
libraries that could be named for those needed, and the table is written entry by entry. `ImportLoader` is the loader's three nested scans; none of
its actions is defined behind the end of a list, so a scan that does not stop in
time is a behaviour that stops half-way, which `StartsOrRefused` forbids.

`LinkBinary` collects the sections, orders them by the source's key, places one per
step (`Place`, with BSS, alignment, the hidden area for what will be unpacked
elsewhere), then relocates one section per step. A field has a width, up to an
address, and is a number modulo what so many bytes hold: `Contents` is what an
assembler leaves in it, `ta_contents` what the linker reads of that with its sign,
`Number` what it makes of it, and `Plain` what there is room for (`OutOfBounds`, the
code's test of byte and word fields, can never hold). `Value` is `Lost`, which is any
bytes, where the code takes the symbols of another file or reads behind a table
(`Astray`).

Calls are translated into the jump table as the code does it: a field of the width of
an address that names one of the first `MaxIndex + 1` slots, at a short address, with
the byte `0xe8` in front (`Translatable`, `BytesInFront`). That byte is the
reference's `front`, or the last byte of a field that ends there, which is relocated
already if it comes first in the list (`LastByte`); in front of a section it may be
anything. More than `MaxTranslations` are refused (`Room`). What is
found is in `translations` and only written when all sections are relocated
(`Relocated`): an indirect call is one byte longer than the call, so it writes
over the last byte of a field in front of it (`Spoiled`).

`ReferencesRight` computes where each reference ought to lead from the objects
alone, and asks for an indirect call only in place of a relative reference with
nothing added. It is about the references that `IsUnderstood` describes, and that is not
all of them: section 5 has, for each of its conditions, the lines that get the others
wrong. What a reference is (relative, added to, packed) enters
there and in the assembler's `Contents`; `Relocate` decides by what the code tests.
`CallTranslation` works on bytes, to a small base: the
linker's scan (`FindCall`) with its skipping, its limit and its count, and the
loader's, which is told one number. `Laturi` runs them in the order of
`LATURI_generate`, then starts the program.

### The player

A call of `AudioProc` is a buffer of any allowed size; a sample is `PlayNotes`,
which does something at the start of a tick only, a `ProcessVoice` for every
channel in order, and `SampleDone`. The song is read word by word as in
`.load_flags`: a rest of n + 1 rows, or a note, flags and a patch that may each be
missing. What is remembered across rows (flags, pitch, the patch loaded into the
modulators) is not what a row says; `Score` reads the same words with none of that
state, and `SoundsAsWritten` compares. The cells of a delay buffer hold who wrote
and when instead of a level; `heard` and `peak` are history variables. A delay
time may change from sample to sample, as an oscillator may drive it.

Some facts found on the way, all harmless with the song that ships: a delay of D
whole samples mixes the samples D and D - 1 ago with the weights of the fraction,
so it is one sample shorter than its knob; times 0 and 1 read the oldest cell of
the buffer and only occur before a patch is loaded or with the silent patch; the
list of patches points one patch at a channel's zero words; behind the last row
the sequencer reads on into other data, which the main loop prevents by leaving
before (`SongSamples` is that bound).

## 3. Runs

| run | configuration | properties |
|---|---|---|
| `codec_false_end` | as `asm_single` | a counterexample to the decoder's "End of section detected in middle of stream" (section 5) |
| `asm_multi` | Threshold 4, 2-bit bytes, 4 data bits, 2 blocks, 4-bit stream bytes; LenWord 3, so the first length wraps | `TypeOK`, `RegisterDrained`, `DecoderFollows`, `MirrorRange`, `ReadsWhatWasSent`, `MultiUnpacks`, `UnpackerStaysInside` |
| `asm_single` | Threshold 4, 6 data bits | `RegisterBound`, `ImplementsExact`, `SingleAsmVerdict`, `CheckPredictsUnpacker` |
| `search` | 3 model numbers, weights 2, 4, 8, 2 blocks of every length | `Encodable`, `HeaderRoundTrip`, `StreamParses`, `AsmStreamParses` |
| `cache` | 3 runs, 4 inputs | `OnlyWholeCaches`, `PacksTheInput`, `CacheReproduces` |
| `dispatch` | 3 threads, 7 iterations, strides of 3 | `NoRace`, `AllDone`, `Returns` |
| `huffman_free` | 5 symbols, counts up to 5, 32 code points, no limit in the way | `BudgetKept`, `Complete`, `ReaderAgrees` |
| `huffman_capped` | the same with lengths up to 3 | a counterexample to "Pessimistic budget is below zero" (section 5) |
| `table_lengths` | about 500 literal codes and 20 distance codes of full size | `TablesArrive` |
| `blocks` | up to 4 linker blocks, 3 ways to pack a run | `BufferHolds`, `Shortest`, `NoLongerThanPlanned`, `BitsInOrder`, `ReaderGetsData` |
| `laturi` | about three thousand small programs, 285092 states | `BoundRight`, `ShortestNames`, `SectionsApart`, `BlocksAddUp`, `ReferencesRight`, `CodeRestored`, `StartsOrRefused` |
| `player` | 731 songs, rows of 4 ticks of 2 samples | `SoundsAsWritten`, `EveryNotePeaks`, `EchoesInTime` |

Each property has a mutant of a definition under which its run fails;
`PROJECT.json` lists them, and a mutant stands right before the definition it
replaces.

**The coder's bounds** are large enough that every phase of a stream is passed
with every carry pattern: more bits are sent before Finalize than a stream byte
holds, the register is longer than one symbol, at least one symbol needs no
doubling and one needs the most there can be. `asm_single` needs six data bits:
with four no symbol can yet land on a point given away earlier. With a threshold
of 4 `RegisterDrained` cannot tell 63 halvings from 62, since the last one finds
the register empty; `ReadsWhatWasSent` can, and `FinalizeSuffices` is proved for
every size. `Standard` streams, which differ from `MultiAsm` in the framing and
the order of calls, are covered by the proofs alone.

`search` takes model numbers up to one less than the largest byte, as in the
source, and every byte value in both halves of a length. The cache needs three
runs: one that writes, one that is cut short or works on other data, one that
reads.

**kompura.** Five symbols are enough for a code with more than two lengths on
which the spending loop has a choice, runs out of affordable symbols and writes
savings off; smoothing needs a level that is merged and one that is not. The
images of `blocks` come in families: sizes 5, 38 and 43 with codings a few bits
around the stored length, so that which block wins changes with the bit it
starts at; 46, one more than the largest stored block, which is only kept out by
a length of infinity; three blocks of 12, all literals of the static code, the
longest that any image gets against its buffer; four blocks of 11, the first
number for which the odometer has a digit that wraps while one before it and one
behind it move; and a block of matches beside one of 32 bytes, that takes every
word to every bit position. Stored blocks only win beyond 32 bytes, since below
the static code is shorter. Symbols and extra bits change only at the ends of a
range, all of which are among the matches.

**laturi.** The families are: every assignment of three hashes to four names in
three orders of a library's table, with library hashes that clash or not, under
both rules for what clashes, bound or refused; libraries that need each other in all of 64
ways, circles included, with equal and unequal name lengths; every kind of
reference from code of one object into its own sections, another object's, the
jump table, a thrown away section, BSS, in fields of one, two and three bytes
(one is as short as a byte of the source, three is refused as eight bytes are), with and without
packing and translation of jumps; twelve ways to have a call byte in front of a field (of calls to the
first slots and to one behind `MaxIndex`, of fields that are no call, of fields that
end with that byte before or after they are relocated, or at the start of a section,
and of two fields in a row) in each of two
objects; references into a table of jumps to each entry and behind the
last, packed and not; relative and absolute ones from a section that its object has at
24; three calls, which are as many as `MaxTranslations`, and four; two references for the
packed data; five areas for them, too small and with BSS right behind; and every sequence of three of six pieces of code in which call bytes
are calls, operands, overlap, or are missing, with a table for three
translations so that the limit is met. A byte has 32 values and an address two bytes. Segments of 256, files of 80 and fields of
two bytes keep the proportions of 65536, 4096 and four: sections cross a short
address, a file has to be filled up, and another has not.

**player.** Three words are enough for a note tied to another, one struck while
the last still falls, a patch that changes between, flags added to a row without
a note, and rests of one and two rows before, between and after; a row of 4 ticks
ends notes in the third. Attack and level do not divide. The delay buffer of 6
cells is lapped four times and more, its times include both ends, and buffers of 3 and 5
samples cut ticks and rows everywhere. `TickDivider` 2 makes ticks that are not
samples.

**Fairness** is assumed twice. In `DispatchLoop`: the pool goes on with some
stride as long as there is one (the calling thread takes part in
`dispatch_apply`), and `dispatch_apply` returns. In `Laturi`: one process runs
after the other and waits for nothing, so it goes on when it can. All other
properties are safety properties.

## 4. Proofs

| theorem | states | for every |
|---|---|---|
| `CodecProofs!TypeCorrect` | `TypeOK` | word size, warm-up, bound, encoder type |
| `CodecProofs!NoCarryLost` | `RegisterBound` | the same |
| `CodecProofs!Refinement` | `ImplementsExact` | the same |
| `CodecProofs!FinalizeSuffices` | `RegisterDrained` | the same |
| `CodecProofs!MultiAndStandardUnpack` | `DecoderFollows` | the same, MultiAsm and Standard; blocks and bits |
| `CodecProofs!SingleJudged` | `SingleAsmVerdict` | the same, SingleAsm |
| `CodecProofs!IntroUnpacks` | `MultiUnpacks` | the same, MultiAsm |
| `CodecProofs!CheckPredicts` | `CheckPredictsUnpacker` | the same, MultiAsm and SingleAsm |
| `CodecProofs!IntroStaysInside` | `UnpackerStaysInside` | the same |
| `CodecProofs!SameQuestions` | `MirrorRange` | the same |
| `CodecProofs!StreamUsedUp` | `ReadsWhatWasSent` | the same |
| `CodecProofs!AlwaysDrained` | `RegisterDrained` in the composition | the same |
| `ContextSearchProofs!AlwaysEncodable`, `!HeadersReadBack` | `Encodable`, `HeaderRoundTrip` | model numbers, weights, seeds |
| `ContextSearchProofs!StreamReadsBack`, `!UnpackerFindsBlocks` | `StreamParses`, `AsmStreamParses` | the same; block sizes, number of blocks, size of a byte |
| `ContextSearchProofs!RaceFree`, `!NothingMissing` | `NoRace`, `AllDone` | threads, iterations, stride |
| `StreamCacheProofs!CutShortNeverUsed`, `!PackedWhole`, `!CacheGivesTheSame` | `OnlyWholeCaches`, `PacksTheInput`, `CacheReproduces` | inputs, models, number of runs |
| `AudioPlayerProofs!DelaysInTime`, `!PlaysAsWritten`, `!NotesAreStruck` | `EchoesInTime`, `SoundsAsWritten`, `EveryNotePeaks` | song, patches, tick rate, buffer length, cuts into calls |
| `KompuraProofs!KompuraShortest` | `Shortest` | number and sizes of linker blocks, ways of packing, lengths of what they give |
| `KompuraProofs!KompuraNoLonger`, `!KompuraBufferHolds` | `NoLongerThanPlanned`, `BufferHolds` | the same; sizes of bytes, stub and headers |
| `KompuraProofs!KompuraBitsInOrder` | `BitsInOrder` | the same; codes and words |
| `KompuraProofs!HuffmanBudget`, `!HuffmanComplete` | `BudgetKept`, `Complete`, if the counts add up to 2^MaxBitLen at most | number of symbols, counts, size of the budget, limit, smoothing |
| `KompuraProofs!HuffmanReader` | `ReaderAgrees` | the same, without the condition |
| `KompuraProofs!TablesReadBack` | `TablesArrive` | the two tables of code lengths |
| `ImportProofs!LoaderBindsRight` | `BoundRight` | programs, libraries, hashes, number of imports |
| `ImportProofs!NamesAreShortest` | `ShortestNames` | the same; which libraries need each other, lengths of names |
| `LaturiProofs!SectionsStayApart`, `!BlocksFit` | `SectionsApart`, `BlocksAddUp` | objects, sizes, what oneKpaq makes of them |
| `LaturiProofs!CodeComesBack` | `CodeRestored` | the same; code, size of bytes and operands |
| `LaturiProofs!ReferencesArrive` | `ReferencesRight`, so about the references that `IsUnderstood` describes | the same; symbols, references of every kind and width, bytes in front of them, limits of the translation |

**The encoder.** The inductive invariant is
`Inv == TypeOK /\ RegisterBound /\ WarmUpSilent`. `RegisterBound` says
`2 * value + 3 * range <= 3 * Unit[bitCount]`. The obvious
`value + range <= Unit` is not inductive: the single section coder adds one
point too many at every zero. The surplus can reach half the interval: narrowing
adds one to the value and takes at least two from the range, so the weights
2 and 3 are what makes a step pay for itself, and the shift doubles both sides.
From it follows that a value never outgrows the word before "Overflow" sees it
(lemma `FitsWord`), which lets the `% Word` be dropped in every step, and then
the refinement, with `payload * Carry + value` as the low end, is linear
arithmetic (`NarrowExact`, `ShiftExact`, `SendBitExact`). `WarmUpSilent` (nothing
has been sent while the counter runs) is needed to map `Shift`.

That Finalize empties the register is a second invariant, `Draining`: every
doubling since Finalize began has moved a zero in at the low end, so the value
times what is still to be doubled is a multiple of `Carry`, and after as many
doublings as the register has bits nothing but zero is left.

**Encoder and decoder.** All numbers are taken in the encoder's present scale. The
intervals of all calls so far lie inside one another and around the present one
(`calls` has their low ends and scales), and the number sent so far, followed by
anything, lies around the low end (`marks`). The decoder goes through the same
intervals with a value that is what the bits read so far are above the low end,
so it takes every decision as the encoder did. That both normalize to the same
range needs a fact about doubling (`SameMantissa`, over `Induction`): two
numbers that double from the same one into the window of the threshold are
equal. That the decoder does not read behind the stream is where Finalize has to
double as often as the register is long. All this carries over to the composition
with the unpacker, whose actions leave encoder and decoder alone.

**The single section mode.** There the decoder does not always follow, so the
proof says beforehand when it does. A one gives away the points from the split
on (`Above` holds if the number sent is one of them), and no bit in the middle of
a byte may have the value of the end (`Stuck`). Both are facts about the calls
and the number sent, known before anything is decoded. As long as a call
`Accepts` the number, the argument above applies to it word by word; the first
one that does not is where the decoder gives up (`Judged`). `ceiling`, which the encoder's side computes as it goes, reaches to the nearest point
given away, hence the verdict.

**The unpacker.** It is in step with the encoder in the same sense as the C++
decoder, and is wrong exactly if a call does not accept the number, which is
`CheckPredicts`. Four things have to be added (`UnpackerInv`). Where its bits
come from: after s bits, the byte at `ptr` is what is left of it with the sentinel
behind (`Remaining`, `LookedAt`), and the sentinel is the framing bit in the first
byte, passed on from byte to byte by `rcl`; `Place` skips the framing. What `ebp`
had in it: a multiple of twice the range above the value, until the pre-bit,
whose answer is always zero, and the doublings behind it shift it out. How
it counts: in the multi section mode the header words run out exactly with the
calls (`Counting`); in the single section mode it knows no more than where in a
byte it is (`Bytewise`), and the end, one symbol behind that of a byte, is told from
data only if a byte has more than one bit (`ByteAssumption`). And that Finalize
doubles often enough for all framing bits to be there (`Doublings`, from
`FramingAssumption`).

**Headers.** That the search keeps its sets encodable is an invariant about sets
(`SearchInv`): a number that is added is a free one, and a set is never left without a
model. Ordering such a set gives a sequence in which no number repeats
(`SortedIs`). The round trip is one invariant of the encoder's loop, `Arrives`:
after m models the decoder that has read the bytes so far has the same m models, every
weight short by the last one's (`Above`). One more model is a number written as often as the
weight falls (`RepeatsDouble`: a repeated number doubles everything once), and the
number itself; whether that one doubles as well is the comparison that `Repeats` makes
(`NextModel`), and the bytes behind the last model make up what is missing. The
streams are sequences of blocks that say their own length: a reader that has
skipped n blocks stands behind n blocks (`HeadersFound`), and goes on exactly if
the two bytes there are no end (`Marked`). The unpacker knows no lengths. Complementing
turns the decoder's "not below" into its `jbe` and 0xff, which is no model's number,
into its zero (`Follows`); a zero in place of the last byte, which only repeats the one
before, means the same (`HeaderEnds`), and is the first zero behind a block's first
model (`BlockMet`). Only the first block's length can wrap to two zeros, and nothing looks
there (`Tells`).

**The parallel loop.** The invariant follows an iteration through the life of its
stride: not called while the stride waits, called up to where its thread is while
one is in it, called once when it is over. Division is only needed to know that
every iteration is in exactly one stride.

**The cache.** A reader asks for three fields more than three times what the third
field says. While a run writes, `Between` says that what has been written and
what has not add up to that; so as long as something is missing, so does a field
the reader asks for, and killing a run or dropping its fields changes nothing of
that. No other run writes before it has thrown the file away. `Made` adds what the
entries are: whatever is packed, and whatever a whole cache holds, was cut from
its blocks as a search cuts them (`Cut`). The counts add up to the last end
(`CountsAddUp`), so a decision applied to other blocks of the same number still cuts
all of them, and pieces joined are the blocks (`PiecesJoin`); applied to the
same blocks it gives the same entries (`UseCacheIs`).

**The sequencer and the envelope.** The score is what the words of a channel
stand for, flattened. `Reads` says that the words read so far stand for the rows
played and for those of a rest still to be counted down; `Plays` says what a
channel remembers (gate, accent, pitch, patch) in terms of the rows alone, with the last
note and the last patch of them defined as maxima. A row takes the one to the
next row (`RowPlayed`), a tick ends what is to end (`TickPlayed`), and a sample
in between leaves row and tick as they are (`Clock`; division is confined to it). A
patch is set by the sequencer and loaded when the voice is computed, later in
the same sample (`Patched`). For the envelope `Shaped` says that either the
trigger bit is still up or the level was at the top since the note was struck;
that takes the gate of the sample before to be remembered exactly, and when a
note was struck is followed from sample to sample (`StruckNext`).

**Delay lines.** Voices are computed in order from the first sample on, so voice c
has buffer c - 1 and no other voice has (`Allotted`). A buffer of D cells that is
next written at w holds the last D samples: below w those of this lap, from w on
those of the lap before (`Ring`, `WrittenAt`). The lemmas `ReadCells` and
`WriteCell` say that the two cells read have the ages asked for and that a write
makes all others one sample older; they are the only ones that need the
remainder.

**kompura.** `KompuraInv` has a part for each phase. While slots are packed and put in
order it says what each holds, and that the first one of a group ordered has the
least length of the group: the loop exchanges slots, so what it keeps is that
they are those of before, rearranged (`Rearranged`). While the odometer runs,
`Cutting` says that the best length so far is what `best_comb` costs and no more
than any comb costs that came before the present one. Two functions are defined
from the end of the image backwards: what a comb costs from a linker block on (`Ahead`),
and the reference of `Shortest` (`Best`). `Successor`, that there is no comb between one and the next, gives that
all have been seen when every digit wraps, and `BestIsReached`, that the reference is the
cost of some comb, gives that the least has. The walk over any comb ends with the image, as no
digit is let beyond it (`CutEnds`). While blocks are written, bits so far, those of the
block at hand (`Rest`) and those of the blocks ahead are together no more than
`best_length`; that a stored block has been counted with its longest padding is the
only place where this is not an equation, apart from the end symbol that is left out. The
buffer is long enough because one block for all of the image is among the cuts and one
way of packing is the static code, with nine bits for a literal at the most; that
the image is long enough to have room for the stub as well is what
`BlockAssumption` says of the sizes, which is what LATURI_generate's least file is
for. The stream: `Hold` says that the bytes are the bits sent, cut into
bytes. `write_bits` or-s a value, shifted, into bytes that are zero from there on. Bit
strings are numbers by a fold, and powers of two are the numbers of subsets of a set
(`Subsets`), which is all that the provers know of them.

**Code lengths.** `LengthInv` says that `budget` is what the symbols leave of the code
points, a sum over the symbols; `SubsetInduction` and `SumsOver` give what a sum does
when one or several terms change. The lengths one starts with eat no more than there is: a
symbol that occurs c times in n has a length l with `c * 2^l >= n`, the Kraft
inequality, and here the condition of `HuffmanBudget` comes in: a length that was cut
off at the limit has it only if n is at most 2^MaxBitLen. Every later step asks
first. That the budget is used up needs more than the obvious invariant, because a pass
skips symbols with a saving of zero, and there are three ways to have one: one bit, never; too dear
once, for good, but then the budget only shrinks (`WrittenOff`); and a saving that smoothing has left
out of date, but that is never zero, as a level of one bit cannot be merged (`OneBit`).
So when a pass finds nobody, the longest code, which divides the budget and all
that was taken from it (`LeftDivides`), has one bit, and nobody is beside
it. For the reader, `SortedIs` says that qsort's order is one by length and symbol; symval
is then the sum over the shorter codes and those of the same length before,
and the former is `first` times what the length eats, by induction over the lengths
(`FirstsAre`).

**Code tables.** `TableInv` says that the inflater has the table up to what is said of the
run at hand, and that within a run at least three lengths are left and one is behind:
fewer than three no repeat can say, and a repeat of nothing has nothing to repeat.
`RepeatOfIs` is why the loop keeps that, `WordHeard` what the symbol with its extra
bits means to the inflater. At the end `TableIs` finds each code at its place.

**The imports.** `ImportInv` follows an imported symbol from the object to the jump
table. In the linker: what is in `lmap` was found where it is defined, and every
imported name is there (`ResolvedTo`); after sorting, dyld's only entry comes first
and the entries of a library stand together (`Listed`). The sort is qsort's, so all that is
known of it is that it gives some permutation in order. Where an
entry's cell is in the table follows from its place and the number of libraries
begun before it (`At`), and what has been written so far says of every entry in front
what its library and its name are (`Written`). In the loader (`LoaderInv`): while it
works on a slot it stands at that slot's cell, and the count it holds is that of the
entries the library has left (`InGroup`), so that it changes to the next library
exactly when the linker did. What remains is that the first equal hash is the right
one: for a symbol of an image that is `RightSymbol`, for the image itself
`FoundImageStep`, and both hold because `Clash` and `LibrariesClash` refused every
program in which an equal hash comes first.

**The names in the header.** `MapInv` has a part for each step of `map_libs`. While
the parents of a library are looked for, all that is marked loads it
(`ParentLoads`), and what is marked is either still on the stack or has all its
parents marked (`Walking`). So when the stack is empty, what is not marked is a set
of libraries none of which needs one that is (`AllLoaders`): nothing outside loads
the library, however the libraries need each other, in circles too. Hence `Maps`:
every library needed has all that may be named for it to choose from. The
combinations come in an order (`Earlier`), and the odometer's step leaves none out
(`OdometerNext`), nor does its end (`OdometerEnd`), so that the best is no longer
than any (`Tried`, `BestFound`). Any other set of names that will do has a library
that loads d for every d needed (`OneLoads`); so some combination is a part of it,
and a part is no longer than the whole (`NameLengths`).

**The image.** `BinaryInv` follows `link_binary`. qsort is known to give every section
the place of its rank (`KeyOrder`, `AllRanks`), from which all that the rest needs is that
the image is in layers (`Layered`): what is not packed is before what is, and in both
what is in the file is before BSS. (That the packed part has two sections, and the
first of them is in the file, is why the two blocks oneKpaq leaves always have room.) The
loop that gives places keeps three facts. Sections lie behind one another
(`Stacked`); all that is packed has one shift, which takes the first such section to
`decompress_offset` (`Shifted`: the code takes a shift of zero for "not known yet",
and a shift that really is zero is one that cannot be changed by the next section,
because that would lie behind `decompress_offset` and be refused); and the file is the first
sections with no gap, so that the blocks begin where their sections do (`Filed`,
`Begins`). From there on it is sums: an initial part of the blocks comes to the
place of the next one (`BeginsSum`), so the blocks from the first packed one on come to
what oneKpaq is told, and no fewer do, as no block is empty (`BlocksHanded`). Where a
section is at run time is then its place plus its shift (`ResidesIs`), and both
grow along the image.

**The calls.** `CodeInv` joins the linker's scan and the loader's. First, where the
code is: sorted by rank, the objects' code is the sections right behind the loader's
(`CodeBehind`), whose lengths come to that of the code in whatever order they are, so the loader's scan,
which starts at its own end, starts at the first byte the linker looked at
(`Spanned`). Then what the linker found: calls that are apart, their operands
inside the code, and no call byte between an operand and the next call (`Chain`); call
bytes in operands are of no account. The loader undoes the calls one by one;
with m undone, the code differs from the linked one in the operands of the calls from
the next one on and nowhere else, and in those it has what
makes the old operand when the address is subtracted (`Shape`, `ThereAndBack`). So in front of the
next operand both scans see the same bytes and stop at the same call. The loader has no
end of its own: what it counts down is, with m calls undone, the bytes from where
it stands to the end of the last operand, less what the calls ahead do not cost it
(`LeftAt`). That is enough to reach the next call as long as there is one, and zero
behind the last. That the bytes of a number make the number again is induction over
its digits (`Power`; `Digits`, `DigitsOf`).

**The references.** `RefInv` follows them from the objects to the file. The sections
that are collected are those of the objects, with the linker's own two (`MadeFrom`,
`Own`), and stay so when they are moved and reordered, hence what the assumptions say of
the references in the objects holds in the image (`Leads`, `Opcoded`), and a section is the only one with
its object and number. That header, decompressor and loader come first in their layers
(`Foremost`, `Arranged`) makes the addresses that `link_binary` takes from the first, the
second and the loader's section the right ones (`AllAddressed`), and gives the loop over the
sections the right symbols (`OwnerIs`: it takes the number of the section for that of the object).
A translation is of a reference to a function behind a call byte (`Found`). Every field
is the one that its places make, then what the translations leave of it
(`Overwritten`), and the last `Source` is set again when the packer has told the length of its header
(`FieldAt`, `Fielded`). `KeptWhole` says that no field that is understood is written
over: a translation beside it would be of a relative field, which has an opcode in front and no
field, or of one that is misread. The rest is arithmetic: what the object file has in
the field, less where the section was, plus where it is, is what `Meant` asks for
(`ValueRight`, with `ExternRight`, `SectionRight` and `CallRight` for the three ways to
name a place), up to a multiple of what the field holds, since the linker reads it cut
and writes it cut (`ContentsRead`, `ContentsCount`). Where it is means
run time: `Resides` is computed from the packed file alone, and `Settled` joins the two.

Facts about the table `Unit`, and what a fold computes for every sequence, need
induction, which the provers do not do. `Induction` gets it from the
well-foundedness of `<`, for a set of numbers (`SetInduction`) and for a set of
sequences (`SequenceInduction`), and the proofs apply it to the set of those
with the wanted property. `FoldAppend` says what a left fold of the community modules,
which they define over sets of indices, does with one element more; `FlattenAppend`
and `TotalAppend` say it of flattening and of sums.

The proofs assume the named assumptions of the modules they are about
(`EncoderTypeAssumption`, `WidthAssumption`, `BoundAssumption`,
`FramingAssumption`, `LenWordAssumption`, `ByteAssumption`, `ModelAssumption`,
`LengthAssumption`, `SearchAssumption`, `LoopAssumption`, `InputAssumption`,
`StreamAssumption`, `BlockAssumption`, `HuffmanAssumption`, `TableAssumption`, `PlayerAssumption`, `ProgramAssumption`; `SizesAssumption`: header, decompressor and
loader have one section each, of code, which is how their sources are written, fields lie in their sections and
apart, addresses in objects fit a field, and a relative field is an operand behind an opcode; `CodeAssumption`: where calls are
translated to absolute ones there is code, as long as the objects' sections of code are, and no oneKpaq;
`ReferenceAssumption`: the section of a defined symbol is there, header, decompressor and loader have no
table of jumps, `Source` is only asked for by the decompressor as a constant, and
its destination only with oneKpaq); TLC evaluates them in the runs. What
`ReferencesRight` does not judge is in no assumption: it is `IsUnderstood`, in
the property itself.

Only model-checked: of kompura what a reader makes of the stream (`ReaderGetsData`: the
reader is recursive, which the prover does not take); and everything
under fairness (`Returns`, `StartsOrRefused`: liveness is out of the prover's reach).

## 5. Disagreements

`codec_false_end`: `ArithDecoder.cpp:67` asserts that no data symbol looks like
the end of a section. The single section encoder breaks that for some inputs
because it keeps `_range=subRange` where, as the comments in
`ArithEncoder.cpp:56` and `ArithDecoder.cpp:71` say, `subRange-1` would be
correct. The authors know and rely on verification: `onekpaq_encode` decodes
what it packed. `asm_single` shows that this verification is
exact. laturi (`onekpaq_integration.cpp:77`) packs without it.

`huffman_capped`: `kompura.c:968` asserts that the budget of code points is not
negative after every symbol got its pessimistic length. Without a limit that is
so (`huffman_free`), but `kompura.c:939` then cuts lengths off at `max_bit_len`,
7 for the distance code and for the code of the tables, and takes the missing
code points from nowhere. Counts of 128, 64, 32, 16, 8, 4, 2, 1, 1 distances are
enough with the real limit. The assertion is a `DBG_ASSERT`, compiled out, so
the loop behind it spends nothing and the block is written with a code in which
several symbols share code points. It takes distance codes rarer than one in
128 beside others whose rounded lengths leave no slack, which small images
seldom have.

Not runs, because nothing states the contrary in so many words, or no sensible
input meets them:

* `hashloader.c:1123` reports "Too small area for compressed data" by where the
  packed data starts; its length, not known yet, is not looked at afterwards.
* References that `link_binary` relocates wrongly, the negations of `IsUnderstood`. The
  model does what the code does with them, and `ReferencesRight` leaves them out:
  * A relative reference in a section that its object has at `uaddr`, not at 0, comes
    out wrong by `uaddr`: "in 32bit the rel-addresses point to seg start"
    (`hashloader.c:1665-1666`) is true only of a section at 0. Usually code is the
    first section of an object.
  * A field of four bytes is taken for a call if the byte in front is `0xe8`
    (`hashloader.c:1513`), whether or not it is relative and has nothing added, and is
    then replaced by an indirect call to the function. The option's text
    (`src/laturi/README.txt:72`) only speaks of "relative calls to external
    libraries". An absolute field with such a byte in front is destroyed, so is
    `call f+4`, and so is the last byte of a field that ends there.
  * A reference into an object's own table of jumps (`table_lookup`) is right only as
    a relative one of full width with nothing added, and without oneKpaq: the
    place returned is one in the image (`hashloader.c:937`) where an address is
    needed, off by `vm_shift`; the entry is found by adding `vm_shift`
    where it should be subtracted (`hashloader.c:1632`); and from what
    is looked up the place of the field is taken off, also if it was not relative.
    An index behind the table reads behind it.
  * `onekpaq_source_address` is one pointer (`hashloader.c:1478-1485`), so of several
    references to `__ONEKPAQ_source` only the last is filled in. The
    decompressor has one.
* The tests of byte and word fields, `ta_contents<-0x80 && ta_contents>0x7f`
  (`hashloader.c:1678`) and the like (1687), never hold, so "Byte reloc out of bounds" and "Word reloc out of
  bounds" are never reported and a number that does not fit is cut without
  a word. `OutOfBounds` is the test as it is written; `ReferencesRight` asks for
  the number modulo what the field holds.
* Translation of calls by type 2 with oneKpaq scans shifted addresses in the
  image that is not shifted (`hashloader.c:1740-1799`); `CodeAssumption` leaves
  the combination out.
* `LATURI_generate` always sets `apple_gzip`, so the missing end symbol of
  `write_compressed_data` is not used by laturi; `blocks` checks both.

## 6. Not modelled

* Probabilities, contexts and mixing (`CalculateSubRange`, `CalculateAllProbabilities`,
  the model classes, `model_loop` in the unpacker): floating point over real
  data. The properties above hold for every outcome; that both programs round
  alike is outside.
* "Too long header" (`BlockCodec.cpp:509`): whether a search gets there depends on
  the estimates. It is the one hazard in `PROJECT.json` without a property.
* kompura's match finder and the refinement of code words (`find_len_block`,
  `process_block`, `minimize_block`, `create_codeword_map`): heuristics on real
  data whose result `BlockChoice` takes as any coding. That the words of a coding
  expand to the bytes they stand for is what the composition assumes of them.
* laturi's reading of Mach-O files and loading of libraries, SECTDIFF pairs,
  pointer tables, 64-bit objects, the search for a hash multiplier, the kernel's
  header; `loader64.asm`; `main.c` (options, then one call each) and
  `dyld_address.c` (a constant from a table).
* The player's oscillators, filters, amplifiers and mix: floating point functions
  of the inputs and a phase. The fraction of a delay time. A buffer of no samples,
  for which `loop_samples` would run through all 2^32 (`BufferSizes`).
* The main loop only polls `sample_position`, which one thread writes with one
  aligned instruction and one reads; there is nothing to interleave.
* Video set-up, shader, build files, symbol tables, song data, debug output.

## 7. Plan

1. (done) coder, unpacker, headers, search, cache, parallel loop.
2. (done) kompura from the choice of blocks to the bits; left: match finder and
   `create_codeword_map`, against the promise that the words of a block expand to
   its bytes.
3. (done) laturi and the 32-bit loader from objects to the running program; left:
   SECTDIFF pairs and pointer tables.
4. (done) the player's sequencer, envelope and delay lines.
5. Proofs: (done) encoder, decoder, single section, unpacker, search and
   headers, cache, parallel loop, player, kompura's choice of blocks and its stream,
   Huffman code lengths and their tables, binding of imports, places and blocks of the
   image, calls restored, references; what is left is listed at the end of section 4.
