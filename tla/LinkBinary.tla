----------------------------- MODULE LinkBinary -----------------------------
(***************************************************************************)
(* hashloader.c, link_binary: the sections of the header, the              *)
(* decompressor, the loader and the objects become one image, with         *)
(* addresses to run at, and the blocks that the packers are handed.        *)
(*                                                                         *)
(* With oneKpaq the sections of loader and objects are packed.  They are   *)
(* unpacked at decompress_offset: vm_shift is what their addresses are     *)
(* ahead of their place in the image being built.                          *)
(*                                                                         *)
(* A field that a relocation names is a number of as many bytes as the     *)
(* field has; of the other bytes only those in front of a field matter.    *)
(***************************************************************************)
EXTENDS ImportTable

CONSTANTS
  Segment,      \* [65536] alignment of the objects' BSS, least heap, short addresses
  MinFile,      \* [4096] the kernel refuses shorter files
  Field,        \* [4] bytes of an address
  ByteValues,   \* [256] values of a byte
  CallByte,     \* [0xe8]
  MaxIndex,     \* [255] slots of the jump table behind it are not translated
  MaxTranslations,  \* [65536] MAX_TRANSLATIONS
  ItemSize,     \* [6, or 4] JUMPTBL_ITEM_SIZE
  AddrOffset,   \* [1, or 0] JUMPTBL_ADDR_OFFSET
  CommandSize,  \* [24] a load command without the name of the library
  Packed        \* bound: what oneKpaq makes of the image, lengths of headers and of data

TEXT == 1
DATA == 2
BSS == 3
DoNotWant == 0

\* The symbols that only laturi knows: __LATURI__JumpTable, __LATURI__HashStart,
\* __ONEKPAQ_source, __ONEKPAQ_destination, __LATURI__DynloaderDestAddrs.
JumpTable == -1
HashStart == -2
Source == -3
Destination == -4
DestAddrs == -5
Special == {JumpTable, HashStart, Source, Destination, DestAddrs}

\* What so many bytes hold.
Power[k \in 0 .. Field] == IF k = 0 THEN 1 ELSE ByteValues * Power[k - 1]
Words == Power[Field]

\* load_object; sections are numbered from 1.  A field of width bytes has the byte
\* front in front, unless that is a field's or another section's.
Reference ==
  [at : Nat, kind : {"extern", "section", "scattered"}, name : Int,
   form : {"plain", "relof", "ebx_relof", "index"}, num : Nat, value : Nat, addend : Int,
   pcrel : BOOLEAN, width : Nat \ {0}, front : Nat]
Sections ==
  [obj : Nat, num : Nat \ {0}, seg : STRING, name : STRING, uaddr : Nat, length : Nat,
   jumps : Seq(Nat), refs : Seq(Reference)]

\* The two sections that link_binary adds to the loader: MAX_SECTS*2 and the next,
\* an object has fewer than MAX_SECTS.
HashNum == 2048
JumpNum == 2049

\* Objects 0, 1 and 2 are header, decompressor and loader: header32.asm,
\* decompressor32.asm and loader32.asm have a section of code each and no other.
ObjectAssumption ==
  \A p \in Programs :
    /\ p.sects \in Seq(Sections)
    /\ p.onekpaq \in BOOLEAN /\ p.decompress_offset \in Nat /\ p.heap_size \in Nat
    /\ \A obj \in 0 .. 2 : \E n \in DOMAIN p.sects : p.sects[n].obj = obj
    /\ \A n \in DOMAIN p.sects :
         LET s == p.sects[n]
         IN  /\ s.num < HashNum
             /\ \A m \in DOMAIN p.sects \ {n} : p.sects[m].obj # s.obj \/ p.sects[m].num # s.num
             /\ s.obj < 3 =>
                  s.num = 1 /\ s.seg = "__TEXT" /\ s.name = "__text" /\ s.length > 0
             /\ \A r \in DOMAIN s.refs :
                  /\ s.refs[r].at + s.refs[r].width <= s.length
                  /\ s.refs[r].value < Words
                  /\ \A q \in DOMAIN s.refs \ {r} :
                       \/ s.refs[q].at + s.refs[q].width <= s.refs[r].at
                       \/ s.refs[r].at + s.refs[r].width <= s.refs[q].at
                  \* A relative field is an operand, behind an opcode.
                  /\ s.refs[r].pcrel =>
                       /\ s.refs[r].at > 0
                       /\ \A q \in DOMAIN s.refs : s.refs[q].at + s.refs[q].width # s.refs[r].at

ASSUME SizesAssumption ==
  /\ ObjectAssumption
  /\ Segment \in Nat \ {0} /\ MinFile \in Nat /\ Field \in Nat \ {0}
  /\ ByteValues \in Nat \ {0} /\ CallByte \in 0 .. ByteValues - 1
  /\ MaxIndex \in Nat /\ MaxTranslations \in Nat
  /\ ItemSize \in Nat \ {0} /\ AddrOffset \in Nat /\ CommandSize \in Nat
  /\ Packed \subseteq (Nat \ {0}) \X (Nat \ {0})

VARIABLES
  sects,            \* raw_sects
  i,                \* i
  c_off, vm_shift,  \* c_off, vm_shift
  b_len, f_len,     \* b_len, f_len
  jtbl_off,         \* jtbl_off
  decompr_addr, loader_addr,
  heap,             \* final_hs
  values,           \* the relocated fields, by section and reference
  translations,     \* translations, of calls into the jump table
  linker_blocks,    \* linker_blocks, by section
  packed,           \* what onekpaq_compress is given and returns
  file,             \* the blocks and the length that kompura is given
  bphase

bvars == <<sects, i, c_off, vm_shift, b_len, f_len, jtbl_off, decompr_addr, loader_addr,
           heap, values, translations, linker_blocks, packed, file, bphase>>

onekpaq == program.onekpaq

BInit ==
  /\ sects = <<>> /\ i = 1
  /\ c_off = 0 /\ vm_shift = 0 /\ b_len = 0 /\ f_len = 0
  /\ jtbl_off = 0 /\ decompr_addr = 0 /\ loader_addr = 0 /\ heap = 0
  /\ values = <<>> /\ translations = {} /\ linker_blocks = <<>>
  /\ packed = [rf_len |-> 0, blocks |-> <<>>, hdrlen |-> 0, datalen |-> 0, start |-> 0]
  /\ file = [blocks |-> <<>>, length |-> 0]
  /\ bphase = "off"

-----------------------------------------------------------------------------
(* Sections.                                                               *)

\* load_object: what a section of an object file is to the linker.
SectionType(s) ==
  IF s.length = 0 THEN DoNotWant
  ELSE IF s.seg = "__TEXT" /\ s.name # "__eh_frame" THEN TEXT
  ELSE IF s.seg = "__DATA" THEN IF s.name = "__bss" THEN BSS ELSE DATA
  ELSE DoNotWant

isheader(s) == s.obj = 0
isloader(s) == s.obj < 3

\* create_map's length: a hash for every function and library, a byte for every
\* count and for the end.
HashTableBytes ==
  LET named == Cardinality({n \in DOMAIN lmap : Headed(n)})
  IN  (program.hash_type + 2) * (Len(lmap) + named) + named + 1

SumOf(s) == FoldLeft(LAMBDA sum, n : sum + n, 0, s)

\* A section with its place in the image and its shift, which come later.
linksect(s, length) ==
  [obj |-> s.obj, num |-> s.num, seg |-> s.seg, name |-> s.name, uaddr |-> s.uaddr,
   length |-> length, jumps |-> s.jumps, refs |-> s.refs, abs_offset |-> 0, vm_shift |-> 0]

\* insert_libraries: a load command for every library in use, behind the header.
LoadCommands ==
  SumOf([k \in 1 .. Cardinality(DOMAIN libs) |->
           IF k - 1 \in used THEN CommandSize + libs[k - 1].name_len ELSE 0])
WithLibraries(s) == linksect(s, IF isheader(s) THEN s.length + LoadCommands ELSE s.length)

Added(num, name, length) ==
  [obj |-> 2, num |-> num, seg |-> "__DATA", name |-> name, uaddr |-> 0,
   length |-> length, jumps |-> <<>>, refs |-> <<>>, abs_offset |-> 0, vm_shift |-> 0]
HashSection == Added(HashNum, "hash", HashTableBytes)
JumpSection == Added(JumpNum, "__bss", ItemSize * Len(lmap) + AddrOffset)

iscompressible(s) == onekpaq /\ s.obj >= 2 /\ s.num # HashNum

\* sect_sort
SectKey(s) ==
  <<IF SectionType(s) = DoNotWant THEN 1 ELSE 0,
    IF isheader(s) THEN 0 ELSE 1,
    IF iscompressible(s) THEN 1 ELSE 0,
    SectionType(s), IF isloader(s) THEN 0 ELSE 1, s.obj, s.num>>

SectBefore(s, t) ==
  LET a == SectKey(s)
      b == SectKey(t)
  IN  \E k \in DOMAIN a : a[k] < b[k] /\ \A m \in 1 .. k - 1 : a[m] = b[m]

Rest(unchanged) == UNCHANGED unchanged /\ UNCHANGED ivars

\* raw_sects, in the order of qsort: so many sections are before the k-th.
Collected == [n \in DOMAIN program.sects |-> WithLibraries(program.sects[n])]
               \o <<HashSection, JumpSection>>
Rank(given, n) == Cardinality({m \in DOMAIN given : SectBefore(given[m], given[n])})

Collect ==
  /\ phase = "linked" /\ bphase = "off"
  /\ \E given \in {Collected} : \E rank \in {[n \in DOMAIN given |-> Rank(given, n)]} :
       /\ sects' = [k \in DOMAIN given |-> given[CHOOSE n \in DOMAIN given : rank[n] = k - 1]]
       /\ linker_blocks' = [n \in 1 .. Len(given) + 2 |-> 0]
  /\ bphase' = "place"
  /\ Rest(<<i, c_off, vm_shift, b_len, f_len, jtbl_off, decompr_addr, loader_addr,
            heap, values, translations, packed, file>>)

-----------------------------------------------------------------------------
(* Places.                                                                 *)

Cur == sects[i]
Wanted == i <= Len(sects) /\ SectionType(Cur) # DoNotWant
IsJump(s) == s.num = JumpNum /\ s.obj = 2

\* from, doubled until it is n or more.
Doubled(from, n) == LET d[m \in Nat] == IF m >= n THEN m ELSE d[2 * m] IN d[from]

\* The jump table starts at a power of two, the objects' BSS behind the loader's
\* at a multiple of Segment.
Nudge ==
  IF SectionType(Cur) # BSS THEN 0
  ELSE IF isloader(Cur) THEN Doubled(1, c_off) - c_off
  ELSE IF i = 1 \/ isloader(sects[i - 1]) THEN (Segment - (c_off % Segment)) % Segment
  ELSE 0

AbsOffset == c_off - vm_shift + Nudge

\* The first section that is packed; the shift is not known yet.
NeedsShift == onekpaq /\ vm_shift = 0 /\ iscompressible(Cur)

\* Mutant of ShiftHere: the shift is that of the section's end.
ShiftHereBehind ==
  IF NeedsShift THEN program.decompress_offset - AbsOffset - Cur.length ELSE vm_shift

ShiftHere == IF NeedsShift THEN program.decompress_offset - AbsOffset ELSE vm_shift

IsCode == SectionType(Cur) = TEXT /\ ~isheader(Cur) /\ isloader(Cur)

Place ==
  /\ bphase = "place" /\ Wanted
  /\ NeedsShift => AbsOffset <= program.decompress_offset
  /\ LET inFile == SectionType(Cur) \in {TEXT, DATA}
     IN  /\ sects' = [sects EXCEPT ![i].abs_offset = AbsOffset,
                                   ![i].vm_shift = ShiftHere]
         /\ vm_shift' = ShiftHere
         /\ c_off' = c_off + (IF NeedsShift THEN ShiftHere ELSE 0) + Cur.length + Nudge
         /\ b_len' = b_len + Cur.length + Nudge
         /\ f_len' = IF inFile THEN f_len + Cur.length + Nudge ELSE f_len
         /\ linker_blocks' =
              IF ~inFile THEN linker_blocks
              ELSE [n \in DOMAIN linker_blocks |->
                      IF n = i THEN Cur.length
                      ELSE IF n = i - 1 THEN linker_blocks[n] + Nudge ELSE linker_blocks[n]]
         /\ jtbl_off' = IF SectionType(Cur) = BSS /\ isloader(Cur)
                        THEN AbsOffset + ShiftHere ELSE jtbl_off
         /\ decompr_addr' = IF IsCode /\ decompr_addr = 0 THEN AbsOffset ELSE decompr_addr
         /\ loader_addr' = IF IsCode /\ decompr_addr # 0 /\ loader_addr = 0
                           THEN AbsOffset ELSE loader_addr
  /\ i' = i + 1
  /\ Rest(<<heap, values, translations, packed, file, bphase>>)

\* "Too small area for compressed data, increase it".
TooSmallArea ==
  /\ bphase = "place" /\ Wanted
  /\ NeedsShift /\ AbsOffset > program.decompress_offset
  /\ bphase' = "refused"
  /\ Rest(<<sects, i, c_off, vm_shift, b_len, f_len, jtbl_off, decompr_addr, loader_addr,
            heap, values, translations, linker_blocks, packed, file>>)

HeapSize == IF program.heap_size < Segment THEN Segment ELSE program.heap_size

\* HeapSize of the header.
Placed ==
  /\ bphase = "place" /\ ~Wanted
  /\ heap' = Doubled(Segment, b_len + vm_shift + HeapSize)
  /\ i' = 1
  /\ bphase' = "relocate"
  /\ Rest(<<sects, c_off, vm_shift, b_len, f_len, jtbl_off, decompr_addr, loader_addr,
            values, translations, linker_blocks, packed, file>>)

-----------------------------------------------------------------------------
(* Relocation.                                                             *)

\* Mutant of Runs: the place in the image.
RunsUnshifted(s) == s.abs_offset

\* Where a section will be when the program runs.
Runs(s) == s.abs_offset + s.vm_shift

HashSect == sects[Min({n \in DOMAIN sects : sects[n].obj = 2 /\ SectionType(sects[n]) = DATA})]

\* Where a reference to a function leads: __LATURI__relof__, __LATURI__ebx_relof__,
\* __LATURI__index__ ask for other things than the address of its slot.
ImportOffset(form, k) ==
  CASE form = "relof"     -> (k - 1) * ItemSize
    [] form = "ebx_relof" -> (k - 1 - Len(lmap)) * ItemSize
    [] form = "index"     -> k - 1
    [] OTHER              -> jtbl_off + (k - 1) * ItemSize

\* A symbol of an object: [name, obj, num, uaddr], num 0 if it is a mere number.
Definitions(name) ==
  {n \in DOMAIN program.symbols :
     program.symbols[n].name = name /\ program.symbols[n].type = "defined"}

SymbolOf(name) == program.symbols[Min(Definitions(name))]
SectOf(obj, num) == CHOOSE s \in Range(sects) : s.obj = obj /\ s.num = num

SymbolOffset(at, y) ==
  IF y.num = 0 THEN y.uaddr
  ELSE at[SectOf(y.obj, y.num)] + y.uaddr - SectOf(y.obj, y.num).uaddr

SpecialOffset(name) ==
  CASE name = JumpTable   -> jtbl_off + AddrOffset
    [] name = HashStart   -> Runs(HashSect)
    [] name = Source      -> 0                     \* filled in by Pack
    [] name = Destination -> program.decompress_offset
    [] name = DestAddrs   -> jtbl_off

RunsAt == [s \in Range(sects) |-> Runs(s)]

ExternOffset(r) ==
  IF r.name \in Special THEN SpecialOffset(r.name)
  ELSE IF Slots(r.name) # {} THEN ImportOffset(r.form, SlotOf(r.name))
  ELSE SymbolOffset(RunsAt, SymbolOf(r.name))

\* What an assembler leaves in the field: a pc relative field counts from where
\* it has its section.
Contents(s, r) ==
  r.addend + (IF r.kind = "extern" THEN 0 ELSE r.value)
    - (IF r.pcrel THEN s.uaddr + r.at + r.width ELSE 0)

\* As many of its bytes as there is room for, read with their sign.
ta_contents(s, r) ==
  LET n == Contents(s, r) % Power[r.width]
  IN  IF 2 * n < Power[r.width] THEN n ELSE n - Power[r.width]

\* The section of a reference that names no symbol: by its number, or by the
\* address it had in the object ("scattered").
IsMeant(s, r, t) ==
  /\ t.obj = s.obj
  /\ IF r.kind = "section" THEN t.num = r.num
     ELSE t.uaddr <= r.value /\ r.value < t.uaddr + t.length

SectionMeant(s, r) == CHOOSE t \in Range(sects) : IsMeant(s, r, t)

\* table_lookup: a reference into an object's own table of jumps goes straight to
\* what the table's entry stands for, in the image as it is built.
Multiplier == 5

ta_pc_addr(s, r) == Runs(s) + r.at + r.width

TableEntry(s, t, r) ==
  LET tbl_offset ==
        IF r.kind = "scattered" THEN ta_contents(s, r) - t.uaddr
        ELSE ta_contents(s, r) - s.abs_offset + s.vm_shift
               + (IF r.pcrel THEN ta_pc_addr(s, r) ELSE 0) - t.uaddr
  IN  (tbl_offset % Words) \div Multiplier

LookedUp(name) ==
  IF Definitions(name) # {}
  THEN SymbolOffset([s \in Range(sects) |-> s.abs_offset], SymbolOf(name))
  ELSE jtbl_off + (SlotOf(name) - 1) * ItemSize

\* __ONEKPAQ_source and __ONEKPAQ_destination are for decompressor32.asm.
ASSUME ReferenceAssumption ==
  \A p \in Programs :
    /\ \A n \in DOMAIN p.symbols :
         LET y == p.symbols[n]
         IN  y.type = "defined" /\ y.num # 0 =>
               \E m \in DOMAIN p.sects : p.sects[m].obj = y.obj /\ p.sects[m].num = y.num
    /\ \A n \in DOMAIN p.sects :
         LET s == p.sects[n]
         IN  /\ s.obj < 3 => s.jumps = <<>>
             /\ \A k \in DOMAIN s.refs :
                  LET r == s.refs[k]
                  IN  r.kind = "extern" =>
                        /\ r.name = Source =>
                             s.obj = 1 /\ r.addend = 0 /\ ~r.pcrel /\ r.width = Field
                        /\ r.name = Destination => p.onekpaq

\* The symbol's section has not been thrown away.
Stays(y) == SectionType(SectOf(y.obj, y.num)) # DoNotWant

\* table_lookup finds sections only.
CanLookUp(name) ==
  IF Definitions(name) # {} THEN SymbolOf(name).num # 0 /\ Stays(SymbolOf(name))
  ELSE Slots(name) # {}

\* The field is one the linker knows, and what the reference needs is there.
Kept(s, r) ==
  /\ r.width <= Field
  /\ r.kind = "scattered" => ~r.pcrel
  /\ IF r.kind = "extern" THEN
       \/ r.name \in Special \/ Slots(r.name) # {}
       \/ Definitions(r.name) # {} /\ (SymbolOf(r.name).num # 0 => Stays(SymbolOf(r.name)))
     ELSE
       /\ \E t \in Range(sects) : IsMeant(s, r, t)
       /\ LET t == SectionMeant(s, r)
          IN  IF t.jumps = <<>> THEN SectionType(t) # DoNotWant
              ELSE TableEntry(s, t, r) + 1 \in DOMAIN t.jumps =>
                     CanLookUp(t.jumps[TableEntry(s, t, r) + 1])

\* The loop uses the header's symbols for the first section, the decompressor's
\* for the second, the loader's for its others ("raw index again").
OwnerOf(n) == IF ~isloader(sects[n]) THEN sects[n].obj ELSE Min({n - 1, 2})

\* A symbol of another file, or none, or an entry behind the table's last.
Astray(n, r) ==
  LET s == sects[n]
      t == SectionMeant(s, r)
  IN  \/ OwnerOf(n) # s.obj
      \/ r.kind # "extern" /\ t.jumps # <<>> /\ TableEntry(s, t, r) + 1 \notin DOMAIN t.jumps

Number(s, r) ==
  LET from == IF r.pcrel THEN Runs(s) ELSE 0
      t == SectionMeant(s, r)
  IN  IF r.kind = "extern" THEN ta_contents(s, r) + ExternOffset(r) - from
      ELSE IF t.jumps = <<>> THEN ta_contents(s, r) + Runs(t) - t.uaddr - from
      ELSE LookedUp(t.jumps[TableEntry(s, t, r) + 1])
             - (IF r.kind = "section" THEN ta_pc_addr(s, r) ELSE Runs(s) - s.uaddr)

Lost == [how |-> "lost", n |-> 0]
Plain(r, n) == [how |-> "field", n |-> n % Power[r.width]]

Value(n, r) == IF Astray(n, r) THEN Lost ELSE Plain(r, Number(sects[n], r))

\* "Byte reloc out of bounds", "Word reloc out of bounds": the code asks for
\* a number that is too small and too large.
OutOfBounds(n, r) ==
  /\ ~Astray(n, r) /\ r.width < Field
  /\ 2 * Number(sects[n], r) < -Power[r.width] /\ 2 * Number(sects[n], r) >= Power[r.width]

Refs(s) == IF SectionType(s) = DoNotWant THEN <<>> ELSE s.refs

\* A field is the number of its section and its own.
Later(e, d) == e[1] > d[1] \/ (e[1] = d[1] /\ e[2] > d[2])

\* d ends where e begins, in the same section or in the next.
InFront(d, e) ==
  LET s == sects[d[1]]
      end == s.refs[d[2]].at + s.refs[d[2]].width
      at == sects[e[1]].refs[e[2]].at
  IN  \/ e[1] = d[1] /\ end = at
      \/ e[1] = d[1] + 1 /\ end = s.length /\ at = 0

SlotAddress(name) == jtbl_off + (SlotOf(name) - 1) * ItemSize + AddrOffset

\* The last byte of a field, before or after it is relocated.
LastByte(n, r, done) ==
  LET v == IF done THEN Value(n, r) ELSE Plain(r, Contents(sects[n], r))
  IN  IF v = Lost THEN 0 .. ByteValues - 1 ELSE {v.n \div Power[r.width - 1]}

\* The byte that the code takes for an instruction.  What a section ends with is
\* left open.
BytesInFront(n, k) ==
  LET s == sects[n]
      before == {q \in DOMAIN s.refs : InFront(<<n, q>>, <<n, k>>)}
  IN  IF s.refs[k].at = 0 THEN 0 .. ByteValues - 1
      ELSE IF before = {} THEN {s.refs[k].front}
      ELSE UNION {LastByte(n, s.refs[q], q < k) : q \in before}

\* A reference to a function whose slot is one of the first and has a short address.
Translatable(s, r) ==
  /\ program.translate /\ ~isloader(s)
  /\ r.kind = "extern" /\ r.name \notin Special /\ Slots(r.name) # {} /\ r.form = "plain"
  /\ r.width = Field
  /\ SlotOf(r.name) - 1 <= MaxIndex /\ SlotAddress(r.name) < Segment

\* Behind a call byte it is taken for a call.
TakenForCalls(n) ==
  LET s == sects[n]
      fields == {k \in DOMAIN Refs(s) : Translatable(s, s.refs[k])}
  IN  {found \in SUBSET fields :
         /\ \A k \in found : CallByte \in BytesInFront(n, k)
         /\ \A k \in fields \ found : BytesInFront(n, k) # {CallByte}}

Accepted(n) == \A k \in DOMAIN Refs(sects[n]) :
                 Kept(sects[n], Refs(sects[n])[k]) /\ ~OutOfBounds(n, Refs(sects[n])[k])
Room(found) == Cardinality(translations) + Cardinality(found) <= MaxTranslations

\* All references of a section.
Relocate ==
  /\ bphase = "relocate" /\ i <= Len(sects)
  /\ Accepted(i)
  /\ \E found \in TakenForCalls(i) :
       Room(found) /\ translations' = translations \cup ({i} \X found)
  /\ values' = Append(values, [k \in DOMAIN Refs(Cur) |-> Value(i, Refs(Cur)[k])])
  /\ i' = i + 1
  /\ Rest(<<sects, c_off, vm_shift, b_len, f_len, jtbl_off, decompr_addr, loader_addr,
            heap, linker_blocks, packed, file, bphase>>)

\* "Symbol in killed section", "Did not find symbol anywhere", "Max limit of call
\* translations reached" and others.
CannotRelocate ==
  /\ bphase = "relocate" /\ i <= Len(sects)
  /\ Accepted(i) => \E found \in TakenForCalls(i) : ~Room(found)
  /\ bphase' = "refused"
  /\ Rest(<<sects, i, c_off, vm_shift, b_len, f_len, jtbl_off, decompr_addr, loader_addr,
            heap, values, translations, linker_blocks, packed, file>>)

\* A call through a slot is a byte longer: it begins in the byte in front of the
\* call, which the next translation may write over.
Spoiled(d) ==
  \E e \in translations :
    IF d \in translations THEN Later(e, d) /\ (InFront(d, e) \/ InFront(e, d)) ELSE InFront(d, e)

\* The fields when the translations have been written.
Final(d) ==
  IF Spoiled(d) THEN Lost
  ELSE IF d \in translations
  THEN [how |-> "indirect", n |-> SlotAddress(sects[d[1]].refs[d[2]].name)]
  ELSE values[d[1]][d[2]]

\* Translations come before the packers.
Relocated ==
  /\ bphase = "relocate" /\ i > Len(sects)
  /\ values' = [n \in DOMAIN values |-> [k \in DOMAIN values[n] |-> Final(<<n, k>>)]]
  /\ bphase' = IF program.absolute THEN "translate" ELSE "pack"
  /\ Rest(<<sects, i, c_off, vm_shift, b_len, f_len, jtbl_off, decompr_addr, loader_addr,
            heap, translations, linker_blocks, packed, file>>)

-----------------------------------------------------------------------------
(* Packers.                                                                *)

FirstPacked == Min({n \in DOMAIN sects : iscompressible(sects[n])})

\* The blocks that the loop of onekpaq_compress takes, as their number: they have
\* to be len bytes exactly.
TakesBlocks(blocks, len) == {n \in 0 .. Len(blocks) : SumOf(SubSeq(blocks, 1, n)) = len}

\* Mutant of Handed: the image's length counts for the packed part's.
HandedAll == [rf_len |-> f_len, start |-> SumOf(SubSeq(linker_blocks, 1, FirstPacked - 1))]

\* What onekpaq_compress is given: a length, and where the bytes start.
Handed ==
  LET before == SumOf(SubSeq(linker_blocks, 1, FirstPacked - 1))
  IN  [rf_len |-> f_len - before, start |-> before]

\* onekpaq_source_address: the last field that asks for the packed data.
SourceFields ==
  UNION {LET refs == Refs(sects[n])
         IN  {n} \X {k \in DOMAIN refs : refs[k].kind = "extern" /\ refs[k].name = Source} :
           n \in DOMAIN sects}
IsLastSource(d) == d \in SourceFields /\ \A e \in SourceFields : ~Later(e, d)

Behind == SubSeq(linker_blocks, FirstPacked, Len(linker_blocks))

Pack ==
  /\ bphase = "pack" /\ onekpaq
  /\ TakesBlocks(Behind, Handed.rf_len) # {}
  /\ \E p \in Packed :
       /\ packed' = [rf_len |-> Handed.rf_len, start |-> Handed.start, hdrlen |-> p[1], datalen |-> p[2],
                     blocks |-> SubSeq(Behind, 1, Min(TakesBlocks(Behind, Handed.rf_len)))]
       /\ linker_blocks' = [n \in DOMAIN linker_blocks |->
                              CASE n = FirstPacked     -> p[1]
                                [] n = FirstPacked + 1 -> p[2]
                                [] n = FirstPacked + 2 -> 0
                                [] OTHER               -> linker_blocks[n]]
       /\ f_len' = Handed.start + p[1] + p[2]
       /\ values' = [n \in DOMAIN values |-> [r \in DOMAIN values[n] |->
                       IF IsLastSource(<<n, r>>) THEN Plain(sects[n].refs[r], Handed.start + p[1])
                       ELSE values[n][r]]]
  /\ bphase' = "pad"
  /\ Rest(<<sects, i, c_off, vm_shift, b_len, jtbl_off, decompr_addr, loader_addr, heap,
            translations, file>>)

PackNothing ==
  /\ bphase = "pack" /\ ~onekpaq
  /\ bphase' = "pad"
  /\ Rest(<<sects, i, c_off, vm_shift, b_len, f_len, jtbl_off, decompr_addr, loader_addr,
            heap, values, translations, linker_blocks, packed, file>>)

FirstZero(blocks) == Min({n \in DOMAIN blocks : blocks[n] = 0})

\* LATURI_generate: a short file becomes one of MinFile bytes.  kompura reads the
\* blocks up to the first zero.
Pad ==
  /\ bphase = "pad"
  /\ LET last == FirstZero(linker_blocks)
         blocks == IF f_len >= MinFile THEN linker_blocks
                   ELSE [linker_blocks EXCEPT ![last] = MinFile - f_len, ![last + 1] = 0]
     IN  /\ linker_blocks' = blocks
         /\ file' = [blocks |-> SubSeq(blocks, 1, FirstZero(blocks) - 1),
                     length |-> Max({f_len, MinFile})]
  /\ bphase' = "file"
  /\ Rest(<<sects, i, c_off, vm_shift, b_len, f_len, jtbl_off, decompr_addr, loader_addr,
            heap, values, translations, packed>>)

BNext ==
  \/ Collect
  \/ Place \/ TooSmallArea \/ Placed
  \/ Relocate \/ CannotRelocate \/ Relocated
  \/ Pack \/ PackNothing
  \/ Pad

-----------------------------------------------------------------------------
(* Properties.  Linked: the file is ready to run.                          *)

Linked == bphase = "file"
Everything == {n \in DOMAIN sects : SectionType(sects[n]) # DoNotWant}
InFile(s) == SectionType(s) \in {TEXT, DATA}

\* Where a section really is when the program runs: the file lies at 0, what was
\* packed where the decompressor puts it, a BSS where its references go.
Resides(s) ==
  IF ~InFile(s) \/ ~iscompressible(s) THEN Runs(s)
  ELSE program.decompress_offset + s.abs_offset - packed.start

\* No two sections share memory, and the heap begins behind the last one and is
\* as large as was asked for.
SectionsApart ==
  Linked =>
    \A n \in Everything :
      LET s == sects[n]
      IN  /\ \A m \in Everything \ {n} :
               \/ Resides(s) + s.length <= Resides(sects[m])
               \/ Resides(sects[m]) + sects[m].length <= Resides(s)
          /\ Resides(s) + s.length + program.heap_size <= heap

\* Both packers are handed blocks that add up to the bytes they are handed, so
\* that the loop in front of oneKpaq ends, and what is packed is whole sections.
BlocksAddUp ==
  /\ bphase = "pack" /\ onekpaq => TakesBlocks(Behind, Handed.rf_len) # {}
  /\ Linked =>
       /\ SumOf(file.blocks) = file.length
       /\ onekpaq =>
            /\ packed.blocks = [n \in DOMAIN packed.blocks |-> sects[FirstPacked + n - 1].length]
            /\ \A n \in Everything :
                 LET s == sects[n]
                 IN  iscompressible(s) /\ InFile(s) =>
                       /\ packed.start <= s.abs_offset
                       /\ s.abs_offset + s.length <= packed.start + packed.rf_len

\* What a reference stands for when the program runs.
Meant(s, r) ==
  LET at == [t \in Range(sects) |-> Resides(t)]
      jump == Resides(SectOf(2, JumpNum))
  IN  IF r.kind # "extern" THEN
        LET t == SectionMeant(s, r)
        IN  IF t.jumps = <<>> THEN at[t] + r.value - t.uaddr
            ELSE LET name == t.jumps[(r.value - t.uaddr) \div Multiplier + 1]
                 IN  IF Definitions(name) # {} THEN SymbolOffset(at, SymbolOf(name))
                     ELSE jump + (SlotOf(name) - 1) * ItemSize
      ELSE IF r.name = JumpTable THEN jump + AddrOffset
      ELSE IF r.name = DestAddrs THEN jump
      ELSE IF r.name = HashStart THEN Resides(HashSect)
      ELSE IF r.name = Source THEN packed.start + packed.hdrlen
      ELSE IF r.name = Destination THEN
        Resides(CHOOSE t \in Range(sects) : t.obj = 2 /\ SectionType(t) = TEXT)
      ELSE IF Slots(r.name) # {} THEN
        IF r.form = "plain" THEN jump + (SlotOf(r.name) - 1) * ItemSize
        ELSE ImportOffset(r.form, SlotOf(r.name))
      ELSE SymbolOffset(at, SymbolOf(r.name))

\* A field behind a call byte that is taken for a call and is none: the address
\* of a function, or of something behind it.
IsMisread(n, k) ==
  LET r == sects[n].refs[k]
  IN  /\ Translatable(sects[n], r) /\ CallByte \in BytesInFront(n, k)
      /\ ~r.pcrel \/ r.addend # 0

\* Where an object's table of jumps is understood: calls, that are not packed.
IsTableCall(s, r, t) ==
  /\ ~onekpaq
  /\ r.kind = "section" /\ r.pcrel /\ r.addend = 0 /\ r.width = Field
  /\ t.uaddr <= r.value /\ (r.value - t.uaddr) \div Multiplier + 1 \in DOMAIN t.jumps

\* The references that link_binary understands.  Not relative ones in a section
\* that its object has elsewhere than at 0, not those misread nor the bytes in
\* front of them, and of several that ask for the packed data only the last.
IsUnderstood(n, k) ==
  LET s == sects[n]
      r == s.refs[k]
      t == SectionMeant(s, r)
  IN  /\ r.pcrel => s.uaddr = 0
      /\ r.kind # "extern" /\ t.jumps # <<>> => IsTableCall(s, r, t)
      /\ ~IsMisread(n, k)
      /\ \A m \in {n, n + 1} \cap Everything : \A q \in DOMAIN sects[m].refs :
           InFront(<<n, k>>, <<m, q>>) => ~IsMisread(m, q)
      /\ onekpaq /\ r.kind = "extern" /\ r.name = Source => IsLastSource(<<n, k>>)

\* Every reference that is understood leads to what it names, wherever that has got
\* to: through the jump table, into packed and unpacked sections, absolute or
\* relative, with as many bytes as the field has; an indirect call stands for
\* a relative one and nothing else.  The header starts the decompressor, and the
\* loader's constants are set inside the loader.
ReferencesRight ==
  Linked =>
    /\ decompr_addr = Resides(SectOf(1, 1))
    /\ loader_addr = SectOf(2, 1).abs_offset
    /\ \A n \in Everything : \A k \in DOMAIN sects[n].refs :
         LET s == sects[n]
             r == s.refs[k]
         IN  IsUnderstood(n, k) =>
               CASE values[n][k].how = "field" ->
                      values[n][k].n =
                        (Meant(s, r) + r.addend
                           - (IF r.pcrel THEN Resides(s) + r.at + r.width ELSE 0)) % Power[r.width]
                 [] values[n][k].how = "indirect" ->
                      /\ r.pcrel /\ r.addend = 0
                      /\ values[n][k].n = Meant(s, r) + AddrOffset
                 [] OTHER -> FALSE
=============================================================================
