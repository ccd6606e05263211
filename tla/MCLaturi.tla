------------------------------ MODULE MCLaturi ------------------------------
(* Programs for Laturi, in three families: names and hashes, libraries and *)
(* what they need, sections and references.                                *)
EXTENDS Laturi, TLC

\* The names: functions, other symbols of libraries and objects.
f == 1
g == 2
x == 3
y == 4
main == 5
data == 6
bss == 7
dead == 8
number == 9

Entry(name, addr) == [name |-> name, addr |-> addr]
Library(name_len, hash, childs, nlist) ==
  [name_len |-> name_len, hash |-> hash, childs |-> childs, nlist |-> nlist, slide |-> 0]

Extern(name) ==
  [name |-> name, type |-> "extern", isdyld |-> FALSE, obj |-> 3, num |-> 0, uaddr |-> 0]
Defined(name, obj, num, uaddr) ==
  [name |-> name, type |-> "defined", isdyld |-> FALSE, obj |-> obj, num |-> num, uaddr |-> uaddr]

Section(obj, num, seg, name, uaddr, length, refs) ==
  [obj |-> obj, num |-> num, seg |-> seg, name |-> name, uaddr |-> uaddr, length |-> length,
   jumps |-> <<>>, refs |-> refs]

Ref(kind, name, form, num, value, addend, pcrel) ==
  [at |-> 1, kind |-> kind, name |-> name, form |-> form, num |-> num, value |-> value,
   addend |-> addend, pcrel |-> pcrel, width |-> Field, front |-> IF pcrel THEN CallByte ELSE 0]
To(name, form) == Ref("extern", name, form, 0, 0, 0, FALSE)
Call(name) == Ref("extern", name, "plain", 0, 0, 0, TRUE)
At(ref, at) == [ref EXCEPT !.at = at]

-----------------------------------------------------------------------------
\* Header, decompressor and loader.
Header == Section(0, 1, "__TEXT", "__text", 0, 5, <<>>)
Decompressor(packs) ==
  Section(1, 1, "__TEXT", "__text", 0, 9,
          IF packs THEN <<At(To(Source, "plain"), 5), To(Destination, "plain")>> ELSE <<>>)
Loader ==
  Section(2, 1, "__TEXT", "__text", 0, 18,
          <<To(JumpTable, "plain"), At(To(HashStart, "plain"), 5),
            [At(To(InfosName, "plain"), 9) EXCEPT !.addend = 1], At(Call(main), 14)>>)

Fixed(packs) == <<Header, Decompressor(packs), Loader>>
Code(refs) == Section(3, 1, "__TEXT", "__text", 0, 7, refs)

Program(hash_type, libraries, hashes, symbols, sections) ==
  [hash_type |-> hash_type, libs |-> libraries, hash |-> hashes, symbols |-> symbols,
   sects |-> sections, onekpaq |-> FALSE, translate |-> FALSE, absolute |-> FALSE, code |-> <<>>,
   decompress_offset |-> 0, heap_size |-> 40]

Main == Defined(main, 3, 1, 0)
Plainly == Fixed(FALSE) \o <<Code(<<Call(g)>>)>>
Unique(name) == name + 1
AllNames == 0 .. number

-----------------------------------------------------------------------------
\* Names and hashes.  dyld has something else in front of what the loader wants;
\* a library needs symbols of others (address 0), in front of its own or behind.
Dyld(slide) ==
  [Library(0, 3, {}, <<Entry(x, 900), Entry(InfosName, 901), Entry(y, 902)>>) EXCEPT !.slide = slide]

Tables ==
  { <<Entry(x, 0), Entry(f, 101), Entry(g, 102), Entry(y, 103)>>,
    <<Entry(g, 102), Entry(y, 103), Entry(x, 101), Entry(f, 104)>>,
    <<Entry(y, 103), Entry(f, 101), Entry(x, 0)>> }

\* f from library 1 or 2, g from 1 if it has it, else from 2; 3 is loaded with 1.
HashLibraries(tab, hashes) ==
  (0 :> Dyld(7)) @@ (1 :> Library(3, hashes[1], {3}, tab))
  @@ (2 :> Library(2, hashes[2], {}, <<Entry(y, 201), Entry(g, 202), Entry(f, 0)>>))
  @@ (3 :> Library(0, hashes[3], {}, <<Entry(x, 301)>>))

Hashes ==
  {[n \in AllNames |-> CASE n = InfosName -> 1 [] n \in f .. y -> h[n] [] OTHER -> 90 + n] :
     h \in [f .. y -> 1 .. 3]}

HashPrograms ==
  {Program(type, HashLibraries(tab, libhashes), h, <<Extern(g), Extern(f), Main, Extern(g)>>,
           Plainly) :
     type \in {0, 2}, tab \in Tables, h \in Hashes,
     libhashes \in {<<1, 2, 4>>, <<5, 1, 2>>, <<2, 1, 1>>, <<2, 2, 1>>, <<1, 3, 2>>}}

Tame == [n \in AllNames |-> 10 + n]
TameLibraries == HashLibraries(<<Entry(f, 101), Entry(g, 102), Entry(x, 103), Entry(y, 104)>>, <<5, 6, 7>>)

\* A symbol that no library has, one too many of a library, a library that slides.
OtherPrograms ==
  {Program(1, TameLibraries, Tame, <<Extern(f), Extern(dead)>>, Plainly),
   Program(1, TameLibraries, Tame, <<Extern(f), Extern(g), Extern(x), Extern(y), Main>>, Plainly),
   Program(1, [TameLibraries EXCEPT ![1].slide = 3], Tame, <<Extern(f), Main>>, Plainly)}

-----------------------------------------------------------------------------
\* Libraries.  f is from 1, g from 2; whatever they are needed by, in circles too.
Needs == {<<3, 1>>, <<4, 1>>, <<3, 2>>, <<4, 2>>, <<4, 3>>, <<1, 4>>}

LibraryPrograms ==
  {Program(1, (0 :> Dyld(0)) @@ [j \in 1 .. 4 |->
                Library(lengths[j], 10 + j, {e[2] : e \in {d \in needs : d[1] = j}},
                        <<Entry(CASE j = 1 -> f [] j = 2 -> g [] OTHER -> dead, 100 * j)>>)],
           Tame, <<Extern(g), Extern(f), Main>>, Plainly) :
     needs \in SUBSET Needs,
     lengths \in {<<0, 0, 5, 4>>, <<3, 3, 4, 9>>, <<2, 0, 6, 0>>}}

-----------------------------------------------------------------------------
\* Sections.  Object 3 has one of every kind, object 4 code and data.
Object3(refs) ==
  << Section(3, 1, "__TEXT", "__text", 0, 7, refs),
     Section(3, 2, "__DATA", "__data", 8, 6, <<To(main, "plain")>>),
     Section(3, 3, "__DATA", "__bss", 16, 10, <<>>),
     Section(3, 4, "__TEXT", "__eh_frame", 32, 4, <<>>),
     [Section(3, 5, "__IMPORT", "__jump_table", 40, 15, <<>>) EXCEPT !.jumps = <<x, g, data>>] >>
Object4(refs) ==
  << Section(4, 1, "__TEXT", "__text", 0, 6, refs),
     Section(4, 2, "__DATA", "__data", 8, 5, <<>>),
     Section(4, 3, "__DATA", "__bss", 16, 0, <<>>) >>

\* What code can refer to, in one byte too, without the section of jumps; the last
\* four are refused.
References ==
  { Call(g), [To(g, "plain") EXCEPT !.addend = 1], To(f, "relof"), To(g, "ebx_relof"), To(g, "index"),
    Call(main), To(data, "plain"), To(bss, "plain"), To(number, "plain"), To(DestAddrs, "plain"),
    [To(data, "plain") EXCEPT !.addend = 2, !.pcrel = TRUE],
    [To(number, "plain") EXCEPT !.width = 1],
    [Call(main) EXCEPT !.width = 1],
    Ref("section", 0, "plain", 1, 3, 0, TRUE),
    Ref("section", 0, "plain", 2, 9, 1, FALSE),
    Ref("scattered", 0, "plain", 0, 10, 30, FALSE),
    Ref("scattered", 0, "plain", 0, 10, 30, TRUE),
    Ref("scattered", 0, "plain", 0, 70, 0, FALSE),
    [To(data, "plain") EXCEPT !.width = 3],
    To(dead, "plain") }

\* References to the object's own table of jumps, behind its end too.
Jumps ==
  {Ref("section", 0, "plain", 5, 40 + 5 * n, 0, TRUE) : n \in 0 .. 3}
  \cup {Ref("section", 0, "plain", 5, 40, 0, FALSE), Ref("scattered", 0, "plain", 0, 45, 0, FALSE)}

\* Behind a call byte: calls of the first slots, of the last, of one byte; what is no
\* call; fields in a row, where the first ends with a call byte, or is taken for a call
\* itself.
Fronted(ref) == [ref EXCEPT !.front = CallByte]
Behind228(name) == [At(To(name, "plain"), 1) EXCEPT !.addend = 100]
CallFields ==
  { <<Call(f)>>, <<Call(x)>>, <<[Call(f) EXCEPT !.width = 1]>>, <<At(Call(f), 1), At(Call(g), 4)>>,
    <<Fronted(To(g, "plain"))>>, <<[Call(g) EXCEPT !.addend = 3]>>, <<At(To(f, "plain"), 0)>>,
    <<To(number, "plain"), At(To(g, "plain"), 3)>>, <<At(To(g, "plain"), 3), To(number, "plain")>>,
    <<Fronted(Behind228(f)), At(To(g, "plain"), 3)>>,
    <<At(To(g, "plain"), 3), [Fronted(Behind228(f)) EXCEPT !.addend = 230]>>,
    <<Fronted(To(g, "plain")), At(To(main, "plain"), 4)>> }

SectionSymbols ==
  <<Extern(f), Extern(g), Extern(x), Defined(bss, 3, 3, 20), Defined(dead, 3, 4, 33),
    Defined(main, 4, 1, 2), Defined(data, 4, 2, 9), Defined(number, 4, 0, 230)>>

SectionProgram(code3, code4, packs, translates, area, least) ==
  [Program(1, TameLibraries, Tame, SectionSymbols, Fixed(packs) \o Object3(code3) \o Object4(code4))
     EXCEPT !.onekpaq = packs, !.translate = translates, !.decompress_offset = area, !.heap_size = least]

\* A section of code that its object has at 24.
Elsewhere(refs) == Section(3, 6, "__TEXT", "__cold", 24, 5, refs)

SectionPrograms ==
  {SectionProgram(<<r>>, <<t>>, packs, translates, IF r = Call(g) THEN 300 ELSE 80, 40) :
     r \in References, t \in {Call(f), [To(main, "plain") EXCEPT !.addend = 4]},
     packs \in BOOLEAN, translates \in BOOLEAN}
  \cup {SectionProgram(refs, <<At(To(main, "plain"), 4)>>, packs, TRUE, 80, 40) :
          refs \in CallFields, packs \in BOOLEAN}
  \cup {SectionProgram(<<At(To(main, "plain"), 5)>>, refs, packs, TRUE, 80, 40) :
          refs \in CallFields, packs \in BOOLEAN}
  \cup {SectionProgram(<<r>>, <<>>, packs, translates, 80, least) :
          r \in Jumps, packs \in BOOLEAN, translates \in BOOLEAN, least \in {1, 200}}
  \cup {[SectionProgram(<<>>, <<>>, packs, TRUE, 80, 40) EXCEPT !.sects = Append(@, Elsewhere(<<r>>))] :
          r \in {Call(main), Call(f), To(main, "plain")}, packs \in BOOLEAN}
  \cup {SectionProgram(<<Call(bss)>>, <<>>, TRUE, FALSE, area, 40) : area \in {20, 84, 90, 96, 102}}

\* One call more than there are translations for, and a second source for oneKpaq.
CrowdedPrograms ==
  {[Program(1, TameLibraries, Tame, <<Extern(g), Main>>,
            Fixed(FALSE) \o <<Section(3, 1, "__TEXT", "__text", 0, 13,
                                      [n \in 1 .. many |-> At(Call(g), 3 * n - 2)])>>)
      EXCEPT !.translate = TRUE] : many \in 3 .. 4}
  \cup {[SectionProgram(<<>>, <<>>, TRUE, FALSE, 80, 40)
           EXCEPT !.sects[2].refs = Append(@, At(To(Source, "plain"), 7))]}

-----------------------------------------------------------------------------
\* Calls.  Bytes are digits to the base of 32, 7 is the call.  Pieces of code: calls
\* backwards, far away and into the jump table, call bytes in operands, none at all.
Pieces == {<<7, 31, 31>>, <<7, 7, 0>>, <<7, 2, 7>>, <<7, 30, 0>>, <<7>>, <<0>>}

CodeProgram(text) ==
  [Program(1, TameLibraries, Tame, <<Extern(g), Main>>,
           Fixed(FALSE) \o <<Section(3, 1, "__TEXT", "__text", 0, Len(text), <<>>),
                             Section(3, 2, "__DATA", "__data", 30, 4, <<>>)>>)
     EXCEPT !.absolute = TRUE, !.code = text]

CallPrograms ==
  {CodeProgram(a \o b \o c \o d) : a, b, c \in Pieces, d \in {<<0, 0, 0>>, <<7, 31, 31, 7>>}}

MCPrograms ==
  HashPrograms \cup OtherPrograms \cup LibraryPrograms \cup SectionPrograms
    \cup CrowdedPrograms \cup CallPrograms

\* A file that is filled up, and one that is not.
MCPacked == {<<2, 5>>, <<3, 60>>}
=============================================================================
