---------------------------- MODULE MCBlockChoice ----------------------------
(* Images for BlockChoice in three families: blocks whose codings are a    *)
(* little shorter or longer than storing them; four equal blocks, for the   *)
(* odometer; matches at the ends of every range, at every bit position.     *)
EXTENDS Inflater, TLC

Lengths == 257 .. 285
Spread(prefix, symbols, from, bits) ==
  [s \in symbols |-> prefix \o LowBits(s - from, bits)]

\* 5-bit distances, and the shortest distance in one bit, the others in twelve.
Even   == Spread(<<>>, 0 .. 29, 0, 5)
Uneven == 0 :> <<0>> @@ Spread(<<1>>, 1 .. 29, 0, 11)

\* The shortest code is a literal's, a match's, the end's; in the last one the
\* end has no room beside anything, and lengths take more than a byte.
Codes ==
  << [items |-> 65 :> <<0>> @@ 256 :> <<1, 1>> @@ Spread(<<1, 0>>, Lengths, 257, 5),
      distances |-> Even],
     [items |-> 65 :> <<1, 0>> @@ 256 :> <<1, 1, 1>> @@ 257 :> <<0>>
                @@ Spread(<<1, 1, 0>>, Lengths \ {257}, 257, 5),
      distances |-> Uneven],
     [items |-> 65 :> <<1, 0>> @@ 256 :> <<0>> @@ Spread(<<1, 1>>, Lengths, 257, 5),
      distances |-> Uneven],
     [items |-> 65 :> <<1>> @@ 256 :> Zeros(7) @@ Spread(<<0, 1>>, Lengths, 257, 8),
      distances |-> Even] >>

A(n) == [k \in 1 .. n |-> [type |-> "CW_LITERAL", lit |-> 65, ld |-> 0]]

Matches ==
  << A(1) \o Match(5, 2) \o Match(3, 1) \o Match(4, 1),
     Match(3, 1) \o Match(10, 4) \o Match(11, 5) \o Match(12, 6) \o Match(18, 7),
     Match(19, 8) \o Match(22, 9) \o Match(23, 16) \o Match(34, 17) \o Match(35, 32),
     Match(66, 33) \o Match(67, 64) \o Match(130, 65) \o Match(131, 128) \o Match(256, 129),
     Match(257, 256) \o Match(258, 257) \o Match(6, 512) \o Match(7, 513) \o Match(8, 1024),
     Match(9, 1025) \o Match(13, 2048) \o Match(14, 2049) \o Match(15, 4096),
     Match(16, 4097) \o Match(17, 8192) \o Match(24, 8193) \o Match(99, 16384),
     Match(162, 16385) \o Match(163, 24577) \o Match(227, 32768) >>

SizeOf(words) == Sum([n \in DOMAIN words |-> IF words[n].type = "CW_LITERAL" THEN 1
                                             ELSE IF words[n].type = "CW_LENGTH" THEN words[n].ld ELSE 0])

-----------------------------------------------------------------------------
\* A coding: its words, its code, the bits of its tables.
Coded(words, code, tables) == [code |-> Codes[code], tables |-> tables, words |-> words]

Repeated(n) == A(1) \o Match(n - 1, 1)
Mixed == A(9) \o Match(23, 1)

Big == {SizeOf(Matches[m]) : m \in DOMAIN Matches}
MatchesOf(n) == CHOOSE m \in DOMAIN Matches : SizeOf(Matches[m]) = n

Stored(n) == 1 + 2 + 7 + (n + 4) * 8
Static(n) == 1 + 2 + 9 * n + 7

\* A coding's name: what the words are, their size, the code, the bits of the tables.
\* This one is given the length the block is to have.
OfLength(n, length) ==
  <<"repeated", n, 1, length - CodedLength(Coded(Repeated(n), 1, 0))>>

WaysOf(n, lengths) == {<<OfLength(n, d[1]), OfLength(n, d[2])>> : d \in lengths}

\* Of two ways one or the other is a little shorter or both are longer than storing.
Around(n) ==
  WaysOf(n, {<<Stored(n) - 9, Stored(n) - 2>>, <<Stored(n) - 2, Stored(n) - 9>>,
             <<Stored(n) + 3, Stored(n) + 1>>})

\* Every length modulo a byte.
Unaligned(n) == WaysOf(n, {<<n + 15 + t, n + 19 + t>> : t \in 0 .. 7})

\* Sizes 11 to 44 are parts of four equal blocks, where joining two is now better and
\* now worse; thirds of 36 are the shortest image the linker hands over, and literals
\* of the static code all through.  Mixed words and matches are short, joined to one block they are not.
Names(n) ==
  CASE n = 5  -> Unaligned(n)
    [] n \in {38, 43} -> Around(n)
    [] n = 46 -> WaysOf(n, {<<Static(n), Static(n) - 1>>})
    [] n = 76 -> WaysOf(n, {<<Static(n), Static(n) + 9>>, <<Static(n) - 3, Static(n)>>})
    [] n \in {12, 36} -> WaysOf(n, {<<Static(n), Static(n) - 1>>})
    [] n = 24 -> WaysOf(n, {<<Static(n) - 20, Static(n) - 2>>, <<Static(n), Static(n) + 2>>})
    [] n = 11 -> WaysOf(n, {<<60, 61>>, <<69, 68>>})
    [] n = 22 -> WaysOf(n, {<<125, 124>>, <<132, 134>>})
    [] n = 33 -> WaysOf(n, {<<188, 189>>, <<200, 199>>})
    [] n = 44 -> WaysOf(n, {<<253, 255>>})
    [] n = 32 -> {<<<<"mixed", n, c[1], c[2]>>, <<"mixed", n, c[1], 40>>>> :
                    c \in ({1} \X (0 .. 7)) \cup ((2 .. 4) \X {3})}
    [] n \in Big -> {<<<<"matches", n, c, 11>>, <<"matches", n, c, 0>>>> : c \in 1 .. 4}
    [] OTHER -> {<<<<"repeated", 100, 1, 270>>, <<"repeated", 100, 1, 271>>>>}

MCLinkerBlocks ==
  {<<5, 38>>, <<38, 5>>, <<38, 38>>, <<46>>, <<12, 12, 12>>, <<11, 11, 11, 11>>}
  \cup {<<32, n>> : n \in Big} \cup {<<n, 32>> : n \in Big}

Sizes ==
  UNION {{Sum(SubSeq(b, j, k)) : j, k \in DOMAIN b} \ {0} : b \in MCLinkerBlocks}

MCWays == [n \in Sizes |-> Names(n)]

WordsOf(name) ==
  CASE name[1] = "repeated" -> Repeated(name[2])
    [] name[1] = "mixed"    -> Mixed
    [] name[1] = "matches"  -> Matches[MatchesOf(name[2])]

MCCodings ==
  [name \in UNION {UNION {{names[1], names[2]} : names \in Names(n)} : n \in Sizes} |->
     Coded(WordsOf(name), name[3], name[4])]

MCRoom(n) == IF n = 76 THEN 90 ELSE 60

MCImage(k) == (37 * k) % 256
=============================================================================
