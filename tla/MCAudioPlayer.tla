--------------------------- MODULE MCAudioPlayer ---------------------------
(* All songs of three words for one channel, and some for two.             *)
EXTENDS AudioPlayer

Rest(n) == [note |-> 0, rest |-> n, flags |-> {}, patch |-> 0]
Word(note, flags, p) == [note |-> note, rest |-> -1, flags |-> flags, patch |-> p]

Words ==
  {Rest(0), Rest(1), Word(0, {}, 0), Word(0, {"NOTEOFF"}, 0), Word(0, {"ACCENT"}, 2),
   Word(5, {}, 0), Word(6, {"NOTEOFF"}, 1), Word(7, {"ACCENT"}, 2), Word(8, {"NOTEOFF", "ACCENT"}, 0)}

\* Two channels: the second is silent at first, and gets the second buffer.
Pairs ==
  {<<<<Word(5, {"NOTEOFF"}, 1), Rest(1)>>, <<Rest(0), Word(6, {"NOTEOFF"}, p), Word(0, {}, 0)>>>> : p \in 1 .. 2}

MCSongs == {<<w>> : w \in [1 .. 3 -> Words]} \cup Pairs

\* A slow release leaves a level for the next note; the second patch's delay moves.
MCPatches ==
  << [attack |-> 3, decay |-> 1, sustain |-> 2, release |-> 1, times |-> {5}],
     [attack |-> 2, decay |-> 3, sustain |-> 0, release |-> 4, times |-> {2, 3, 6}] >>
MCBufferSizes == {3, 5}
=============================================================================
