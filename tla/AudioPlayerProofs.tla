------------------------- MODULE AudioPlayerProofs --------------------------
(***************************************************************************)
(* Proofs about AudioPlayer, for every song, every patch and every size of *)
(* the buffers.                                                            *)
(*                                                                         *)
(* The delay lines are in time (Inv).  Voices are computed in order from   *)
(* the first sample on, so voice c gets buffer c - 1 and nobody else's.    *)
(* And a buffer of D cells whose next write goes to w holds the last D     *)
(* samples: those below w of this lap, those from w on of the lap before,  *)
(* silence where there was none.                                           *)
(*                                                                         *)
(* What sounds is what is written (SoundInv).  The words a channel has     *)
(* read stand for the rows played and those of a rest that are still to be *)
(* counted down, and what it remembers follows from the rows played.  How  *)
(* a row and a tick of it become the next is worked out without the state. *)
(***************************************************************************)
EXTENDS AudioPlayer, Induction, TLAPS

\* How many samples voice c has put into its buffer.
Written(c) == IF c < voice THEN pos + 1 ELSE pos

\* When the cell k of a buffer was written, as the next write goes to w and is
\* the n-th; negative if nobody has written it.
WrittenAt(k, w, n) == IF k < w THEN n - w + k ELSE n - w + k - DelaySize

Cells == 0 .. DelaySize - 1

TypeOK ==
  /\ song \in Songs
  /\ sample_position \in Nat /\ size \in Nat /\ ebx \in Nat
  /\ voice \in 0 .. Len(song) + 1
  /\ size = 0 => ebx = 0 /\ voice = 0
  /\ line \in [Voices -> [buffer : Int, offset : Cells]]
  /\ delaycount \in Nat
  /\ delaybuffer \in [0 .. Len(song) - 1 -> [Cells -> {Silence} \cup (Voices \X Nat)]]
  /\ heard = [c \in Voices |-> heard[c]]

\* Buffers are handed out in the first sample, in the order of the voices.
Allotted ==
  IF pos = 0
  THEN /\ delaycount = IF voice = 0 THEN 0 ELSE voice - 1
       /\ \A c \in Voices : line[c].buffer = IF c < voice THEN c - 1 ELSE NoBuffer
  ELSE /\ delaycount = Len(song)
       /\ \A c \in Voices : line[c].buffer = c - 1

\* Every buffer holds the last samples its voice has put in.
Ring ==
  \A c \in Voices : \A k \in Cells :
    delaybuffer[c - 1][k] = Put(c, WrittenAt(k, line[c].offset, Written(c)))

\* A voice that has been computed for this sample has heard what it should.
InTime(c, h) ==
  h.time \in 2 .. DelaySize =>
    h.first = Put(c, pos - h.time) /\ h.second = Put(c, pos - h.time + 1)
Heard == \A c \in Voices : c < voice => InTime(c, heard[c])

Inv == TypeOK /\ Allotted /\ Ring /\ Heard

-----------------------------------------------------------------------------

LEMMA Sizes == DelaySize \in Nat /\ DelaySize > 0 /\ BufferSizes \subseteq Nat \ {0}
BY PlayerAssumption

LEMMA SongIs == ASSUME song \in Songs PROVE Len(song) \in Nat /\ Voices = 1 .. Len(song)
BY PlayerAssumption DEF Voices

\* The offset after x - 1 wraps at the end of the buffer.
LEMMA Wrap ==
  ASSUME NEW x \in 0 .. DelaySize
  PROVE  x % DelaySize = IF x = DelaySize THEN 0 ELSE x
BY Sizes

\* The cell that is read for a delay of t, and the one behind it.
LEMMA ReadCells ==
  ASSUME NEW w \in Cells, NEW t \in 2 .. DelaySize, NEW n \in Nat
  PROVE  /\ ReadAt(w, t) \in Cells
         /\ WrittenAt(ReadAt(w, t), w, n) = n - t
         /\ (ReadAt(w, t) + 1) % DelaySize \in Cells
         /\ WrittenAt((ReadAt(w, t) + 1) % DelaySize, w, n) = n - t + 1
<1> DEFINE r == ReadAt(w, t)
<1>1. r = IF w < t THEN w - t + DelaySize ELSE w - t
  BY DEF ReadAt
<1>2. r \in Cells /\ WrittenAt(r, w, n) = n - t
  BY <1>1, Sizes DEF Cells, WrittenAt
<1>3. (r + 1) % DelaySize = IF r + 1 = DelaySize THEN 0 ELSE r + 1
  BY <1>2, Sizes, Wrap DEF Cells
<1> HIDE DEF r
<1>4. (r + 1) % DelaySize \in Cells /\ WrittenAt((r + 1) % DelaySize, w, n) = n - t + 1
  <2>1. CASE w < t /\ r + 1 = DelaySize
    BY <2>1, <1>1, <1>3, Sizes DEF Cells, WrittenAt
  <2>2. CASE w < t /\ r + 1 # DelaySize
    BY <2>2, <1>1, <1>2, <1>3, Sizes DEF Cells, WrittenAt
  <2>3. CASE ~(w < t)
    BY <2>3, <1>1, <1>2, <1>3, Sizes DEF Cells, WrittenAt
  <2> QED  BY <2>1, <2>2, <2>3
<1> QED  BY <1>2, <1>4 DEF r

\* What one write does to the ages of the cells.
LEMMA WriteCell ==
  ASSUME NEW w \in Cells, NEW n \in Nat, NEW k \in Cells
  PROVE  /\ (w + 1) % DelaySize \in Cells
         /\ WrittenAt(k, (w + 1) % DelaySize, n + 1) = IF k = w THEN n ELSE WrittenAt(k, w, n)
<1>1. (w + 1) % DelaySize = IF w + 1 = DelaySize THEN 0 ELSE w + 1
  BY Sizes, Wrap DEF Cells
<1>2. CASE w + 1 = DelaySize
  BY <1>1, <1>2, Sizes DEF Cells, WrittenAt
<1>3. CASE w + 1 # DelaySize
  BY <1>1, <1>3, Sizes DEF Cells, WrittenAt
<1> QED  BY <1>2, <1>3

-----------------------------------------------------------------------------

LEMMA Initially == Init => Inv
<1> SUFFICES ASSUME Init PROVE Inv
  OBVIOUS
<1>1. song \in Songs /\ Len(song) \in Nat /\ Voices = 1 .. Len(song)
  BY SongIs DEF Init
<1>2. pos = 0 /\ voice = 0
  BY DEF Init, pos
<1>3. TypeOK
  BY <1>1, Sizes DEF Init, TypeOK, Cells, NoBuffer
<1>4. Allotted
  BY <1>1, <1>2 DEF Init, Allotted
<1>5. Ring
  <2> SUFFICES ASSUME NEW c \in Voices, NEW k \in Cells
               PROVE  delaybuffer[c - 1][k] = Put(c, WrittenAt(k, line[c].offset, Written(c)))
    BY DEF Ring
  <2>1. delaybuffer[c - 1][k] = Silence /\ line[c].offset = 0 /\ Written(c) = 0
    BY <1>1, <1>2 DEF Init, Cells, Written
  <2>2. WrittenAt(k, 0, 0) < 0
    BY Sizes DEF Cells, WrittenAt
  <2> QED  BY <2>1, <2>2 DEF Put
<1>6. Heard
  BY <1>1, <1>2 DEF Heard
<1> QED  BY <1>3, <1>4, <1>5, <1>6 DEF Inv

\* A step that keeps the samples written, their buffers and what was heard.
LEMMA Kept ==
  ASSUME Inv, TypeOK', pos' = pos, voice' = voice \/ (voice = 0 /\ voice' = 1),
         UNCHANGED <<song, line, delaycount, delaybuffer, heard>>
  PROVE  Inv'
<1>1. Len(song) \in Nat /\ Voices = 1 .. Len(song) /\ Voices' = Voices /\ pos \in Nat
  BY SongIs DEF Inv, TypeOK, Voices, pos
<1>2. voice \in Nat /\ voice' \in Nat /\ \A c \in Voices : c < voice <=> c < voice'
  BY <1>1 DEF Inv, TypeOK
<1>3. \A c \in Voices : Written(c)' = Written(c)
  BY <1>1, <1>2 DEF Written
<1>4. Allotted'
  BY <1>1, <1>2 DEF Inv, Allotted
<1>5. Ring'
  BY <1>1, <1>3 DEF Inv, Ring
<1>6. Heard'
  BY <1>1, <1>2 DEF Inv, Heard, InTime
<1> QED  BY <1>4, <1>5, <1>6 DEF Inv

LEMMA Computed == Inv /\ ProcessVoice => Inv'
<1> SUFFICES ASSUME Inv, ProcessVoice PROVE Inv'
  OBVIOUS
<1> DEFINE c == voice
<1>1. /\ Len(song) \in Nat /\ Voices = 1 .. Len(song) /\ Voices' = Voices
      /\ song' = song /\ pos' = pos /\ pos \in Nat /\ c \in Voices /\ voice' = c + 1
  BY SongIs DEF Inv, TypeOK, Voices, pos, ProcessVoice
<1>2. PICK t : Delay(c, t)
  BY DEF ProcessVoice
<1> DEFINE w == line[c].offset
           b == BufferOf(c)
<1>3. w \in Cells
  BY <1>1 DEF Inv, TypeOK
<1>4. b = c - 1
  <2>1. CASE pos = 0
    BY <2>1, <1>1 DEF Inv, Allotted, BufferOf, NoBuffer
  <2>2. CASE pos # 0
    BY <2>2, <1>1 DEF Inv, Allotted, BufferOf, NoBuffer
  <2> QED  BY <2>1, <2>2
<1>5. /\ heard' = [heard EXCEPT ![c] =
                     [time |-> t, first |-> delaybuffer[c - 1][ReadAt(w, t)],
                      second |-> delaybuffer[c - 1][(ReadAt(w, t) + 1) % DelaySize]]]
      /\ delaybuffer' = [delaybuffer EXCEPT ![c - 1][w] = <<c, pos>>]
      /\ line' = [line EXCEPT ![c] = [buffer |-> c - 1, offset |-> (w + 1) % DelaySize]]
      /\ delaycount' = IF line[c].buffer = NoBuffer THEN delaycount + 1 ELSE delaycount
  BY <1>2, <1>4 DEF Delay
<1>6. (w + 1) % DelaySize \in Cells
  BY <1>3, <1>1, WriteCell
<1> HIDE DEF w, b
<1>7. TypeOK'
  <2>1. line' \in [Voices -> [buffer : Int, offset : Cells]]
    BY <1>1, <1>5, <1>6 DEF Inv, TypeOK
  <2>2. delaybuffer' \in [0 .. Len(song) - 1 -> [Cells -> {Silence} \cup (Voices \X Nat)]]
    <3>1. <<c, pos>> \in {Silence} \cup (Voices \X Nat)
      BY <1>1
    <3>2. delaybuffer[c - 1] \in [Cells -> {Silence} \cup (Voices \X Nat)]
      BY <1>1 DEF Inv, TypeOK
    <3>3. [delaybuffer[c - 1] EXCEPT ![w] = <<c, pos>>] \in [Cells -> {Silence} \cup (Voices \X Nat)]
      BY <3>1, <3>2
    <3> QED  BY <3>3, <1>5, <1>1 DEF Inv, TypeOK
  <2>3. heard' = [d \in Voices |-> heard'[d]]
    BY <1>5 DEF Inv, TypeOK
  <2>4. delaycount' \in Nat
    BY <1>5 DEF Inv, TypeOK
  <2>5. size # 0 /\ size' = size /\ sample_position' = sample_position /\ ebx' = ebx
    BY <1>1 DEF Inv, TypeOK, ProcessVoice
  <2> QED  BY <2>1, <2>2, <2>3, <2>4, <2>5, <1>1 DEF Inv, TypeOK
<1>8. Allotted'
  <2>1. \A d \in Voices : line'[d].buffer = IF d = c THEN c - 1 ELSE line[d].buffer
    BY <1>1, <1>5 DEF Inv, TypeOK
  <2>2. CASE pos = 0
    BY <2>1, <2>2, <1>1, <1>5 DEF Inv, Allotted, NoBuffer
  <2>3. CASE pos # 0
    BY <2>1, <2>3, <1>1, <1>5 DEF Inv, Allotted, NoBuffer
  <2> QED  BY <2>2, <2>3
<1>9. Ring'
  <2> SUFFICES ASSUME NEW d \in Voices, NEW k \in Cells
               PROVE  delaybuffer'[d - 1][k] = Put(d, WrittenAt(k, line'[d].offset, Written(d)'))
    BY <1>1 DEF Ring, Put, WrittenAt, Cells, Silence
  <2>1. delaybuffer[d - 1][k] = Put(d, WrittenAt(k, line[d].offset, Written(d)))
    BY DEF Inv, Ring
  <2>2. CASE d # c
    <3>1. line'[d] = line[d] /\ delaybuffer'[d - 1] = delaybuffer[d - 1]
      BY <2>2, <1>1, <1>5 DEF Inv, TypeOK
    <3>2. Written(d)' = Written(d)
      BY <2>2, <1>1 DEF Written
    <3> QED  BY <2>1, <3>1, <3>2
  <2>3. CASE d = c
    <3>1. Written(d) = pos /\ Written(d)' = pos + 1
      BY <2>3, <1>1 DEF Written
    <3>2. line'[d].offset = (w + 1) % DelaySize
      BY <2>3, <1>1, <1>5 DEF Inv, TypeOK
    <3>3. WrittenAt(k, (w + 1) % DelaySize, pos + 1) = IF k = w THEN pos ELSE WrittenAt(k, w, pos)
      BY <1>1, <1>3, WriteCell
    <3>4. delaybuffer'[d - 1][k] = IF k = w THEN <<c, pos>> ELSE delaybuffer[d - 1][k]
      BY <2>3, <1>1, <1>3, <1>5 DEF Inv, TypeOK
    <3>5. Put(c, pos) = <<c, pos>>
      BY <1>1 DEF Put
    <3> QED  BY <2>1, <2>3, <3>1, <3>2, <3>3, <3>4, <3>5 DEF w
  <2> QED  BY <2>2, <2>3
<1>10. Heard'
  <2> SUFFICES ASSUME NEW d \in Voices, d < voice' PROVE InTime(d, heard[d])'
    BY <1>1 DEF Heard
  <2>1. CASE d # c
    <3>1. heard'[d] = heard[d] /\ d < voice
      BY <2>1, <1>1, <1>5 DEF Inv, TypeOK
    <3> QED  BY <3>1, <1>1 DEF Inv, Heard, InTime, Put, Silence
  <2>2. CASE d = c
    <3>1. heard'[d] = [time |-> t, first |-> delaybuffer[c - 1][ReadAt(w, t)],
                       second |-> delaybuffer[c - 1][(ReadAt(w, t) + 1) % DelaySize]]
      BY <2>2, <1>5 DEF Inv, TypeOK
    <3>2. \A k \in Cells : delaybuffer[c - 1][k] = Put(c, WrittenAt(k, w, pos))
      BY <1>1 DEF Inv, Ring, Written, w
    <3>3. ASSUME t \in 2 .. DelaySize
          PROVE  /\ delaybuffer[c - 1][ReadAt(w, t)] = Put(c, pos - t)
                 /\ delaybuffer[c - 1][(ReadAt(w, t) + 1) % DelaySize] = Put(c, pos - t + 1)
      <4>1. /\ ReadAt(w, t) \in Cells /\ WrittenAt(ReadAt(w, t), w, pos) = pos - t
            /\ (ReadAt(w, t) + 1) % DelaySize \in Cells
            /\ WrittenAt((ReadAt(w, t) + 1) % DelaySize, w, pos) = pos - t + 1
        BY <3>3, <1>1, <1>3, ReadCells
      <4> QED  BY <3>2, <4>1
    <3> QED  BY <3>1, <3>3, <2>2, <1>1 DEF InTime, Put, Silence
  <2> QED  BY <2>1, <2>2
<1> QED  BY <1>7, <1>8, <1>9, <1>10 DEF Inv

\* The next sample: what was written for this one belongs to the last.
LEMMA NextSample == Inv /\ SampleDone => Inv'
<1> SUFFICES ASSUME Inv, SampleDone PROVE Inv'
  OBVIOUS
<1>1. /\ Len(song) \in Nat /\ Voices = 1 .. Len(song) /\ Voices' = Voices
      /\ song' = song /\ pos \in Nat /\ voice = Len(song) + 1 /\ voice' = 0
      /\ UNCHANGED <<line, delaycount, delaybuffer, heard>>
  BY SongIs DEF Inv, TypeOK, Voices, pos, SampleDone, Mixed
<1>2. size # 0
  BY <1>1 DEF Inv, TypeOK
<1>3. pos' = pos + 1
  BY <1>2 DEF Inv, TypeOK, SampleDone, pos
<1>4. TypeOK'
  BY <1>1, <1>2 DEF Inv, TypeOK, SampleDone
<1>5. \A c \in Voices : Written(c)' = Written(c)
  BY <1>1, <1>3 DEF Written
<1>6. Allotted'
  BY <1>1, <1>3 DEF Inv, Allotted
<1>7. Ring'
  BY <1>1, <1>5 DEF Inv, Ring
<1>8. Heard'
  BY <1>1 DEF Heard
<1> QED  BY <1>4, <1>6, <1>7, <1>8 DEF Inv

LEMMA Step == Inv /\ [Next]_vars => Inv'
<1> SUFFICES ASSUME Inv, [Next]_vars PROVE Inv'
  OBVIOUS
<1>1. CASE AudioProc
  <2>1. pos' = pos
    BY <1>1 DEF Inv, TypeOK, AudioProc, pos
  <2>2. TypeOK'
    BY <1>1, Sizes DEF Inv, TypeOK, AudioProc, Voices
  <2> QED  BY <1>1, <2>1, <2>2, Kept DEF AudioProc
<1>2. CASE PlayNotes
  <2>1. pos' = pos
    BY <1>2 DEF PlayNotes, pos
  <2>2. TypeOK'
    BY <1>2, SongIs DEF Inv, TypeOK, PlayNotes, Voices
  <2> QED  BY <1>2, <2>1, <2>2, Kept DEF PlayNotes
<1>3. CASE ProcessVoice
  BY <1>3, Computed
<1>4. CASE SampleDone
  BY <1>4, NextSample
<1>5. CASE UNCHANGED vars
  <2>1. pos' = pos /\ TypeOK'
    BY <1>5 DEF Inv, TypeOK, vars, pos, Voices
  <2> QED  BY <1>5, <2>1, Kept DEF vars
<1> QED  BY <1>1, <1>2, <1>3, <1>4, <1>5 DEF Next, Terminating

\* In every sample the delays mix what their own voice put in, as long ago as the
\* delay is and a sample later: whatever the song, the patches, the length of the
\* buffer and the cuts of the system are.
THEOREM DelaysInTime == Spec => []EchoesInTime
<1>1. Inv => EchoesInTime
  BY SongIs DEF Inv, TypeOK, Heard, InTime, EchoesInTime, Mixed
<1> QED  BY <1>1, Initially, Step, PTL DEF Spec

-----------------------------------------------------------------------------
(* What is in a row.                                                       *)

Flags == {"GATE", "NOTEOFF", "ACCENT", "LOAD_PATCH"}
Words == [note : Nat, rest : Nat \cup {-1}, flags : SUBSET {"NOTEOFF", "ACCENT"},
          patch : {0} \cup DOMAIN Patches]

LEMMA EmptyIsWord == Empty \in Words
BY DEF Empty, Words

LEMMA RowsIs ==
  ASSUME NEW word \in Words
  PROVE  /\ Rows(word) \in Seq(Words)
         /\ Len(Rows(word)) = IF word.rest = -1 THEN 1 ELSE word.rest + 1
         /\ \A k \in 1 .. Len(Rows(word)) : Rows(word)[k] = IF word.rest = -1 THEN word ELSE Empty
<1>1. CASE word.rest = -1
  BY <1>1 DEF Rows
<1>2. CASE word.rest # -1
  <2>1. PICK m \in Nat : m = word.rest + 1
    BY <1>2 DEF Words
  <2>2. PICK W : W = Words
    OBVIOUS
  <2>3. PICK e : e = Empty
    OBVIOUS
  <2>4. e \in W /\ Rows(word) = [k \in 1 .. m |-> e]
    BY <1>2, <2>1, <2>2, <2>3, EmptyIsWord DEF Rows
  <2>5. Rows(word) \in Seq(W) /\ Len(Rows(word)) = m /\ \A k \in 1 .. m : Rows(word)[k] = e
    BY <2>4
  <2> QED  BY <1>2, <2>1, <2>2, <2>3, <2>5
<1> QED  BY <1>1, <1>2

WordRows(words) == [n \in DOMAIN words |-> Rows(words[n])]

ScoreOf(words) == FlattenSeq(WordRows(words))

\* The rows of the first n words.
RowsOfFirst(words, n) == FlattenSeq(SubSeq(WordRows(words), 1, n))

LEMMA WordRowsIs ==
  ASSUME NEW words \in Seq(Words)
  PROVE  /\ WordRows(words) \in Seq(Seq(Words)) /\ Len(WordRows(words)) = Len(words)
         /\ \A n \in 1 .. Len(words) : WordRows(words)[n] = Rows(words[n])
         /\ ScoreOf(words) \in Seq(Words)
<1>1. PICK m \in Nat : m = Len(words) /\ DOMAIN words = 1 .. m
  OBVIOUS
<1>2. \A n \in 1 .. m : WordRows(words)[n] = Rows(words[n]) /\ WordRows(words)[n] \in Seq(Words)
  BY <1>1, RowsIs DEF WordRows
<1>3. PICK W : W = Seq(Words)
  OBVIOUS
<1>4. WordRows(words) \in [1 .. m -> W]
  BY <1>1, <1>2, <1>3 DEF WordRows
<1>5. WordRows(words) \in Seq(W) /\ Len(WordRows(words)) = m
  <2>1. WordRows(words) \in Seq(W) /\ DOMAIN WordRows(words) = 1 .. m
    BY <1>4
  <2> QED  BY <2>1
<1>6. ScoreOf(words) \in Seq(Words)
  BY <1>3, <1>5, FlattenType DEF ScoreOf
<1> QED  BY <1>1, <1>2, <1>3, <1>5, <1>6

\* The rows behind those of the first n words are those of the next word.
LEMMA NextRows ==
  ASSUME NEW words \in Seq(Words), NEW n \in Nat, n + 1 <= Len(words)
  PROVE  /\ RowsOfFirst(words, n) \in Seq(Words)
         /\ Len(RowsOfFirst(words, n + 1)) = Len(RowsOfFirst(words, n)) + Len(Rows(words[n + 1]))
         /\ Len(RowsOfFirst(words, n + 1)) <= Len(ScoreOf(words))
         /\ \A k \in 1 .. Len(Rows(words[n + 1])) :
              ScoreOf(words)[Len(RowsOfFirst(words, n)) + k] = Rows(words[n + 1])[k]
<1> DEFINE R == WordRows(words)
           a == FlattenSeq(SubSeq(R, 1, n))
           b == Rows(words[n + 1])
           z == FlattenSeq(SubSeq(R, n + 2, Len(R)))
<1>1. /\ R \in Seq(Seq(Words)) /\ Len(R) = Len(words) /\ n + 1 \in 1 .. Len(R)
      /\ R[n + 1] = b /\ ScoreOf(words) = FlattenSeq(R)
  <2>1. /\ R \in Seq(Seq(Words)) /\ Len(R) = Len(words)
        /\ \A k \in 1 .. Len(words) : R[k] = Rows(words[k])
    BY WordRowsIs
  <2>2. n + 1 \in 1 .. Len(words)
    OBVIOUS
  <2> QED  BY <2>1, <2>2 DEF ScoreOf
<1>2. PICK m \in Nat : m = Len(R) /\ n + 1 <= m
  BY <1>1
<1> HIDE DEF R
<1>3. /\ SubSeq(R, 1, n) \in Seq(Seq(Words)) /\ SubSeq(R, 1, n + 1) \in Seq(Seq(Words))
      /\ SubSeq(R, n + 2, m) \in Seq(Seq(Words))
      /\ SubSeq(R, 1, n + 1) = Append(SubSeq(R, 1, n), b) /\ b \in Seq(Words)
  BY <1>1, <1>2
<1>4. SubSeq(R, 1, n + 1) \o SubSeq(R, n + 2, m) = R
  <2>1. 1 \in 1 .. Len(R) + 1 /\ n + 1 \in 1 - 1 .. Len(R) /\ m \in n + 1 .. Len(R)
    BY <1>2
  <2>2. SubSeq(R, 1, n + 1) \o SubSeq(R, n + 1 + 1, m) = SubSeq(R, 1, m)
    BY <1>1, <2>1, ConcatAdjacentSubSeq
  <2>3. SubSeq(R, 1, m) = R /\ n + 1 + 1 = n + 2
    BY <1>1, <1>2, SubSeqFull
  <2> QED  BY <2>2, <2>3
<1>5. FlattenSeq(SubSeq(R, 1, n + 1)) = a \o b
  BY <1>3, FlattenAppend
<1>6. ScoreOf(words) = (a \o b) \o z
  BY <1>1, <1>2, <1>3, <1>4, <1>5, FlattenConcat
<1>7. a \in Seq(Words) /\ z \in Seq(Words)
  BY <1>2, <1>3, FlattenType
<1>8. RowsOfFirst(words, n) = a /\ RowsOfFirst(words, n + 1) = a \o b
  BY <1>5 DEF RowsOfFirst, R
<1> HIDE DEF a, b, z
<1>9. /\ Len(a \o b) = Len(a) + Len(b) /\ Len(a \o b) <= Len((a \o b) \o z)
      /\ \A k \in 1 .. Len(b) : ((a \o b) \o z)[Len(a) + k] = b[k]
  BY <1>3, <1>7
<1> QED  BY <1>6, <1>7, <1>8, <1>9 DEF b

-----------------------------------------------------------------------------
(* What a row and a tick of it say.                                        *)

NoteIn(rows, r) == Max({0} \cup {q \in 1 .. r : rows[q].note # 0})
EndedIn(rows, r, t) ==
  \E q \in Max({1, NoteIn(rows, r)}) .. r :
    "NOTEOFF" \in rows[q].flags /\ (q < r \/ t >= OffTick)
SoundsIn(rows, r, t) == NoteIn(rows, r) # 0 /\ ~ EndedIn(rows, r, t)
AccentIn(rows, r) == \E q \in Max({1, NoteIn(rows, r)}) .. r : "ACCENT" \in rows[q].flags
PatchIn(rows, r) ==
  LET named == {q \in 1 .. r : rows[q].patch # 0}
  IN  IF named = {} THEN 0 ELSE rows[Max(named)].patch

LEMMA NoteFirst == ASSUME NEW rows PROVE NoteIn(rows, 0) = 0 /\ PatchIn(rows, 0) = 0
<1>1. {q \in 1 .. 0 : rows[q].note # 0} = {} /\ {q \in 1 .. 0 : rows[q].patch # 0} = {}
  OBVIOUS
<1>2. {0} \cup {} = {0} /\ {0} \in SUBSET (0 .. 0) /\ {0} # {}
  OBVIOUS
<1>3. Max({0}) = 0
  BY <1>2, MaxIs
<1> QED  BY <1>1, <1>2, <1>3 DEF NoteIn, PatchIn

LEMMA NoteNext ==
  ASSUME NEW rows, NEW r \in Nat
  PROVE  /\ NoteIn(rows, r) \in 0 .. r
         /\ NoteIn(rows, r + 1) = IF rows[r + 1].note # 0 THEN r + 1 ELSE NoteIn(rows, r)
         /\ NoteIn(rows, r) # 0 => rows[NoteIn(rows, r)].note # 0
<1> DEFINE S == {0} \cup {q \in 1 .. r : rows[q].note # 0}
           N == {0} \cup {q \in 1 .. r + 1 : rows[q].note # 0}
<1>1. S \in SUBSET (0 .. r) /\ S # {} /\ N \in SUBSET (0 .. r + 1) /\ N # {} /\ r + 1 \in Nat
  OBVIOUS
<1>2. Max(S) \in S /\ \A y \in S : y <= Max(S)
  BY <1>1, MaxIs
<1>3. Max(N) \in N /\ \A y \in N : y <= Max(N)
  BY <1>1, MaxIs
<1>4. NoteIn(rows, r) \in 0 .. r /\ (NoteIn(rows, r) # 0 => rows[NoteIn(rows, r)].note # 0)
  <2>1. PICK x : x = Max(S)
    OBVIOUS
  <2>2. x \in 0 .. r /\ (x # 0 => rows[x].note # 0)
    BY <1>2, <2>1
  <2>3. NoteIn(rows, r) = x
    BY <2>1 DEF NoteIn
  <2> QED  BY <2>2, <2>3
<1>5. CASE rows[r + 1].note # 0
  <2>1. r + 1 \in N
    <3>1. r + 1 \in 1 .. r + 1
      OBVIOUS
    <3> QED  BY <1>5, <3>1
  <2> HIDE DEF N
  <2>2. Max(N) = r + 1
    <3>1. PICK x : x = Max(N)
      OBVIOUS
    <3>2. x \in 0 .. r + 1 /\ r + 1 <= x
      BY <1>1, <1>3, <2>1, <3>1
    <3> QED  BY <3>1, <3>2
  <2>3. NoteIn(rows, r + 1) = r + 1
    BY <2>2 DEF NoteIn, N
  <2> QED  BY <1>4, <1>5, <2>3
<1>6. CASE rows[r + 1].note = 0
  <2>1. N = S
    <3>1. \A q \in 1 .. r + 1 : q \in 1 .. r \/ q = r + 1
      OBVIOUS
    <3> QED  BY <1>6, <3>1
  <2>2. NoteIn(rows, r + 1) = NoteIn(rows, r)
    BY <2>1 DEF NoteIn
  <2> QED  BY <1>4, <1>6, <2>2
<1> QED  BY <1>5, <1>6

LEMMA PatchNext ==
  ASSUME NEW rows, NEW r \in Nat
  PROVE  PatchIn(rows, r + 1) = IF rows[r + 1].patch # 0 THEN rows[r + 1].patch ELSE PatchIn(rows, r)
<1> DEFINE S == {q \in 1 .. r : rows[q].patch # 0}
           N == {q \in 1 .. r + 1 : rows[q].patch # 0}
<1>1. CASE rows[r + 1].patch # 0
  <2>1. r + 1 \in N /\ N \in SUBSET (0 .. r + 1) /\ N # {} /\ r + 1 \in Nat
    BY <1>1
  <2>2. Max(N) \in N /\ \A y \in N : y <= Max(N)
    BY <2>1, MaxIs
  <2> HIDE DEF N
  <2>3. Max(N) = r + 1
    <3>1. PICK x : x = Max(N)
      OBVIOUS
    <3>2. x \in 0 .. r + 1 /\ r + 1 <= x
      BY <2>1, <2>2, <3>1
    <3> QED  BY <3>1, <3>2
  <2> QED  BY <1>1, <2>1, <2>3 DEF PatchIn, N
<1>2. CASE rows[r + 1].patch = 0
  <2>1. \A q \in 1 .. r + 1 : q \in 1 .. r \/ q = r + 1
    OBVIOUS
  <2>2. N = S
    BY <1>2, <2>1
  <2> QED  BY <1>2, <2>2 DEF PatchIn
<1> QED  BY <1>1, <1>2

\* From where on flags are added to those of the note.
LEMMA FromIs ==
  ASSUME NEW n \in Nat
  PROVE  Max({1, n}) = IF n = 0 THEN 1 ELSE n
<1>1. {1, n} \in SUBSET (0 .. n + 1) /\ {1, n} # {} /\ n + 1 \in Nat
  OBVIOUS
<1>2. PICK x : x = Max({1, n})
  OBVIOUS
<1>3. x \in {1, n} /\ 1 <= x /\ n <= x
  <2>1. Max({1, n}) \in {1, n} /\ \A y \in {1, n} : y <= Max({1, n})
    BY <1>1, MaxIs
  <2> QED  BY <1>2, <2>1
<1> QED  BY <1>2, <1>3

-----------------------------------------------------------------------------
(* What a channel knows when the first r rows have been played, the last of *)
(* them up to tick t.                                                      *)

Channel == [channelptr : Nat, restcount : Nat, flags : SUBSET Flags, pitch : Nat,
            patchptr : {0} \cup DOMAIN Patches]

\* The words read so far stand for the rows played and those of a rest that
\* are still to be counted down.
Reads(ch, words, r) ==
  /\ ch.channelptr \in 1 .. Len(words) + 1
  /\ Len(RowsOfFirst(words, ch.channelptr - 1)) = r + ch.restcount
  /\ \A q \in r + 1 .. r + ch.restcount : ScoreOf(words)[q] = Empty

Plays(ch, rows, r, t) ==
  /\ "GATE" \in ch.flags <=> SoundsIn(rows, r, t)
  /\ "ACCENT" \in ch.flags <=> AccentIn(rows, r)
  /\ "NOTEOFF" \in ch.flags <=> r # 0 /\ "NOTEOFF" \in rows[r].flags /\ t < OffTick
  /\ NoteIn(rows, r) # 0 => ch.pitch = rows[NoteIn(rows, r)].note
  /\ ch.patchptr = PatchIn(rows, r)

\* What a row adds to a channel.
Adds(ch, new, word) ==
  /\ new.flags = (IF word.note # 0 THEN {"GATE"} ELSE ch.flags) \cup word.flags
                   \cup (IF word.patch # 0 THEN {"LOAD_PATCH"} ELSE {})
  /\ new.pitch = IF word.note # 0 THEN word.note ELSE ch.pitch
  /\ new.patchptr = IF word.patch # 0 THEN word.patch ELSE ch.patchptr

LEMMA LoadedWord ==
  ASSUME NEW ch \in Channel, NEW word \in Words
  PROVE  /\ LoadWord(ch, word) \in Channel
         /\ LoadWord(ch, word).channelptr = ch.channelptr + 1
         /\ LoadWord(ch, word).restcount = IF word.rest # -1 THEN word.rest ELSE ch.restcount
         /\ Adds(ch, LoadWord(ch, word), IF word.rest # -1 THEN Empty ELSE word)
<1>1. CASE word.rest # -1
  <2>1. word.rest \in Nat /\ ch.channelptr + 1 \in Nat
    BY <1>1 DEF Words, Channel
  <2>2. LoadWord(ch, word) = [ch EXCEPT !.channelptr = ch.channelptr + 1, !.restcount = word.rest]
    BY <1>1 DEF LoadWord
  <2>3. LoadWord(ch, word) \in Channel
    BY <2>1, <2>2 DEF Channel
  <2>4. Adds(ch, LoadWord(ch, word), Empty)
    BY <2>2 DEF Adds, Empty, Channel
  <2> QED  BY <1>1, <2>2, <2>3, <2>4 DEF Channel
<1>2. CASE word.rest = -1
  <2>1. LoadWord(ch, word) =
          [channelptr |-> ch.channelptr + 1,
           restcount  |-> ch.restcount,
           flags      |-> (IF word.note # 0 THEN {"GATE"} ELSE ch.flags) \cup word.flags
                            \cup (IF word.patch # 0 THEN {"LOAD_PATCH"} ELSE {}),
           pitch      |-> IF word.note # 0 THEN word.note ELSE ch.pitch,
           patchptr   |-> IF word.patch # 0 THEN word.patch ELSE ch.patchptr]
    BY <1>2 DEF LoadWord
  <2>2. Adds(ch, LoadWord(ch, word), word)
    BY <2>1 DEF Adds
  <2>3. ch.channelptr + 1 \in Nat /\ ch.restcount \in Nat
    BY DEF Channel
  <2>4. (IF word.note # 0 THEN {"GATE"} ELSE ch.flags) \cup word.flags
          \cup (IF word.patch # 0 THEN {"LOAD_PATCH"} ELSE {}) \in SUBSET Flags
    BY DEF Channel, Words, Flags
  <2>5. (IF word.note # 0 THEN word.note ELSE ch.pitch) \in Nat
        /\ (IF word.patch # 0 THEN word.patch ELSE ch.patchptr) \in {0} \cup DOMAIN Patches
    BY DEF Channel, Words
  <2>6. LoadWord(ch, word) \in Channel
    BY <2>1, <2>3, <2>4, <2>5 DEF Channel
  <2> QED  BY <1>2, <2>1, <2>2, <2>6
<1> QED  BY <1>1, <1>2

LEMMA RowRead ==
  ASSUME NEW words \in Seq(Words), NEW ch \in Channel, NEW r \in Nat, Reads(ch, words, r),
         r + 1 <= Len(ScoreOf(words))
  PROVE  /\ PlayRow(ch, words) \in Channel
         /\ Reads(PlayRow(ch, words), words, r + 1)
         /\ Adds(ch, PlayRow(ch, words), ScoreOf(words)[r + 1])
<1> DEFINE new == PlayRow(ch, words)
<1>1. /\ Len(words) \in Nat /\ ch.channelptr \in 1 .. Len(words) + 1
      /\ ch.restcount \in Nat
  BY WordRowsIs DEF Reads, Channel
<1>2. CASE ch.restcount # 0
  <2>1. new = [ch EXCEPT !.restcount = ch.restcount - 1]
    BY <1>2 DEF PlayRow
  <2>2. ch.restcount - 1 \in Nat
    BY <1>1, <1>2
  <2>3. new \in Channel /\ new.restcount = ch.restcount - 1 /\ new.channelptr = ch.channelptr
    BY <2>1, <2>2 DEF Channel
  <2>4. ScoreOf(words)[r + 1] = Empty
    <3>1. r + 1 \in r + 1 .. r + ch.restcount
      BY <1>1, <1>2
    <3> QED  BY <3>1 DEF Reads
  <2>5. Adds(ch, new, ScoreOf(words)[r + 1])
    BY <2>1, <2>4 DEF Adds, Empty, Channel
  <2>6. Reads(new, words, r + 1)
    <3>1. r + 1 + new.restcount = r + ch.restcount
      BY <1>1, <2>3
    <3>2. \A q \in r + 1 + 1 .. r + ch.restcount : q \in r + 1 .. r + ch.restcount
      BY <1>1
    <3> HIDE DEF new
    <3> QED  BY <2>3, <3>1, <3>2 DEF Reads
  <2> QED  BY <2>3, <2>5, <2>6
<1>3. CASE ch.restcount = 0
  <2>1. PICK n \in Nat : n = ch.channelptr - 1 /\ n + 1 = ch.channelptr
    BY <1>1
  <2>2. Len(RowsOfFirst(words, n)) = r
    BY <1>3, <2>1 DEF Reads
  <2>3. n + 1 <= Len(words)
    <3> SUFFICES ASSUME n = Len(words) PROVE FALSE
      BY <1>1, <2>1
    <3>1. RowsOfFirst(words, n) = ScoreOf(words)
      BY WordRowsIs, SubSeqFull DEF RowsOfFirst, ScoreOf
    <3>2. Len(ScoreOf(words)) \in Nat
      BY WordRowsIs
    <3> QED  BY <2>2, <3>1, <3>2
  <2>4. PICK word \in Words : word = words[n + 1]
    BY <1>1, <2>3
  <2>5. new = LoadWord(ch, word)
    BY <1>3, <2>1, <2>4 DEF PlayRow
  <2>6. /\ new \in Channel /\ new.channelptr = ch.channelptr + 1
        /\ new.restcount = IF word.rest # -1 THEN word.rest ELSE ch.restcount
        /\ Adds(ch, new, IF word.rest # -1 THEN Empty ELSE word)
    BY <2>5, LoadedWord
  <2>7. /\ Len(Rows(word)) = IF word.rest = -1 THEN 1 ELSE word.rest + 1
        /\ \A k \in 1 .. Len(Rows(word)) : Rows(word)[k] = IF word.rest = -1 THEN word ELSE Empty
    BY RowsIs
  <2>8. /\ Len(RowsOfFirst(words, n + 1)) = r + Len(Rows(word))
        /\ \A k \in 1 .. Len(Rows(word)) : ScoreOf(words)[r + k] = Rows(word)[k]
    BY <2>2, <2>3, <2>4, NextRows
  <2>9. Len(Rows(word)) = new.restcount + 1 /\ new.restcount \in Nat
    <3>1. word.rest # -1 => word.rest \in Nat
      BY DEF Words
    <3> QED  BY <1>3, <2>6, <2>7, <3>1
  <2> HIDE DEF new
  <2>10. ScoreOf(words)[r + 1] = IF word.rest # -1 THEN Empty ELSE word
    <3>1. 1 \in 1 .. Len(Rows(word))
      BY <2>9
    <3> QED  BY <2>7, <2>8, <3>1
  <2>11. Reads(new, words, r + 1)
    <3>1. new.channelptr = n + 2 /\ new.channelptr - 1 = n + 1 /\ new.channelptr \in 1 .. Len(words) + 1
      BY <1>1, <2>1, <2>3, <2>6
    <3>2. Len(RowsOfFirst(words, new.channelptr - 1)) = r + 1 + new.restcount
      <4>1. Len(RowsOfFirst(words, new.channelptr - 1)) = r + Len(Rows(word))
        BY <2>8, <3>1, Zenon
      <4> QED  BY <2>9, <4>1
    <3>3. ASSUME NEW q \in r + 1 + 1 .. r + 1 + new.restcount PROVE ScoreOf(words)[q] = Empty
      <4>1. PICK k \in 1 .. Len(Rows(word)) : q = r + k /\ k # 1
        <5>1. q - r \in 1 .. Len(Rows(word)) /\ q = r + (q - r) /\ q - r # 1
          BY <2>9
        <5> QED  BY <5>1
      <4>2. word.rest # -1
        BY <2>7, <4>1
      <4> QED  BY <2>7, <2>8, <4>1, <4>2
    <3> QED  BY <3>1, <3>2, <3>3 DEF Reads
  <2> QED  BY <2>6, <2>10, <2>11 DEF new
<1> QED  BY <1>1, <1>2, <1>3

LEMMA Ticks == OffTick \in Nat /\ OffTick >= 1 /\ TicksPerRow \in Nat /\ OffTick < TicksPerRow
BY PlayerAssumption

\* A note that was to end in a row has ended when the next one begins.
LEMMA EndedNext ==
  ASSUME NEW rows, NEW r \in Nat, NEW t \in Nat, t >= OffTick
  PROVE  /\ EndedIn(rows, r + 1, 0) <=> rows[r + 1].note = 0 /\ EndedIn(rows, r, t)
         /\ AccentIn(rows, r + 1) <=> "ACCENT" \in rows[r + 1].flags
                                    \/ (rows[r + 1].note = 0 /\ AccentIn(rows, r))
<1>1. PICK n \in 0 .. r : n = NoteIn(rows, r)
  BY NoteNext
<1>2. PICK s \in Nat : s = r + 1 /\ s # 0
  OBVIOUS
<1>3. CASE rows[s].note # 0
  <2>1. NoteIn(rows, s) = s
    BY <1>2, <1>3, NoteNext
  <2>2. Max({1, NoteIn(rows, s)}) = s
    BY <1>2, <2>1, FromIs
  <2>3. \A q \in s .. s : q = s
    BY <1>2
  <2>4. ~ EndedIn(rows, s, 0)
    BY <2>2, <2>3, Ticks DEF EndedIn
  <2>5. AccentIn(rows, s) <=> "ACCENT" \in rows[s].flags
    <3>1. s \in s .. s
      BY <1>2
    <3> QED  BY <2>2, <2>3, <3>1 DEF AccentIn
  <2> QED  BY <1>2, <1>3, <2>4, <2>5
<1>4. CASE rows[s].note = 0
  <2>1. NoteIn(rows, s) = n
    BY <1>1, <1>2, <1>4, NoteNext
  <2>2. PICK f \in 1 .. s : f = Max({1, n})
    <3>1. Max({1, n}) = IF n = 0 THEN 1 ELSE n
      BY <1>1, FromIs
    <3>2. (IF n = 0 THEN 1 ELSE n) \in 1 .. s
      BY <1>1, <1>2
    <3> QED  BY <3>1, <3>2
  <2>3. \A q \in Int : q \in f .. r <=> q \in f .. s /\ q < s
    BY <1>2, <2>2
  <2>4. s \in f .. s /\ \A q \in f .. s : q \in Int /\ (q < s \/ q = s)
    BY <1>2, <2>2
  <2>5. EndedIn(rows, s, 0) <=> \E q \in f .. r : "NOTEOFF" \in rows[q].flags
    <3>1. EndedIn(rows, s, 0) <=> \E q \in f .. s : "NOTEOFF" \in rows[q].flags /\ q < s
      BY <2>1, <2>2, Ticks DEF EndedIn
    <3>2. \A q \in f .. r : q \in Int
      OBVIOUS
    <3> QED  BY <2>3, <2>4, <3>1, <3>2
  <2>6. EndedIn(rows, r, t) <=> \E q \in f .. r : "NOTEOFF" \in rows[q].flags
    BY <1>1, <2>2 DEF EndedIn
  <2>7. AccentIn(rows, s) <=> "ACCENT" \in rows[s].flags \/ \E q \in f .. r : "ACCENT" \in rows[q].flags
    <3>1. AccentIn(rows, s) <=> \E q \in f .. s : "ACCENT" \in rows[q].flags
      BY <2>1, <2>2 DEF AccentIn
    <3>2. \A q \in f .. r : q \in Int
      OBVIOUS
    <3> QED  BY <2>3, <2>4, <3>1, <3>2
  <2>8. AccentIn(rows, r) <=> \E q \in f .. r : "ACCENT" \in rows[q].flags
    BY <1>1, <2>2 DEF AccentIn
  <2> QED  BY <1>2, <1>4, <2>5, <2>6, <2>7, <2>8
<1> QED  BY <1>2, <1>3, <1>4

LEMMA RowPlayed ==
  ASSUME NEW rows, NEW ch \in Channel, NEW new, NEW r \in Nat, NEW t \in Nat, t >= OffTick,
         Plays(ch, rows, r, t), rows[r + 1] \in Words, Adds(ch, new, rows[r + 1])
  PROVE  Plays(new, rows, r + 1, 0)
<1>1. PICK word \in Words : word = rows[r + 1]
  OBVIOUS
<1>2. PICK s \in Nat : s = r + 1 /\ s # 0
  OBVIOUS
<1>3. /\ "GATE" \notin word.flags /\ "LOAD_PATCH" \notin word.flags
  BY DEF Words
<1>4. /\ EndedIn(rows, s, 0) <=> word.note = 0 /\ EndedIn(rows, r, t)
      /\ AccentIn(rows, s) <=> "ACCENT" \in word.flags \/ (word.note = 0 /\ AccentIn(rows, r))
  BY <1>1, <1>2, EndedNext
<1>5. NoteIn(rows, s) = (IF word.note # 0 THEN s ELSE NoteIn(rows, r))
      /\ PatchIn(rows, s) = (IF word.patch # 0 THEN word.patch ELSE PatchIn(rows, r))
  BY <1>1, <1>2, NoteNext, PatchNext
<1>6. /\ new.flags = (IF word.note # 0 THEN {"GATE"} ELSE ch.flags) \cup word.flags
                       \cup (IF word.patch # 0 THEN {"LOAD_PATCH"} ELSE {})
      /\ new.pitch = IF word.note # 0 THEN word.note ELSE ch.pitch
      /\ new.patchptr = IF word.patch # 0 THEN word.patch ELSE ch.patchptr
  BY <1>1 DEF Adds
<1>7. "NOTEOFF" \notin ch.flags
  BY Ticks DEF Plays
<1>8. "GATE" \in new.flags <=> SoundsIn(rows, s, 0)
  <2>1. "GATE" \in new.flags <=> word.note # 0 \/ "GATE" \in ch.flags
    BY <1>3, <1>6
  <2>2. SoundsIn(rows, s, 0) <=> word.note # 0 \/ SoundsIn(rows, r, t)
    BY <1>2, <1>4, <1>5 DEF SoundsIn
  <2> QED  BY <2>1, <2>2 DEF Plays
<1>9. "ACCENT" \in new.flags <=> AccentIn(rows, s)
  <2>1. "ACCENT" \in new.flags <=> "ACCENT" \in word.flags \/ (word.note = 0 /\ "ACCENT" \in ch.flags)
    BY <1>6
  <2> QED  BY <1>4, <2>1 DEF Plays
<1>10. "NOTEOFF" \in new.flags <=> s # 0 /\ "NOTEOFF" \in rows[s].flags /\ 0 < OffTick
  <2>1. "NOTEOFF" \in new.flags <=> "NOTEOFF" \in word.flags
    BY <1>6, <1>7
  <2> QED  BY <1>1, <1>2, <2>1, Ticks
<1>11. NoteIn(rows, s) # 0 => new.pitch = rows[NoteIn(rows, s)].note
  BY <1>1, <1>2, <1>5, <1>6 DEF Plays
<1>12. new.patchptr = PatchIn(rows, s)
  BY <1>5, <1>6 DEF Plays
<1>13. Plays(new, rows, s, 0)
  BY <1>8, <1>9, <1>10, <1>11, <1>12 DEF Plays
<1> QED  BY <1>2, <1>13

LEMMA TickPlayed ==
  ASSUME NEW rows, NEW ch \in Channel, NEW r \in Nat, NEW t \in Nat, Plays(ch, rows, r, t)
  PROVE  Plays(IF t + 1 = OffTick THEN NoteOff(ch) ELSE ch, rows, r, t + 1)
<1>1. CASE t + 1 # OffTick
  <2>1. t + 1 >= OffTick <=> t >= OffTick
    BY <1>1, Ticks
  <2>2. t + 1 < OffTick <=> t < OffTick
    BY <1>1, Ticks
  <2>3. EndedIn(rows, r, t + 1) <=> EndedIn(rows, r, t)
    BY <2>1 DEF EndedIn
  <2> QED  BY <1>1, <2>2, <2>3 DEF Plays, SoundsIn
<1>2. CASE t + 1 = OffTick
  <2>1. PICK n \in 0 .. r : n = NoteIn(rows, r)
    BY NoteNext
  <2>2. PICK f \in Nat : f = Max({1, n}) /\ f >= 1 /\ (r # 0 => f <= r)
    <3>1. Max({1, n}) = IF n = 0 THEN 1 ELSE n
      BY <2>1, FromIs
    <3>2. (IF n = 0 THEN 1 ELSE n) \in Nat /\ (IF n = 0 THEN 1 ELSE n) >= 1
          /\ (r # 0 => (IF n = 0 THEN 1 ELSE n) <= r)
      BY <2>1
    <3> QED  BY <3>1, <3>2
  <2>3. t < OffTick /\ ~ (t + 1 < OffTick) /\ t + 1 >= OffTick /\ ~ (t >= OffTick)
    BY <1>2, Ticks
  <2>4. EndedIn(rows, r, t + 1) <=> \E q \in f .. r : "NOTEOFF" \in rows[q].flags
    BY <2>1, <2>2, <2>3, Zenon DEF EndedIn
  <2>5. EndedIn(rows, r, t) <=> \E q \in f .. r : "NOTEOFF" \in rows[q].flags /\ q < r
    BY <2>1, <2>2, <2>3, Zenon DEF EndedIn
  <2>6. CASE "NOTEOFF" \in ch.flags
    <3>1. r # 0 /\ "NOTEOFF" \in rows[r].flags
      BY <2>6 DEF Plays
    <3>2. EndedIn(rows, r, t + 1)
      <4>1. r \in f .. r
        BY <2>2, <3>1
      <4> QED  BY <2>4, <3>1, <4>1
    <3>3. NoteOff(ch) = [ch EXCEPT !.flags = ch.flags \cap {"TRIG", "ACCENT"}]
      BY <2>6 DEF NoteOff
    <3>4. /\ NoteOff(ch).flags = ch.flags \cap {"TRIG", "ACCENT"}
          /\ NoteOff(ch).pitch = ch.pitch /\ NoteOff(ch).patchptr = ch.patchptr
      BY <3>3 DEF Channel
    <3>5. /\ "GATE" \notin NoteOff(ch).flags /\ "NOTEOFF" \notin NoteOff(ch).flags
          /\ "ACCENT" \in NoteOff(ch).flags <=> "ACCENT" \in ch.flags
      BY <3>4
    <3>6. ~ SoundsIn(rows, r, t + 1)
      BY <3>2 DEF SoundsIn
    <3>7. Plays(NoteOff(ch), rows, r, t + 1)
      BY <2>3, <3>4, <3>5, <3>6 DEF Plays
    <3> QED  BY <1>2, <3>7
  <2>7. CASE "NOTEOFF" \notin ch.flags
    <3>1. r # 0 => "NOTEOFF" \notin rows[r].flags
      BY <2>3, <2>7 DEF Plays
    <3>2. \A q \in f .. r : q < r \/ (q = r /\ r # 0)
      BY <2>2
    <3>3. EndedIn(rows, r, t + 1) <=> EndedIn(rows, r, t)
      BY <2>4, <2>5, <3>1, <3>2
    <3>4. NoteOff(ch) = ch
      BY <2>7 DEF NoteOff
    <3>5. Plays(ch, rows, r, t + 1)
      BY <2>3, <2>7, <3>3 DEF Plays, SoundsIn
    <3> QED  BY <1>2, <3>4, <3>5
  <2> QED  BY <2>6, <2>7
<1> QED  BY <1>1, <1>2

LEMMA OffIsChannel ==
  ASSUME NEW words, NEW ch \in Channel, NEW r
  PROVE  NoteOff(ch) \in Channel /\ (Reads(ch, words, r) => Reads(NoteOff(ch), words, r))
<1>1. CASE "NOTEOFF" \in ch.flags
  <2>1. NoteOff(ch) = [ch EXCEPT !.flags = ch.flags \cap {"TRIG", "ACCENT"}]
    BY <1>1 DEF NoteOff
  <2>2. ch.flags \cap {"TRIG", "ACCENT"} \in SUBSET Flags
    BY DEF Channel
  <2>3. /\ NoteOff(ch) \in Channel /\ NoteOff(ch).channelptr = ch.channelptr
        /\ NoteOff(ch).restcount = ch.restcount
    BY <2>1, <2>2 DEF Channel
  <2> QED  BY <2>3 DEF Reads
<1>2. CASE "NOTEOFF" \notin ch.flags
  BY <1>2 DEF NoteOff
<1> QED  BY <1>1, <1>2

-----------------------------------------------------------------------------
(* The clock: samples make ticks and ticks make rows.                      *)

Tick(p) == (p \div TickDivider) % TicksPerRow

LEMMA DivIs ==
  ASSUME NEW d \in Nat \ {0}, NEW p \in Int, NEW q \in Int, NEW r \in 0 .. d - 1, p = d * q + r
  PROVE  p \div d = q /\ p % d = r
OBVIOUS

LEMMA Parts ==
  ASSUME NEW d \in Nat \ {0}, NEW p \in Int
  PROVE  \E q \in Int, r \in 0 .. d - 1 : p = d * q + r
<1>1. p \div d \in Int /\ p % d \in 0 .. d - 1
  OBVIOUS
<1>2. p = d * (p \div d) + (p % d)
  OBVIOUS
<1> QED  BY <1>1, <1>2

LEMMA Cycles == /\ TickDivider \in Nat \ {0} /\ TicksPerRow \in Nat \ {0}
                /\ RowSamples \in Nat \ {0} /\ RowSamples = TickDivider * TicksPerRow
BY PlayerAssumption, Ticks DEF RowSamples

\* Sample s of tick t of the row behind the first a rows.
Stands(p, a, t, s) == p = TickDivider * (TicksPerRow * a + t) + s

LEMMA ClockIs ==
  ASSUME NEW p \in Int, NEW a \in Int, NEW t \in 0 .. TicksPerRow - 1, NEW s \in 0 .. TickDivider - 1,
         Stands(p, a, t, s)
  PROVE  Row(p) = a + 1 /\ Tick(p) = t /\ p % TickDivider = s
<1> DEFINE T == TickDivider
           K == TicksPerRow
<1>1. T \in Nat \ {0} /\ K \in Nat \ {0} /\ RowSamples \in Nat \ {0} /\ RowSamples = T * K
  BY Cycles
<1>2. t \in 0 .. K - 1 /\ s \in 0 .. T - 1
  OBVIOUS
<1> HIDE DEF T, K
<1>3. PICK b \in Int : b = K * a + t
  BY <1>1
<1>4. p = T * b + s
  BY <1>3 DEF Stands, T, K
<1>5. p \div T = b /\ p % T = s
  BY <1>1, <1>2, <1>4, DivIs
<1>6. b % K = t
  BY <1>1, <1>2, <1>3, DivIs
<1>7. PICK e \in Int : e = T * t + s
  BY <1>1, <1>2
<1>8. e \in 0 .. RowSamples - 1
  <2>1. T * (t + 1) <= T * K
    BY <1>1, <1>2
  <2>2. T * (t + 1) = T * t + T /\ T * t >= 0
    BY <1>1, <1>2
  <2> QED  BY <1>1, <1>2, <1>7, <2>1, <2>2
<1>9. p = RowSamples * a + e
  <2>1. T * b = T * (K * a) + T * t
    BY <1>1, <1>2, <1>3
  <2>2. T * (K * a) = RowSamples * a
    BY <1>1
  <2>3. T * (K * a) \in Int /\ T * t \in Int
    BY <1>1, <1>2
  <2> QED  BY <1>2, <1>4, <1>7, <2>1, <2>2, <2>3
<1>10. p \div RowSamples = a
  BY <1>1, <1>8, <1>9, DivIs
<1> QED  BY <1>5, <1>6, <1>10 DEF Row, Tick, T, K

\* The clock from one sample to the next.
LEMMA Clock ==
  ASSUME NEW p \in Int, NEW x \in Int, x = p + 1
  PROVE  /\ Tick(p) \in 0 .. TicksPerRow - 1 /\ Row(p) \in Int
         /\ x % TickDivider # 0 => Row(x) = Row(p) /\ Tick(x) = Tick(p)
         /\ x % TickDivider = 0 /\ Tick(x) # 0 => Row(x) = Row(p) /\ Tick(x) = Tick(p) + 1
         /\ x % TickDivider = 0 /\ Tick(x) = 0 => Row(x) = Row(p) + 1 /\ Tick(p) = TicksPerRow - 1
<1> DEFINE T == TickDivider
           K == TicksPerRow
<1>1. T \in Nat \ {0} /\ K \in Nat \ {0} /\ K > 1
  BY Cycles, Ticks
<1> HIDE DEF T, K
<1>2. PICK b \in Int, s \in 0 .. T - 1 : p = T * b + s
  BY <1>1, Parts
<1>3. PICK a \in Int, t \in 0 .. K - 1 : b = K * a + t
  BY <1>1, Parts
<1>4. p = T * (K * a + t) + s
  BY <1>2, <1>3
<1>5. Row(p) = a + 1 /\ Tick(p) = t
  BY <1>1, <1>4, ClockIs DEF T, K, Stands
<1>6. CASE s + 1 < T
  <2>1. PICK z \in 0 .. T - 1 : z = s + 1 /\ z # 0
    BY <1>1, <1>6
  <2>2. x = T * (K * a + t) + z
    <3>1. PICK y \in Int : y = T * (K * a + t)
      BY <1>1
    <3> QED  BY <1>4, <2>1, <3>1
  <2>3. Row(x) = a + 1 /\ Tick(x) = t /\ x % T = z
    BY <2>2, ClockIs DEF T, K, Stands
  <2> QED  BY <1>5, <2>1, <2>3 DEF T, K
<1>7. CASE s + 1 = T /\ t + 1 < K
  <2>1. PICK z \in 0 .. K - 1 : z = t + 1 /\ z # 0
    BY <1>1, <1>7
  <2>2. x = T * (K * a + z) + 0
    <3>1. PICK y \in Int : y = K * a
      BY <1>1
    <3>2. x = T * (y + t) + T
      <4>1. T * (y + t) \in Int
        BY <1>1
      <4> QED  BY <1>1, <1>4, <1>7, <3>1, <4>1
    <3>3. T * (y + z) = T * (y + t) + T
      BY <1>1, <2>1
    <3> QED  BY <3>1, <3>2, <3>3
  <2>3. Row(x) = a + 1 /\ Tick(x) = z /\ x % T = 0
    <3>1. 0 \in 0 .. T - 1
      BY <1>1
    <3> QED  BY <2>2, <3>1, ClockIs DEF T, K, Stands
  <2> QED  BY <1>5, <2>1, <2>3 DEF T, K
<1>8. CASE s + 1 = T /\ t + 1 = K
  <2>1. PICK z \in Int : z = a + 1
    OBVIOUS
  <2>2. x = T * (K * z + 0) + 0
    <3>1. K * z = K * a + K
      BY <1>1, <2>1
    <3>2. PICK y \in Int : y = K * a + t
      BY <1>1
    <3>3. K * z + 0 = y + 1
      <4>1. K * a \in Int /\ K * z \in Int
        BY <1>1
      <4> QED  BY <1>1, <1>8, <3>1, <3>2, <4>1
    <3>4. T * (y + 1) = T * y + T /\ T * y \in Int
      BY <1>1
    <3> QED  BY <1>1, <1>4, <1>8, <3>2, <3>3, <3>4
  <2>3. Row(x) = z + 1 /\ Tick(x) = 0 /\ x % T = 0
    <3>1. 0 \in 0 .. T - 1 /\ 0 \in 0 .. K - 1
      BY <1>1
    <3> QED  BY <2>2, <3>1, ClockIs DEF T, K, Stands
  <2> QED  BY <1>1, <1>5, <1>8, <2>1, <2>3 DEF T, K
<1>9. s + 1 < T \/ s + 1 = T
  BY <1>1
<1>10. t + 1 < K \/ t + 1 = K
  BY <1>1
<1> QED  BY <1>6, <1>7, <1>8, <1>9, <1>10

LEMMA ClockStarts == Row(-1) = 0 /\ Tick(-1) = TicksPerRow - 1
<1>1. TickDivider \in Nat \ {0} /\ TicksPerRow \in Nat \ {0}
  BY Cycles
<1>2. -1 = TickDivider * (TicksPerRow * (-1) + (TicksPerRow - 1)) + (TickDivider - 1)
  <2>1. TicksPerRow * (-1) + (TicksPerRow - 1) = -1
    BY <1>1
  <2> QED  BY <1>1, <2>1
<1>3. TicksPerRow - 1 \in 0 .. TicksPerRow - 1 /\ TickDivider - 1 \in 0 .. TickDivider - 1
  BY <1>1
<1>4. -1 \in Int /\ -1 + 1 = 0
  OBVIOUS
<1> QED  BY <1>2, <1>3, <1>4, ClockIs DEF Stands

\* A sample before the end of the rows is in one of them.
LEMMA RowInside ==
  ASSUME NEW p \in Nat, NEW n \in Int, p < RowSamples * n
  PROVE  Row(p) \in 1 .. n
<1>1. RowSamples \in Nat \ {0}
  BY Cycles
<1>2. PICK q \in Int, e \in 0 .. RowSamples - 1 : p = RowSamples * q + e
  <2>1. p \in Int
    OBVIOUS
  <2> QED  BY <1>1, <2>1, Parts
<1>3. p \div RowSamples = q
  BY <1>1, <1>2, DivIs
<1>4. q >= 0
  <2> SUFFICES ASSUME q <= -1 PROVE FALSE
    BY <1>2
  <2>1. RowSamples * q <= RowSamples * (-1)
    BY <1>1
  <2> QED  BY <1>1, <1>2, <2>1
<1>5. q < n
  <2> SUFFICES ASSUME n <= q PROVE FALSE
    BY <1>2
  <2>1. RowSamples * n <= RowSamples * q /\ RowSamples * q \in Int /\ RowSamples * n \in Int
    BY <1>1
  <2> QED  BY <1>1, <1>2, <2>1
<1> QED  BY <1>3, <1>4, <1>5 DEF Row

-----------------------------------------------------------------------------
(* The envelope.                                                           *)

Sounds(rows, p) == SoundsIn(rows, Row(p), Tick(p))
StruckIn(rows, p) == Max({q \in 0 .. p : Sounds(rows, q) /\ (q = 0 \/ ~ Sounds(rows, q - 1))})

\* The envelope's flags and peak after sample p.
Shaped(old, top, rows, p) ==
  /\ "GATE" \in old <=> Sounds(rows, p)
  /\ Sounds(rows, p) =>
       /\ StruckIn(rows, p) \in 0 .. p
       /\ "TRIG" \notin old => top >= StruckIn(rows, p)

LEMMA SilentBefore == ASSUME NEW rows PROVE ~ Sounds(rows, -1)
BY ClockStarts, NoteFirst DEF Sounds, SoundsIn

\* A note is struck when nothing sounded before, and stays the same note.
LEMMA StruckNext ==
  ASSUME NEW rows, NEW p \in Nat, Sounds(rows, p)
  PROVE  StruckIn(rows, p) = IF Sounds(rows, p - 1) THEN StruckIn(rows, p - 1) ELSE p
<1> DEFINE S == {q \in 0 .. p : Sounds(rows, q) /\ (q = 0 \/ ~ Sounds(rows, q - 1))}
           B == {q \in 0 .. p - 1 : Sounds(rows, q) /\ (q = 0 \/ ~ Sounds(rows, q - 1))}
<1>1. CASE Sounds(rows, p - 1)
  <2>1. p # 0
    <3>1. p = 0 => p - 1 = -1
      OBVIOUS
    <3> QED  BY <1>1, <3>1, SilentBefore
  <2>2. \A q \in 0 .. p : q \in 0 .. p - 1 \/ q = p
    OBVIOUS
  <2>3. \A q \in 0 .. p - 1 : q \in 0 .. p
    OBVIOUS
  <2>4. S = B
    BY <1>1, <2>1, <2>2, <2>3
  <2> QED  BY <1>1, <2>4 DEF StruckIn
<1>2. CASE ~ Sounds(rows, p - 1)
  <2>1. p \in S /\ S \in SUBSET (0 .. p) /\ S # {}
    <3>1. p \in S
      <4>1. p \in 0 .. p
        OBVIOUS
      <4> QED  BY <1>2, <4>1
    <3>2. S \in SUBSET (0 .. p)
      OBVIOUS
    <3> HIDE DEF S
    <3> QED  BY <3>1, <3>2
  <2>2. Max(S) \in S /\ \A y \in S : y <= Max(S)
    BY <2>1, MaxIs
  <2>3. PICK x : x = Max(S)
    OBVIOUS
  <2> HIDE DEF S
  <2>4. x \in 0 .. p /\ p <= x
    BY <2>1, <2>2, <2>3
  <2>5. x = p
    BY <2>4
  <2> QED  BY <1>2, <2>3, <2>5 DEF StruckIn, S
<1> QED  BY <1>1, <1>2

LEMMA ShapedNext ==
  ASSUME NEW rows, NEW p \in Nat, NEW e, NEW flags \in SUBSET Flags, NEW k, NEW top \in Int,
         Shaped(e.old, top, rows, p - 1), "GATE" \in flags <=> Sounds(rows, p),
         NEW level, level = Envelope(e, flags, k), NEW new \in Int,
         new = IF level.acc = One THEN p ELSE top
  PROVE  Shaped(level.old, new, rows, p)
<1>1. CASE "GATE" \notin flags
  <2>1. level.old = flags
    BY <1>1 DEF Envelope
  <2> QED  BY <1>1, <2>1 DEF Shaped
<1>2. CASE "GATE" \in flags
  <2>1. PICK s : s = StruckIn(rows, p)
    OBVIOUS
  <2>2. Sounds(rows, p) /\ s = IF Sounds(rows, p - 1) THEN StruckIn(rows, p - 1) ELSE p
    BY <1>2, <2>1, StruckNext
  <2>3. s \in 0 .. p
    <3>1. CASE Sounds(rows, p - 1)
      <4>1. s \in 0 .. p - 1
        BY <2>2, <3>1 DEF Shaped
      <4> QED  BY <4>1
    <3>2. CASE ~ Sounds(rows, p - 1)
      <4>1. s = p
        BY <2>2, <3>2
      <4> QED  BY <4>1
    <3> QED  BY <3>1, <3>2
  <2>4. CASE Attacking(e, flags)
    <3>1. level = IF e.acc + k.attack <= One
                  THEN [acc |-> e.acc + k.attack, old |-> flags \cup {"TRIG"}]
                  ELSE [acc |-> One, old |-> flags \ {"TRIG"}]
      BY <1>2, <2>4 DEF Envelope
    <3>2. CASE e.acc + k.attack <= One
      <4>1. level.old = flags \cup {"TRIG"}
        BY <3>1, <3>2
      <4>2. "GATE" \in level.old /\ "TRIG" \in level.old
        BY <1>2, <4>1
      <4> QED  BY <2>1, <2>2, <2>3, <4>2 DEF Shaped
    <3>3. CASE ~ (e.acc + k.attack <= One)
      <4>1. level.acc = One /\ level.old = flags \ {"TRIG"}
        BY <3>1, <3>3
      <4>2. "GATE" \in level.old /\ new = p /\ new >= s
        BY <1>2, <2>3, <4>1
      <4> QED  BY <2>1, <2>2, <2>3, <4>2 DEF Shaped
    <3> QED  BY <3>2, <3>3
  <2>5. CASE ~ Attacking(e, flags)
    <3>1. "GATE" \in e.old /\ "TRIG" \notin e.old
      BY <2>5 DEF Attacking
    <3>2. Sounds(rows, p - 1) /\ top >= s
      BY <2>2, <3>1 DEF Shaped
    <3>3. level.old = flags
      BY <1>2, <2>5 DEF Envelope
    <3>4. new >= s
      BY <2>3, <3>2
    <3> QED  BY <1>2, <2>1, <2>2, <2>3, <3>3, <3>4 DEF Shaped
  <2> QED  BY <2>4, <2>5
<1> QED  BY <1>1, <1>2

-----------------------------------------------------------------------------
(* What the channels and the voices know at every step.                    *)

\* The last sample that the notes were played for, and the last one that voice c
\* was computed for.
Played == IF voice = 0 THEN pos - 1 ELSE pos
Done(c) == IF c < voice THEN pos ELSE pos - 1

InSong ==
  /\ channels \in [Voices -> Channel]
  /\ patch = [c \in Voices |-> patch[c]]
  /\ env = [c \in Voices |-> env[c]]
  /\ peak \in [Voices -> Int]
  /\ size # 0 => /\ ebx < size
                 /\ \A c \in Voices : sample_position + size <= RowSamples * Len(ScoreOf(song[c]))

OnTime ==
  \A c \in Voices : /\ Reads(channels[c], song[c], Row(Played))
                    /\ Plays(channels[c], ScoreOf(song[c]), Row(Played), Tick(Played))

\* A patch stays to be loaded until its voice is computed.
Patched ==
  \A c \in Voices :
    /\ patch[c] = PatchIn(ScoreOf(song[c]), Row(Done(c)))
    /\ voice # 0 => \/ "LOAD_PATCH" \in channels[c].flags
                    \/ PatchIn(ScoreOf(song[c]), Row(pos)) = PatchIn(ScoreOf(song[c]), Row(pos - 1))

Enveloped == \A c \in Voices : Shaped(env[c].old, peak[c], ScoreOf(song[c]), Done(c))

SoundInv == InSong /\ OnTime /\ Patched /\ Enveloped

LEMMA SongWords ==
  ASSUME song \in Songs, NEW c \in Voices
  PROVE  /\ song[c] \in Seq(Words) /\ Score(c) = ScoreOf(song[c]) /\ Len(ScoreOf(song[c])) \in Nat
         /\ ScoreOf(song[c]) \in Seq(Words)
<1>1. song[c] \in Seq(Words)
  <2>1. song \in Seq(Seq(Words))
    BY PlayerAssumption DEF Words
  <2> QED  BY <2>1 DEF Voices
<1>2. Score(c) = ScoreOf(song[c])
  BY DEF Score, ScoreOf, WordRows
<1>3. ScoreOf(song[c]) \in Seq(Words)
  BY <1>1, WordRowsIs
<1> QED  BY <1>1, <1>2, <1>3

LEMMA SoundInitially == Init => SoundInv
<1> SUFFICES ASSUME Init PROVE SoundInv
  OBVIOUS
<1>1. song \in Songs /\ Played = -1 /\ pos = 0 /\ voice = 0 /\ size = 0 /\ 0 - 1 = -1
  BY DEF Init, Played, pos
<1>2. InSong
  <2>1. [channelptr |-> 1, restcount |-> 0, flags |-> {}, pitch |-> 0, patchptr |-> 0] \in Channel
    BY DEF Channel
  <2> QED  BY <2>1 DEF Init, InSong
<1>3. ASSUME NEW c \in Voices
      PROVE  /\ Reads(channels[c], song[c], 0)
             /\ Plays(channels[c], ScoreOf(song[c]), 0, TicksPerRow - 1)
  <2>1. channels[c] = [channelptr |-> 1, restcount |-> 0, flags |-> {}, pitch |-> 0, patchptr |-> 0]
    BY DEF Init
  <2>2. Len(song[c]) \in Nat
    BY <1>1, SongWords
  <2>3. RowsOfFirst(song[c], 0) = <<>>
    <3>1. SubSeq(WordRows(song[c]), 1, 0) = <<>>
      BY <1>1, SongWords, WordRowsIs
    <3> QED  BY <3>1, FlattenEmpty DEF RowsOfFirst
  <2>4. Reads(channels[c], song[c], 0)
    <3>1. 1 - 1 = 0 /\ Len(<<>>) = 0 + 0 /\ 1 \in 1 .. Len(song[c]) + 1
      BY <2>2
    <3>2. \A q \in 0 + 1 .. 0 + 0 : FALSE
      OBVIOUS
    <3> QED  BY <2>1, <2>3, <3>1, <3>2 DEF Reads
  <2>5. PICK n : n = NoteIn(ScoreOf(song[c]), 0) /\ n = 0 /\ PatchIn(ScoreOf(song[c]), 0) = 0
    BY NoteFirst
  <2>6. ~ AccentIn(ScoreOf(song[c]), 0)
    <3>1. Max({1, n}) = 1
      <4>1. n \in Nat
        BY <2>5
      <4> QED  BY <2>5, <4>1, FromIs
    <3>2. \A q \in 1 .. 0 : FALSE
      OBVIOUS
    <3> QED  BY <2>5, <3>1, <3>2 DEF AccentIn
  <2>7. Plays(channels[c], ScoreOf(song[c]), 0, TicksPerRow - 1)
    BY <2>1, <2>5, <2>6 DEF Plays, SoundsIn
  <2> QED  BY <2>4, <2>7
<1>4. OnTime
  BY <1>1, <1>3, ClockStarts DEF OnTime
<1>5. \A c \in Voices : Done(c) = -1
  <2>1. \A c \in Voices : ~ (c < 0)
    BY <1>1, SongIs
  <2> QED  BY <1>1, <2>1 DEF Done
<1>6. Patched
  BY <1>1, <1>5, ClockStarts, NoteFirst DEF Init, Patched
<1>7. Enveloped
  <2> SUFFICES ASSUME NEW c \in Voices PROVE Shaped(env[c].old, peak[c], ScoreOf(song[c]), -1)
    BY <1>5 DEF Enveloped
  <2>1. env[c].old = {}
    BY DEF Init
  <2> QED  BY <2>1, SilentBefore DEF Shaped
<1> QED  BY <1>2, <1>4, <1>6, <1>7 DEF SoundInv

\* A buffer is only asked for while there are rows.
LEMMA Asked ==
  ASSUME song \in Songs, NEW n \in Nat, n <= SongSamples, NEW c \in Voices
  PROVE  n <= RowSamples * Len(ScoreOf(song[c]))
<1> DEFINE S == {Len(Score(d)) : d \in Voices}
<1>1. S \in SUBSET Nat /\ S # {} /\ Len(Score(c)) \in S
  BY SongWords
<1>2. Min(S) \in Nat /\ Min(S) <= Len(Score(c))
  BY <1>1, MinIs
<1>3. PICK x, y \in Nat : x = Min(S) /\ y = Len(Score(c)) /\ x <= y
  BY <1>1, <1>2
<1>4. SongSamples = RowSamples * x
  BY <1>3 DEF SongSamples
<1>5. RowSamples * x <= RowSamples * y /\ RowSamples * x \in Int /\ RowSamples * y \in Int
  BY <1>3, Cycles
<1>6. y = Len(ScoreOf(song[c]))
  BY <1>3, SongWords
<1>7. n <= RowSamples * y
  BY <1>4, <1>5
<1> QED  BY <1>6, <1>7

\* The notes of one sample, for one channel.
LEMMA NotesPlayed ==
  ASSUME NEW words \in Seq(Words), NEW p \in Nat, NEW ch \in Channel,
         Reads(ch, words, Row(p - 1)), Plays(ch, ScoreOf(words), Row(p - 1), Tick(p - 1)),
         Row(p) <= Len(ScoreOf(words)), Row(p - 1) \in Nat,
         NEW new, new = IF p % TickDivider # 0 THEN ch ELSE PlayTick(ch, words, Tick(p))
  PROVE  /\ new \in Channel /\ Reads(new, words, Row(p)) /\ Plays(new, ScoreOf(words), Row(p), Tick(p))
         /\ \/ "LOAD_PATCH" \in new.flags
            \/ PatchIn(ScoreOf(words), Row(p)) = PatchIn(ScoreOf(words), Row(p - 1))
<1>1. PICK r \in Nat : r = Row(p - 1)
  OBVIOUS
<1>2. PICK rows \in Seq(Words) : rows = ScoreOf(words)
  BY WordRowsIs
<1>3. PICK t \in Nat : t = Tick(p - 1) /\ t < TicksPerRow
  <2>1. p - 1 \in Int /\ p \in Int /\ p = (p - 1) + 1
    OBVIOUS
  <2>2. Tick(p - 1) \in 0 .. TicksPerRow - 1
    BY <2>1, Clock
  <2> QED  BY <2>2, Ticks
<1>4. /\ p % TickDivider # 0 => Row(p) = r /\ Tick(p) = t
      /\ p % TickDivider = 0 /\ Tick(p) # 0 => Row(p) = r /\ Tick(p) = t + 1
      /\ p % TickDivider = 0 /\ Tick(p) = 0 => Row(p) = r + 1 /\ t = TicksPerRow - 1
  <2>1. p - 1 \in Int /\ p \in Int /\ p = (p - 1) + 1
    OBVIOUS
  <2> QED  BY <1>1, <1>3, <2>1, Clock
<1>5. Reads(ch, words, r) /\ Plays(ch, rows, r, t)
  BY <1>1, <1>2, <1>3
<1>6. CASE p % TickDivider # 0
  BY <1>1, <1>2, <1>4, <1>5, <1>6
<1>7. CASE p % TickDivider = 0 /\ Tick(p) # 0
  <2>1. PICK q \in Nat : q = t + 1
    OBVIOUS
  <2>2. Row(p) = r /\ Tick(p) = q /\ q # 0
    BY <1>4, <1>7, <2>1
  <2>3. new = IF t + 1 = OffTick THEN NoteOff(ch) ELSE ch
    BY <1>7, <2>1, <2>2 DEF PlayTick
  <2>4. Plays(new, rows, r, t + 1)
    BY <1>5, <2>3, TickPlayed
  <2>5. new \in Channel /\ Reads(new, words, r)
    BY <1>5, <2>3, OffIsChannel
  <2> QED  BY <1>1, <1>2, <2>1, <2>2, <2>4, <2>5
<1>8. CASE p % TickDivider = 0 /\ Tick(p) = 0
  <2>1. Row(p) = r + 1 /\ t >= OffTick
    BY <1>4, <1>8, Ticks
  <2>2. new = PlayRow(ch, words)
    <3>1. 0 # OffTick
      BY Ticks
    <3> QED  BY <1>8, <3>1 DEF PlayTick
  <2>3. new \in Channel /\ Reads(new, words, r + 1) /\ Adds(ch, new, rows[r + 1])
    <3>1. r + 1 <= Len(ScoreOf(words))
      BY <2>1
    <3> QED  BY <1>2, <1>5, <2>2, <3>1, RowRead
  <2>4. rows[r + 1] \in Words
    BY <1>2, <2>1
  <2>5. Plays(new, rows, r + 1, 0)
    BY <1>5, <2>1, <2>3, <2>4, RowPlayed
  <2>6. "LOAD_PATCH" \in new.flags \/ PatchIn(rows, r + 1) = PatchIn(rows, r)
    BY <2>3, PatchNext DEF Adds
  <2> QED  BY <1>1, <1>2, <1>8, <2>1, <2>3, <2>5, <2>6
<1> QED  BY <1>6, <1>7, <1>8

LEMMA SoundPlayed == Inv /\ SoundInv /\ PlayNotes => SoundInv'
<1> SUFFICES ASSUME Inv, SoundInv, PlayNotes PROVE SoundInv'
  OBVIOUS
<1>1. /\ song \in Songs /\ song' = song /\ Voices' = Voices /\ pos \in Nat /\ pos' = pos
      /\ voice = 0 /\ voice' = 1 /\ size # 0 /\ Played = pos - 1
      /\ UNCHANGED <<sample_position, size, ebx, patch, env, peak>>
  BY DEF Inv, TypeOK, PlayNotes, Voices, pos, Played
<1>2. Played' = pos
  BY <1>1 DEF Played
<1>3. PICK p \in Nat : p = pos
  BY <1>1
<1>4. \A c \in Voices : Len(ScoreOf(song[c])) \in Nat /\ song[c] \in Seq(Words)
  BY <1>1, SongWords
<1>5. \A c \in Voices : Row(p) \in 1 .. Len(ScoreOf(song[c]))
  <2> SUFFICES ASSUME NEW c \in Voices PROVE Row(p) \in 1 .. Len(ScoreOf(song[c]))
    OBVIOUS
  <2>1. PICK n \in Nat : n = Len(ScoreOf(song[c]))
    BY <1>4
  <2>2. ebx < size /\ sample_position + size <= RowSamples * n
    BY <1>1, <2>1 DEF SoundInv, InSong
  <2>3. sample_position \in Nat /\ ebx \in Nat /\ size \in Nat /\ p = sample_position + ebx
    BY <1>3 DEF Inv, TypeOK, pos
  <2>4. RowSamples * n \in Int
    BY Cycles
  <2>5. p < RowSamples * n
    BY <2>2, <2>3, <2>4
  <2> QED  BY <2>1, <2>5, RowInside
<1>6. ASSUME NEW c \in Voices
      PROVE  /\ channels'[c] = IF p % TickDivider # 0 THEN channels[c]
                               ELSE PlayTick(channels[c], song[c], Tick(p))
             /\ channels'[c] \in Channel
             /\ Reads(channels'[c], song[c], Row(p))
             /\ Plays(channels'[c], ScoreOf(song[c]), Row(p), Tick(p))
             /\ \/ "LOAD_PATCH" \in channels'[c].flags
                \/ PatchIn(ScoreOf(song[c]), Row(p)) = PatchIn(ScoreOf(song[c]), Row(p - 1))
  <2>1. channels'[c] = IF p % TickDivider # 0 THEN channels[c]
                       ELSE PlayTick(channels[c], song[c], Tick(p))
    BY <1>3 DEF PlayNotes, Tick
  <2>2. /\ channels[c] \in Channel
        /\ Reads(channels[c], song[c], Row(p - 1))
        /\ Plays(channels[c], ScoreOf(song[c]), Row(p - 1), Tick(p - 1))
    BY <1>1, <1>3 DEF SoundInv, InSong, OnTime
  <2>3. Row(p) <= Len(ScoreOf(song[c])) /\ Row(p - 1) \in Nat
    <3>1. Row(p) \in 1 .. Len(ScoreOf(song[c]))
      BY <1>5
    <3>2. p - 1 \in Int /\ p \in Int /\ p = (p - 1) + 1
      OBVIOUS
    <3>3. Row(p - 1) \in Int /\ (Row(p) = Row(p - 1) \/ Row(p) = Row(p - 1) + 1)
      BY <3>2, Clock
    <3> QED  BY <3>1, <3>3
  <2>4. song[c] \in Seq(Words)
    BY <1>4
  <2> QED  BY <2>1, <2>2, <2>3, <2>4, NotesPlayed
<1>7. InSong'
  <2>1. channels' = [c \in Voices |-> channels'[c]]
    BY DEF PlayNotes, SoundInv, InSong
  <2>2. channels' \in [Voices -> Channel]
    BY <1>6, <2>1
  <2> QED  BY <1>1, <2>2 DEF SoundInv, InSong
<1>8. OnTime'
  BY <1>1, <1>2, <1>3, <1>6 DEF OnTime
<1>9. \A c \in Voices : Done(c)' = Done(c)
  <2>1. \A c \in Voices : ~ (c < 0) /\ ~ (c < 1)
    BY <1>1, SongIs
  <2> QED  BY <1>1, <2>1 DEF Done
<1>10. Patched'
  BY <1>1, <1>3, <1>6, <1>9 DEF SoundInv, Patched
<1>11. Enveloped'
  BY <1>1, <1>9 DEF SoundInv, Enveloped
<1> QED  BY <1>7, <1>8, <1>10, <1>11 DEF SoundInv

LEMMA SoundComputed == Inv /\ SoundInv /\ ProcessVoice => SoundInv'
<1> SUFFICES ASSUME Inv, SoundInv, ProcessVoice PROVE SoundInv'
  OBVIOUS
<1>1. /\ song \in Songs /\ song' = song /\ Voices' = Voices /\ pos \in Nat /\ pos' = pos
      /\ voice \in Voices /\ voice' = voice + 1
      /\ UNCHANGED <<sample_position, size, ebx, channels>>
  BY DEF Inv, TypeOK, ProcessVoice, Voices, pos
<1>2. voice \in Nat /\ voice # 0 /\ voice + 1 # 0 /\ \A d \in Voices : d \in Nat
  BY <1>1, SongIs
<1>3. Played' = Played /\ Played = pos
  BY <1>1, <1>2 DEF Played
<1>4. PICK c \in Voices : c = voice
  BY <1>1
<1>5. PICK p \in Nat : p = pos
  BY <1>1
<1>6. \A d \in Voices : d # c => Done(d)' = Done(d)
  <2>1. \A d \in Voices : d # c => (d < voice <=> d < voice + 1)
    BY <1>2, <1>4
  <2> QED  BY <1>1, <2>1 DEF Done
<1>7. Done(c)' = p /\ Done(c) = p - 1
  BY <1>1, <1>2, <1>4, <1>5 DEF Done
<1> DEFINE rows   == ScoreOf(song[c])
           flags  == channels[c].flags
           loaded == IF "LOAD_PATCH" \in flags THEN channels[c].patchptr ELSE patch[c]
           level  == Envelope(env[c], flags, Knobs(loaded))
           new    == IF level.acc = One THEN p ELSE peak[c]
<1>8. /\ patch' = [patch EXCEPT ![c] = loaded] /\ env' = [env EXCEPT ![c] = level]
      /\ peak' = IF level.acc = One THEN [peak EXCEPT ![c] = p] ELSE peak
  BY <1>4, <1>5 DEF ProcessVoice
<1>9. /\ channels[c] \in Channel /\ flags \in SUBSET Flags /\ peak[c] \in Int /\ new \in Int
  BY DEF SoundInv, InSong, Channel
<1>10. Plays(channels[c], rows, Row(p), Tick(p))
  BY <1>3, <1>5 DEF SoundInv, OnTime
<1>11. loaded = PatchIn(rows, Row(p))
  <2>1. channels[c].patchptr = PatchIn(rows, Row(p))
    BY <1>10 DEF Plays
  <2>2. patch[c] = PatchIn(rows, Row(p - 1))
    BY <1>7 DEF SoundInv, Patched
  <2>3. "LOAD_PATCH" \in flags \/ PatchIn(rows, Row(p)) = PatchIn(rows, Row(p - 1))
    BY <1>1, <1>2, <1>5 DEF SoundInv, Patched
  <2> QED  BY <2>1, <2>2, <2>3
<1>12. Shaped(level.old, new, rows, p)
  <2>1. Shaped(env[c].old, peak[c], rows, p - 1)
    BY <1>7 DEF SoundInv, Enveloped
  <2>2. "GATE" \in flags <=> Sounds(rows, p)
    BY <1>10 DEF Plays, Sounds
  <2>3. PICK e, k, lev, f, top, w :
          e = env[c] /\ k = Knobs(loaded) /\ f = flags /\ lev = Envelope(e, f, k) /\ top = peak[c] /\ w = new
    OBVIOUS
  <2>4. w = IF lev.acc = One THEN p ELSE top
    BY <2>3
  <2>5. Shaped(lev.old, w, rows, p)
    <3>1. f \in SUBSET Flags /\ top \in Int /\ w \in Int /\ Shaped(e.old, top, rows, p - 1)
          /\ ("GATE" \in f <=> Sounds(rows, p))
      BY <1>9, <2>1, <2>2, <2>3
    <3> HIDE DEF rows
    <3> QED  BY <2>3, <2>4, <3>1, ShapedNext
  <2> QED  BY <2>3, <2>5
<1> HIDE DEF flags, loaded, level, new
<1>13. /\ patch'[c] = loaded /\ env'[c] = level /\ peak'[c] = new
       /\ patch' = [d \in Voices |-> patch'[d]] /\ env' = [d \in Voices |-> env'[d]]
       /\ peak' \in [Voices -> Int]
       /\ \A d \in Voices : d # c => patch'[d] = patch[d] /\ env'[d] = env[d] /\ peak'[d] = peak[d]
  <2>1. /\ patch = [d \in Voices |-> patch[d]] /\ env = [d \in Voices |-> env[d]]
        /\ peak \in [Voices -> Int]
    BY DEF SoundInv, InSong
  <2>2. patch'[c] = loaded /\ patch' = [d \in Voices |-> patch'[d]]
        /\ \A d \in Voices : d # c => patch'[d] = patch[d]
    BY <1>8, <2>1
  <2>3. env'[c] = level /\ env' = [d \in Voices |-> env'[d]]
        /\ \A d \in Voices : d # c => env'[d] = env[d]
    BY <1>8, <2>1
  <2>4. peak'[c] = new /\ peak' \in [Voices -> Int]
        /\ \A d \in Voices : d # c => peak'[d] = peak[d]
    BY <1>8, <2>1 DEF new
  <2> QED  BY <2>2, <2>3, <2>4
<1>14. InSong'
  BY <1>1, <1>13 DEF SoundInv, InSong
<1>15. OnTime'
  BY <1>1, <1>3 DEF SoundInv, OnTime
<1>16. Patched'
  <2> SUFFICES ASSUME NEW d \in Voices
               PROVE  /\ patch'[d] = PatchIn(ScoreOf(song[d]), Row(Done(d)'))
                      /\ \/ "LOAD_PATCH" \in channels[d].flags
                         \/ PatchIn(ScoreOf(song[d]), Row(pos)) = PatchIn(ScoreOf(song[d]), Row(pos - 1))
    BY <1>1 DEF Patched
  <2>1. \/ "LOAD_PATCH" \in channels[d].flags
        \/ PatchIn(ScoreOf(song[d]), Row(pos)) = PatchIn(ScoreOf(song[d]), Row(pos - 1))
    BY <1>2, <1>4 DEF SoundInv, Patched
  <2>2. patch'[d] = PatchIn(ScoreOf(song[d]), Row(Done(d)'))
    <3>1. CASE d = c
      BY <1>7, <1>11, <1>13, <3>1
    <3>2. CASE d # c
      BY <1>6, <1>13, <3>2 DEF SoundInv, Patched
    <3> QED  BY <3>1, <3>2
  <2> QED  BY <2>1, <2>2
<1>17. Enveloped'
  <2> SUFFICES ASSUME NEW d \in Voices
               PROVE  Shaped(env'[d].old, peak'[d], ScoreOf(song[d]), Done(d)')
    BY <1>1 DEF Enveloped
  <2>1. CASE d = c
    BY <1>7, <1>12, <1>13, <2>1
  <2>2. CASE d # c
    BY <1>6, <1>13, <2>2 DEF SoundInv, Enveloped
  <2> QED  BY <2>1, <2>2
<1> QED  BY <1>14, <1>15, <1>16, <1>17 DEF SoundInv

\* A step of the buffers alone.
LEMMA SoundKept ==
  ASSUME Inv, SoundInv, UNCHANGED <<song, channels, patch, env, peak>>,
         Played' = Played, \A c \in Voices : Done(c)' = Done(c),
         voice' # 0 => voice' = voice /\ pos' = pos, InSong'
  PROVE  SoundInv'
<1>1. song' = song /\ Voices' = Voices
  BY DEF Voices
<1>2. OnTime'
  BY <1>1 DEF SoundInv, OnTime
<1>3. Patched'
  BY <1>1 DEF SoundInv, Patched
<1>4. Enveloped'
  BY <1>1 DEF SoundInv, Enveloped
<1> QED  BY <1>2, <1>3, <1>4 DEF SoundInv

LEMMA SoundStep == Inv /\ SoundInv /\ [Next]_vars => SoundInv'
<1> SUFFICES ASSUME Inv, SoundInv, [Next]_vars PROVE SoundInv'
  OBVIOUS
<1>1. CASE AudioProc
  <2>1. /\ song \in Songs /\ Voices' = Voices /\ pos' = pos /\ voice' = voice /\ voice = 0
        /\ UNCHANGED <<song, channels, patch, env, peak, sample_position>>
        /\ ebx' = 0 /\ sample_position \in Nat
    BY <1>1 DEF Inv, TypeOK, AudioProc, pos, Voices
  <2>2. PICK n \in BufferSizes : sample_position + n <= SongSamples /\ size' = n
    BY <1>1 DEF AudioProc
  <2>3. n \in Nat \ {0} /\ sample_position + n \in Nat
    BY <2>1, Sizes
  <2>4. \A c \in Voices : sample_position + n <= RowSamples * Len(ScoreOf(song[c]))
    BY <2>1, <2>2, <2>3, Asked
  <2>5. InSong'
    BY <2>1, <2>2, <2>3, <2>4 DEF SoundInv, InSong
  <2>6. Played' = Played /\ \A c \in Voices : Done(c)' = Done(c)
    BY <2>1 DEF Played, Done
  <2> QED  BY <2>1, <2>5, <2>6, SoundKept
<1>2. CASE PlayNotes
  BY <1>2, SoundPlayed
<1>3. CASE ProcessVoice
  BY <1>3, SoundComputed
<1>4. CASE SampleDone
  <2>1. /\ Len(song) \in Nat /\ Voices = 1 .. Len(song) /\ Voices' = Voices
        /\ pos \in Nat /\ voice = Len(song) + 1 /\ voice' = 0
        /\ UNCHANGED <<song, channels, patch, env, peak>>
    BY <1>4, SongIs DEF Inv, TypeOK, Voices, pos, SampleDone, Mixed
  <2>2. size # 0
    BY <2>1 DEF Inv, TypeOK
  <2>3. pos' = pos + 1
    BY <1>4, <2>2 DEF Inv, TypeOK, SampleDone, pos
  <2>4. Played' = Played
    BY <2>1, <2>3 DEF Played
  <2>5. \A c \in Voices : Done(c)' = Done(c)
    BY <2>1, <2>3 DEF Done
  <2>6. InSong'
    <3>1. size' # 0 => ebx' < size' /\ size' = size /\ sample_position' = sample_position
      BY <1>4, <2>2 DEF SampleDone, Inv, TypeOK, SoundInv, InSong
    <3> QED  BY <2>1, <2>2, <3>1 DEF SoundInv, InSong
  <2> QED  BY <2>1, <2>4, <2>5, <2>6, SoundKept
<1>5. CASE UNCHANGED vars
  <2>1. pos' = pos /\ voice' = voice /\ Voices' = Voices /\ UNCHANGED <<song, channels, patch, env, peak>>
    BY <1>5 DEF vars, pos, Voices
  <2>2. InSong'
    BY <1>5, <2>1 DEF vars, SoundInv, InSong
  <2>3. Played' = Played /\ \A c \in Voices : Done(c)' = Done(c)
    BY <2>1 DEF Played, Done
  <2> QED  BY <2>1, <2>2, <2>3, SoundKept
<1> QED  BY <1>1, <1>2, <1>3, <1>4, <1>5 DEF Next, Terminating

LEMMA SoundAlways == Spec => [](Inv /\ SoundInv)
<1>1. Init => Inv /\ SoundInv
  BY Initially, SoundInitially
<1>2. Inv /\ SoundInv /\ [Next]_vars => (Inv /\ SoundInv)'
  BY Step, SoundStep
<1> QED  BY <1>1, <1>2, PTL DEF Spec

\* The song's rows in the words of the properties.
LEMMA SongSays ==
  ASSUME song \in Songs, NEW c \in Voices, NEW p
  PROVE  /\ LastNote(c, p) = NoteIn(ScoreOf(song[c]), Row(p))
         /\ Sounding(c, p) <=> Sounds(ScoreOf(song[c]), p)
         /\ LastPatch(c, p) = PatchIn(ScoreOf(song[c]), Row(p))
         /\ Struck(c, p) = StruckIn(ScoreOf(song[c]), p)
<1>1. Score(c) = ScoreOf(song[c])
  BY SongWords
<1>2. \A q : LastNote(c, q) = NoteIn(ScoreOf(song[c]), Row(q))
  BY <1>1 DEF LastNote, NoteIn
<1>3. \A q : Ended(c, q) <=> EndedIn(ScoreOf(song[c]), Row(q), Tick(q))
  BY <1>1, <1>2 DEF Ended, EndedIn, Tick
<1>4. \A q : Sounding(c, q) <=> Sounds(ScoreOf(song[c]), q)
  BY <1>2, <1>3 DEF Sounding, Sounds, SoundsIn
<1>5. LastPatch(c, p) = PatchIn(ScoreOf(song[c]), Row(p))
  BY <1>1 DEF LastPatch, PatchIn
<1>6. Struck(c, p) = StruckIn(ScoreOf(song[c]), p)
  <2>1. {q \in 0 .. p : Sounding(c, q) /\ (q = 0 \/ ~ Sounding(c, q - 1))}
          = {q \in 0 .. p : Sounds(ScoreOf(song[c]), q) /\ (q = 0 \/ ~ Sounds(ScoreOf(song[c]), q - 1))}
    BY <1>4
  <2> QED  BY <2>1 DEF Struck, StruckIn
<1> QED  BY <1>2, <1>4, <1>5, <1>6

\* In every sample each voice plays the note, accent and patch that the song has
\* there, whatever the song and however the system cuts it into calls.
THEOREM PlaysAsWritten == Spec => []SoundsAsWritten
<1>1. Inv /\ SoundInv => SoundsAsWritten
  <2> SUFFICES ASSUME Inv, SoundInv, Mixed, NEW c \in Voices
               PROVE  /\ ("GATE" \in channels[c].flags <=> Sounding(c, pos))
                      /\ ("ACCENT" \in channels[c].flags
                           <=> \E q \in Max({1, LastNote(c, pos)}) .. Row(pos) : "ACCENT" \in Score(c)[q].flags)
                      /\ LastNote(c, pos) # 0 => channels[c].pitch = Score(c)[LastNote(c, pos)].note
                      /\ patch[c] = LastPatch(c, pos)
    BY DEF SoundsAsWritten
  <2>1. song \in Songs /\ Played = pos /\ Done(c) = pos
    BY SongIs DEF Inv, TypeOK, Mixed, Played, Done
  <2>2. Score(c) = ScoreOf(song[c])
    BY <2>1, SongWords
  <2>3. Plays(channels[c], ScoreOf(song[c]), Row(pos), Tick(pos))
    BY <2>1 DEF SoundInv, OnTime
  <2>4. "GATE" \in channels[c].flags <=> Sounding(c, pos)
    BY <2>1, <2>3, SongSays DEF Plays, Sounds
  <2>5. "ACCENT" \in channels[c].flags
          <=> \E q \in Max({1, LastNote(c, pos)}) .. Row(pos) : "ACCENT" \in Score(c)[q].flags
    BY <2>1, <2>2, <2>3, SongSays DEF Plays, AccentIn
  <2>6. LastNote(c, pos) # 0 => channels[c].pitch = Score(c)[LastNote(c, pos)].note
    BY <2>1, <2>2, <2>3, SongSays DEF Plays
  <2>7. patch[c] = LastPatch(c, pos)
    BY <2>1, SongSays DEF SoundInv, Patched
  <2> QED  BY <2>4, <2>5, <2>6, <2>7
<1> QED  BY <1>1, SoundAlways, PTL

\* A note that begins after another has ended is struck: the envelope is at the
\* top once between its first sample and its decay, for any knobs.
THEOREM NotesAreStruck == Spec => []EveryNotePeaks
<1>1. Inv /\ SoundInv => EveryNotePeaks
  <2> SUFFICES ASSUME Inv, SoundInv, Mixed, NEW c \in Voices, Sounding(c, pos), "TRIG" \notin env[c].old
               PROVE  peak[c] >= Struck(c, pos)
    BY DEF EveryNotePeaks
  <2>1. song \in Songs /\ Done(c) = pos
    BY SongIs DEF Inv, TypeOK, Mixed, Done
  <2>2. Shaped(env[c].old, peak[c], ScoreOf(song[c]), pos)
    BY <2>1 DEF SoundInv, Enveloped
  <2> QED  BY <2>1, <2>2, SongSays DEF Shaped
<1> QED  BY <1>1, SoundAlways, PTL

=============================================================================
