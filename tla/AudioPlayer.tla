---------------------------- MODULE AudioPlayer ----------------------------
(***************************************************************************)
(* src/audio: the song player.  The system calls AudioProc for a buffer of *)
(* samples; for every sample the notes are played if a tick begins, then   *)
(* the voices are computed one after the other (render_sample).            *)
(*                                                                         *)
(* A channel of the song is a sequence of words: a rest for a number of    *)
(* rows, or a note, flags and a patch, each of which may be missing.  A    *)
(* row is TicksPerRow ticks long, and a note that is to end in it ends at  *)
(* OffTick.  Of the modules of a voice the two are modelled that remember  *)
(* more than a phase: the envelope and the delay line.                     *)
(***************************************************************************)
EXTENDS Integers, Sequences, FiniteSets, FiniteSetsExt, SequencesExt

CONSTANTS
  Songs,         \* bound: what is played, the words of every channel
  Patches,       \* bound: knobs of the patches; a delay time may be a moving one
  One,           \* [1.0] the level at which an attack ends
  TickDivider,   \* [129] tickdivider, samples of a tick
  TicksPerRow,   \* [64]
  OffTick,       \* [60]
  DelaySize,     \* [262144] DELAYBUFFERSIZE
  BufferSizes    \* bound: samples the system may ask for at a time

ASSUME PlayerAssumption ==
  /\ One \in Nat \ {0} /\ TickDivider \in Nat \ {0}
  /\ TicksPerRow \in Nat /\ OffTick \in 1 .. TicksPerRow - 1
  /\ DelaySize \in Nat \ {0} /\ BufferSizes \subseteq Nat \ {0}
  /\ \A p \in DOMAIN Patches :
       /\ p \in Nat \ {0}
       /\ {Patches[p].attack, Patches[p].decay, Patches[p].sustain, Patches[p].release} \subseteq Nat
       /\ Patches[p].times \subseteq 0 .. DelaySize
  /\ \A s \in Songs :
       s \in Seq(Seq([note : Nat, rest : Nat \cup {-1}, flags : SUBSET {"NOTEOFF", "ACCENT"},
                     patch : {0} \cup DOMAIN Patches]))

VARIABLES
  song,
  sample_position,  \* sample_position
  size, ebx,        \* samples asked for, 0 between calls; samples done
  voice,            \* the voice at hand, 0 before the notes are played
  channels,         \* channelptr, restcount, flags, pitch, patchptr
  patch,            \* what the modulators of a voice are loaded from, 0 for zeros
  env,              \* the envelope's accumulator and old flags
  line,             \* the delay's buffer and write offset
  delaycount,       \* delaycount
  delaybuffer,      \* delaybuffer: who put something in, and when
  heard,            \* history: what the delays read, and the time that was set
  peak              \* history: when an envelope was at One

vars == <<song, sample_position, size, ebx, voice, channels, patch, env, line,
          delaycount, delaybuffer, heard, peak>>

Voices == DOMAIN song
pos == sample_position + ebx
Silence == <<>>
NoBuffer == -1

\* Everything is zeroed memory at first.
Init ==
  /\ song \in Songs
  /\ sample_position = 0 /\ size = 0 /\ ebx = 0 /\ voice = 0
  /\ channels = [c \in Voices |-> [channelptr |-> 1, restcount |-> 0, flags |-> {},
                                   pitch |-> 0, patchptr |-> 0]]
  /\ patch = [c \in Voices |-> 0]
  /\ env = [c \in Voices |-> [acc |-> 0, old |-> {}]]
  /\ line = [c \in Voices |-> [buffer |-> NoBuffer, offset |-> 0]]
  /\ delaycount = 0
  /\ delaybuffer = [b \in 0 .. Len(song) - 1 |-> [k \in 0 .. DelaySize - 1 |-> Silence]]
  /\ heard = [c \in Voices |-> [time |-> 0, first |-> Silence, second |-> Silence]]
  /\ peak = [c \in Voices |-> -1]

-----------------------------------------------------------------------------
(* Notes.                                                                  *)

RowSamples == TickDivider * TicksPerRow

\* The rows of a channel, from its words alone: rests are rows with nothing in them.
Empty == [note |-> 0, rest |-> -1, flags |-> {}, patch |-> 0]
Rows(word) == IF word.rest = -1 THEN <<word>> ELSE [k \in 1 .. word.rest + 1 |-> Empty]
Score(c) == FlattenSeq([n \in DOMAIN song[c] |-> Rows(song[c][n])])

\* Bound: nothing is played behind the last word of a channel.
SongSamples == RowSamples * Min({Len(Score(c)) : c \in Voices})

\* A note starts with no flag but the gate's; a word without one adds its flags.
LoadWord(ch, word) ==
  IF word.rest # -1
  THEN [ch EXCEPT !.channelptr = @ + 1, !.restcount = word.rest]
  ELSE [channelptr |-> ch.channelptr + 1,
        restcount  |-> ch.restcount,
        flags      |-> (IF word.note # 0 THEN {"GATE"} ELSE ch.flags) \cup word.flags
                         \cup (IF word.patch # 0 THEN {"LOAD_PATCH"} ELSE {}),
        pitch      |-> IF word.note # 0 THEN word.note ELSE ch.pitch,
        patchptr   |-> IF word.patch # 0 THEN word.patch ELSE ch.patchptr]

\* Mutant of PlayRow: the word after a rest is loaded in the rest's last row.
PlayRowEarly(ch, words) ==
  IF ch.restcount > 1 THEN [ch EXCEPT !.restcount = @ - 1]
  ELSE LoadWord(ch, words[ch.channelptr])

PlayRow(ch, words) ==
  IF ch.restcount # 0 THEN [ch EXCEPT !.restcount = @ - 1]
  ELSE LoadWord(ch, words[ch.channelptr])

NoteOff(ch) ==
  IF "NOTEOFF" \in ch.flags THEN [ch EXCEPT !.flags = @ \cap {"TRIG", "ACCENT"}] ELSE ch

PlayTick(ch, words, tick) ==
  CASE tick = 0       -> PlayRow(ch, words)
    [] tick = OffTick -> NoteOff(ch)
    [] OTHER          -> ch

\* The system wants a buffer filled.
AudioProc ==
  /\ size = 0
  /\ \E n \in BufferSizes : sample_position + n <= SongSamples /\ size' = n
  /\ ebx' = 0
  /\ UNCHANGED <<song, sample_position, voice, channels, patch, env, line, delaycount,
                 delaybuffer, heard, peak>>

PlayNotes ==
  /\ size # 0 /\ voice = 0
  /\ channels' =
       IF pos % TickDivider # 0 THEN channels
       ELSE [c \in Voices |-> PlayTick(channels[c], song[c], (pos \div TickDivider) % TicksPerRow)]
  /\ voice' = 1
  /\ UNCHANGED <<song, sample_position, size, ebx, patch, env, line, delaycount,
                 delaybuffer, heard, peak>>

-----------------------------------------------------------------------------
(* Voices.                                                                 *)

Knobs(p) ==
  IF p = 0 THEN [attack |-> 0, decay |-> 0, sustain |-> 0, release |-> 0, times |-> {0}]
  ELSE Patches[p]

\* Mutant of Attacking: that an attack goes on is not remembered.
AttackingOnce(e, flags) == "TRIG" \in flags \/ "GATE" \notin e.old

\* The gate has just gone up, or an attack goes on.
Attacking(e, flags) == "TRIG" \in flags \/ "GATE" \notin e.old \/ "TRIG" \in e.old

\* module_func_env
Envelope(e, flags, k) ==
  CASE "GATE" \notin flags ->
         [acc |-> Max({e.acc - k.release, 0}), old |-> flags]
    [] "GATE" \in flags /\ Attacking(e, flags) ->
         IF e.acc + k.attack <= One
         THEN [acc |-> e.acc + k.attack, old |-> flags \cup {"TRIG"}]
         ELSE [acc |-> One, old |-> flags \ {"TRIG"}]
    [] OTHER ->
         [acc |-> Max({e.acc - k.decay, k.sustain}), old |-> flags]

\* module_func_delay: a voice gets its buffer when it is first computed.
BufferOf(c) == IF line[c].buffer = NoBuffer THEN delaycount ELSE line[c].buffer

\* Mutant of ReadAt: the offset is not brought back into the buffer.
ReadAtUnwrapped(offset, time) == IF offset < time THEN 0 ELSE offset - time

ReadAt(offset, time) == IF offset < time THEN offset - time + DelaySize ELSE offset - time

Delay(c, time) ==
  LET b     == BufferOf(c)
      write == line[c].offset
      first == ReadAt(write, time)
  IN  /\ heard' = [heard EXCEPT ![c] =
                     [time |-> time, first |-> delaybuffer[b][first],
                      second |-> delaybuffer[b][(first + 1) % DelaySize]]]
      /\ delaybuffer' = [delaybuffer EXCEPT ![b][write] = <<c, pos>>]
      /\ line' = [line EXCEPT ![c] = [buffer |-> b, offset |-> (write + 1) % DelaySize]]
      /\ delaycount' = IF line[c].buffer = NoBuffer THEN delaycount + 1 ELSE delaycount

ProcessVoice ==
  /\ voice \in Voices
  /\ LET c      == voice
         flags  == channels[c].flags
         loaded == IF "LOAD_PATCH" \in flags THEN channels[c].patchptr ELSE patch[c]
         level  == Envelope(env[c], flags, Knobs(loaded))
     IN  /\ patch' = [patch EXCEPT ![c] = loaded]
         /\ env' = [env EXCEPT ![c] = level]
         /\ peak' = IF level.acc = One THEN [peak EXCEPT ![c] = pos] ELSE peak
         /\ \E time \in Knobs(loaded).times : Delay(c, time)
  /\ voice' = voice + 1
  /\ UNCHANGED <<song, sample_position, size, ebx, channels>>

Mixed == voice = Len(song) + 1

\* The next sample of the buffer, or the call returns.
SampleDone ==
  /\ Mixed
  /\ voice' = 0
  /\ IF ebx + 1 = size
     THEN sample_position' = sample_position + size /\ size' = 0 /\ ebx' = 0
     ELSE ebx' = ebx + 1 /\ UNCHANGED <<sample_position, size>>
  /\ UNCHANGED <<song, channels, patch, env, line, delaycount, delaybuffer, heard, peak>>

Terminating ==
  /\ size = 0 /\ sample_position + Min(BufferSizes) > SongSamples
  /\ UNCHANGED vars

Next == AudioProc \/ PlayNotes \/ ProcessVoice \/ SampleDone \/ Terminating

Spec == Init /\ [][Next]_vars

-----------------------------------------------------------------------------
(* What the song says at a sample, from its rows.                          *)

Row(p) == p \div RowSamples + 1
LastNote(c, p) == Max({0} \cup {q \in 1 .. Row(p) : Score(c)[q].note # 0})
Ended(c, p) ==
  \E q \in Max({1, LastNote(c, p)}) .. Row(p) :
    /\ "NOTEOFF" \in Score(c)[q].flags
    /\ q < Row(p) \/ (p \div TickDivider) % TicksPerRow >= OffTick
Sounding(c, p) == LastNote(c, p) # 0 /\ ~Ended(c, p)
LastPatch(c, p) ==
  LET named == {q \in 1 .. Row(p) : Score(c)[q].patch # 0}
  IN  IF named = {} THEN 0 ELSE Score(c)[Max(named)].patch

-----------------------------------------------------------------------------
(* Properties.                                                             *)

\* In every sample each voice plays the note the song has there, from its first
\* tick to the one where it is to end, with its accent and with the knobs of the
\* last patch named, wherever rests are and however the system cuts the samples
\* into buffers.
SoundsAsWritten ==
  Mixed =>
    \A c \in Voices :
      LET n == LastNote(c, pos)
      IN  /\ ("GATE" \in channels[c].flags <=> Sounding(c, pos))
          /\ ("ACCENT" \in channels[c].flags
                <=> \E q \in Max({1, n}) .. Row(pos) : "ACCENT" \in Score(c)[q].flags)
          /\ n # 0 => channels[c].pitch = Score(c)[n].note
          /\ patch[c] = LastPatch(c, pos)

\* When the note that sounds at p, or the run of notes it is tied to, was struck.
Struck(c, p) ==
  Max({q \in 0 .. p : Sounding(c, q) /\ (q = 0 \/ ~Sounding(c, q - 1))})

\* A note that begins after another has ended is struck: its level gets to the
\* top before it decays, whatever level the one before has left.
EveryNotePeaks ==
  Mixed =>
    \A c \in Voices :
      Sounding(c, pos) /\ "TRIG" \notin env[c].old => peak[c] >= Struck(c, pos)

\* What voice c has put into its buffer at p.
Put(c, p) == IF p < 0 THEN Silence ELSE <<c, p>>

\* Both samples that a delay mixes are what the same voice put in, as long ago as
\* the delay is and a sample later, for a delay of two samples up to the whole
\* buffer, that may change from one sample to the next.
EchoesInTime ==
  Mixed =>
    \A c \in Voices :
      LET h == heard[c]
      IN  h.time \in 2 .. DelaySize =>
            h.first = Put(c, pos - h.time) /\ h.second = Put(c, pos - h.time + 1)
=============================================================================
