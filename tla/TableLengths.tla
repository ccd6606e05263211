---------------------------- MODULE TableLengths ----------------------------
(***************************************************************************)
(* kompura.c, create_best_huffman_map from line 1171: the code lengths of  *)
(* the literals and of the distances become one table without the zeros    *)
(* behind the last literal and the last distance, and the table becomes    *)
(* code words: a length, or a length (a zero) so many times.               *)
(*                                                                         *)
(* A repeat stands for 3 to 6 equal lengths, or 3 to 138 zeros.  The loop  *)
(* cuts a longer run so that what is left is never too short for one more. *)
(* The numbers are deflate's own; the tables are made of runs whose        *)
(* lengths lie around the places where the loop decides.                   *)
(***************************************************************************)
EXTENDS Codewords, SequencesExt, FiniteSetsExt

CONSTANTS
  LitTables,    \* bound: the bit_length of items[], sequences of Z_ABET lengths
  DistTables    \* bound: the bit_length of distances[], sequences of Z_DIST

ASSUME TableAssumption ==
  /\ LitTables \subseteq Seq(0 .. 15) /\ DistTables \subseteq Seq(0 .. 15)
  /\ \A t \in LitTables : \E n \in DOMAIN t : t[n] # 0
  /\ <<>> \notin DistTables

VARIABLES
  lit, dist,   \* the two codes
  tmp_table,
  table_lit_length, table_dist_length,
  place,       \* i of the source
  run, said,   \* j and k: the length of the run, how much of it is said
  table_enc_data,
  heard        \* history: the table of an inflater that has read the words

tvars == <<lit, dist, tmp_table, table_lit_length, table_dist_length,
           place, run, said, table_enc_data, heard>>

-----------------------------------------------------------------------------
\* How many lengths are left without the zeros at the end.
Trimmed(t) == SelectLastInSeq(t, LAMBDA n : n # 0)

DistLength(t) == IF Trimmed(t) = 0 THEN 1 ELSE Trimmed(t)

TableSize == Len(tmp_table)
LengthAt(n) == tmp_table[n + 1]
bothTables == <<lit, dist, tmp_table, table_lit_length, table_dist_length>>

TInit ==
  /\ lit \in LitTables /\ dist \in DistTables
  /\ table_lit_length = Trimmed(lit) /\ table_dist_length = DistLength(dist)
  /\ tmp_table = SubSeq(lit, 1, table_lit_length) \o SubSeq(dist, 1, table_dist_length)
  /\ place = 0 /\ run = 0 /\ said = 0
  /\ table_enc_data = <<>> /\ heard = <<>>

\* Equal lengths from this place on, the last one of the table left out.
RunLength ==
  LET differs == SelectInSubSeq(tmp_table, place + 1, TableSize, LAMBDA n : n # LengthAt(place))
  IN  IF differs # 0 THEN differs - 1 - place ELSE Max({1, TableSize - 1 - place})

Say(ld) ==
  LET word   == [type |-> "CW_TABLE", lit |-> LengthAt(place), ld |-> ld]
      before == IF heard = <<>> THEN 0 ELSE Last(heard)
  IN  /\ table_enc_data' = Append(table_enc_data, word)
      /\ heard' = heard \o Expand(encode_codeword(word), before)

\* A length, with the beginning of a repeat if four or more follow suit.
SayLength ==
  /\ place < TableSize /\ said = run
  /\ LengthAt(place) # 0
  /\ Say(1)
  /\ IF RunLength >= 4 THEN run' = RunLength /\ said' = 1 /\ UNCHANGED place
     ELSE place' = place + 1 /\ UNCHANGED <<run, said>>
  /\ UNCHANGED bothTables

ZeroRun == RunLength >= 3

SayZero ==
  /\ place < TableSize /\ said = run
  /\ LengthAt(place) = 0 /\ ~ZeroRun
  /\ Say(1)
  /\ place' = place + 1
  /\ UNCHANGED <<bothTables, run, said>>

\* Mutant of RepeatOf: as much as a repeat can say.
RepeatGreedy(rest, most) == IF rest <= most THEN rest ELSE most

\* What the next repeat says of what is left.
RepeatOf(rest, most) ==
  IF rest <= most THEN rest
  ELSE IF rest < most + 3 THEN rest - 3
  ELSE most

MostRepeat == IF LengthAt(place) # 0 THEN 6 ELSE 138

\* One turn of a loop `while (k!=j)`; the last one ends the run.
SayMore(j, k) ==
  LET ld == RepeatOf(j - k, MostRepeat)
  IN  /\ Say(ld)
      /\ IF k + ld = j THEN place' = place + j /\ run' = 0 /\ said' = 0
         ELSE run' = j /\ said' = k + ld /\ UNCHANGED place
      /\ UNCHANGED bothTables

SayZeros ==
  /\ place < TableSize /\ said = run
  /\ LengthAt(place) = 0 /\ ZeroRun
  /\ SayMore(RunLength, 0)

Repeat == said # run /\ SayMore(run, said)

TTerminating == place = TableSize /\ UNCHANGED tvars

TNext == SayLength \/ SayZero \/ SayZeros \/ Repeat \/ TTerminating

TSpec == TInit /\ [][TNext]_tvars

-----------------------------------------------------------------------------
(* Properties.                                                             *)

\* The inflater's table is the code's table as far as it has been said, at the
\* end all of it, cut at the right place between literals and distances.
TablesArrive ==
  /\ heard = SubSeq(tmp_table, 1, place + said)
  /\ place = TableSize =>
       LET part(n, m, size) == [x \in 1 .. size |-> IF x <= m THEN heard[n + x] ELSE 0]
       IN  /\ part(0, table_lit_length, Len(lit)) = lit
           /\ part(table_lit_length, table_dist_length, Len(dist)) = dist
=============================================================================
