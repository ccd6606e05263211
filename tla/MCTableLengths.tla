--------------------------- MODULE MCTableLengths ---------------------------
(* Codes made of a few runs around the limits of a repeat.                 *)
EXTENDS TableLengths

Of(value, n) == [x \in 1 .. n |-> value]

\* 288 literals: two runs, zeros or threes up to the end symbol (256), and a run
\* of length codes behind it.
MCLitTables ==
  { LET body == Of(a, n) \o Of(b, m)
        all  == body \o Of(c, 256 - Len(body)) \o Of(1, p)
    IN  all \o Of(0, 288 - Len(all)) :
      a \in {0, 1}, n \in {1, 8, 9}, b \in {0, 2}, m \in {2, 3, 10, 138, 139, 140, 141},
      c \in {0, 3}, p \in {1, 2, 30} }

\* 32 distances: none, one, a run up to the end, runs that differ from or go on
\* with the literals' last run.
MCDistTables ==
  { Of(a, n) \o Of(0, m) \o Of(b, 32 - n - m) :
      a \in {1, 2}, n \in {0, 1, 8}, m \in {2, 24}, b \in {0, 1} }
=============================================================================
