--------------------------- MODULE ArithInterval ---------------------------
(***************************************************************************)
(* What an arithmetic encoder promises, in exact arithmetic.               *)
(*                                                                         *)
(* The whole message is one point of an interval that every symbol makes   *)
(* narrower.  low is the exact lower end of the interval, an unbounded     *)
(* number; range is its width.  Nothing here knows about words, registers, *)
(* bits already sent or carries: ArithEncoder, which sends the high bits   *)
(* of low while later symbols may still add to it, is shown to implement   *)
(* this module.                                                            *)
(***************************************************************************)
EXTENDS Naturals

CONSTANTS
  Threshold,    \* range is doubled until it is at least this (0x4000'0000)
  Skip          \* points left unused between a 1-branch and a 0-branch

VARIABLES low, range

avars == <<low, range>>

Init ==
  /\ low = 0
  /\ range = Threshold

\* The 1-branch is the bottom range - sub points, the 0-branch the top sub.
Narrow(bit, sub) ==
  /\ range >= Threshold
  /\ \/ /\ bit = 1
        /\ range' = range - sub
        /\ low' = low
     \/ /\ bit = 0
        /\ range' = sub
        /\ low' = low + (range - sub) + Skip

\* The single point that separates the two branches closes a section.
Close(sub) ==
  /\ range >= Threshold
  /\ low' = low + (range - sub)
  /\ range' = 1

\* One more binary digit of precision.
Refine ==
  /\ range < Threshold
  /\ low' = 2 * low
  /\ range' = 2 * range

\* Give up the upper half: any point of the rest decodes to the same symbols.
Halve ==
  /\ range >= Threshold
  /\ range' = range \div 2
  /\ low' = low

Next ==
  \/ \E sub \in 1 .. (range - 2), bit \in {0, 1} : Narrow(bit, sub)
  \/ \E sub \in 1 .. (range - 2) : Close(sub)
  \/ Refine
  \/ Halve

Spec == Init /\ [][Next]_avars

=============================================================================
