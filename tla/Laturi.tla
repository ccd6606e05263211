------------------------------- MODULE Laturi -------------------------------
(***************************************************************************)
(* laturi from the objects to the running program: the imports, the image, *)
(* then the loader in it.  LATURI_generate calls one after the other.      *)
(***************************************************************************)
EXTENDS CallTranslation

vars == <<ivars, bvars, lvars, cvars>>

Init == IInit /\ BInit /\ LInit /\ CInit

Import == INext /\ UNCHANGED <<bvars, lvars, cvars>>
Link == (BNext /\ UNCHANGED <<lvars, cvars>>) \/ CLink
Load == Linked /\ ((LNext /\ UNCHANGED <<bvars, cvars>>) \/ CLoad)

\* Refused, or as far as the loader got.
Terminating ==
  /\ "refused" \in {phase, bphase} \/ lphase = "done"
  /\ UNCHANGED vars

Next == Import \/ Link \/ Load \/ Terminating

\* One process after the other, none of which waits for anything.
Spec == Init /\ [][Next]_vars /\ WF_vars(Import \/ Link \/ Load)

TypeOK == ITypeOK /\ LTypeOK

\* Every program is refused by laturi or starts: no loop of the linker or of the
\* loader, which have no ends of their own, goes on for ever.  The loader never
\* comes to the end of a list it searches, of symbols, images or the table, and
\* what it takes for the list of images is one: no action goes on from there.
StartsOrRefused == <>("refused" \in {phase, bphase} \/ lphase = "done")
=============================================================================
