--------------------------- MODULE CallTranslation ---------------------------
(***************************************************************************)
(* link_binary (translate_type 2) and loader32.asm (TRAN_1): relative calls*)
(* become absolute ones, that the packers find more often, and relative    *)
(* again before the program starts.                                        *)
(*                                                                         *)
(* Neither side decodes instructions: a call is any CallByte that the scan *)
(* comes across, in an operand or in data as well, and the loader is told  *)
(* nothing but a number, from which both the end of its scan and the       *)
(* number of calls follow.                                                 *)
(***************************************************************************)
EXTENDS LinkBinary, ImportLoader

IsObjectCode(s) == SectionType(s) = TEXT /\ ~isloader(s)

\* With oneKpaq the scan would not find the code where it looks for it.
ASSUME CodeAssumption ==
  \A p \in Programs :
    /\ p.absolute \in BOOLEAN /\ p.code \in Seq(0 .. ByteValues - 1)
    /\ p.absolute =>
         /\ ~p.onekpaq /\ p.code # <<>>
         /\ Len(p.code) = SumOf([n \in DOMAIN p.sects |->
                                   IF IsObjectCode(p.sects[n]) THEN p.sects[n].length ELSE 0])

VARIABLES
  code,    \* the objects' code in the image, relocated
  calls,   \* tmp_i, translations, tr_bad_count, last_count, last_bad_count
  ctc      \* CallTranslateCount, in the loader

cvars == <<code, calls, ctc>>

CInit ==
  /\ code = program.code
  /\ calls = [next |-> 0, found |-> <<>>, bad |-> 0, last |-> 0, last_bad |-> 0]
  /\ ctc = 0

ObjectCode == {s \in Range(sects) : IsObjectCode(s)}
low_addr == Min({Runs(s) : s \in ObjectCode})
high_addr == Max({Runs(s) + s.length : s \in ObjectCode})

\* Bytes and words at addresses.
ByteAt(a) == code[a - low_addr + 1]
WordAt(bytes, a) ==
  SumOf([k \in 1 .. Field |-> bytes[a - low_addr + k] * Power[k - 1]])
WithWord(bytes, a, n) ==
  [k \in DOMAIN bytes |->
     LET digit == k - (a - low_addr + 1)
     IN  IF digit \in 0 .. Field - 1 THEN (n \div Power[digit]) % ByteValues ELSE bytes[k]]

-----------------------------------------------------------------------------
(* The linker.                                                             *)

Scan == low_addr + calls.next
CallsAhead == {a \in Scan .. high_addr - Field - 2 : ByteAt(a) = CallByte}

\* A call that stays in the code or goes through the jump table.
Likely(a) ==
  LET real == (WordAt(code, a + 1) + a + 1 + Field) % Words
  IN  \/ low_addr <= real /\ real < high_addr
      \/ jtbl_off <= real /\ real < jtbl_off + ItemSize * Len(lmap) + AddrOffset

\* Mutant of BehindCall: an operand may hold the next call.
BehindByte(a) == a + 1

\* The scan goes on behind the operand.
BehindCall(a) == a + 1 + Field

\* One more call.  It is worth while to translate up to here if more than twice as
\* many calls have been found since the last such point as unlikely ones.
FindCall ==
  /\ bphase = "translate" /\ CallsAhead # {}
  /\ Len(calls.found) < MaxTranslations
  /\ LET a     == Min(CallsAhead)
         found == Append(calls.found, a + 1)
         next1 == BehindCall(a) - low_addr
         worth == Len(found) - calls.last > 2 * (calls.bad - calls.last_bad)
     IN  calls' = CASE ~Likely(a) ->
                         [calls EXCEPT !.next = next1, !.found = found, !.bad = @ + 1]
                    [] Likely(a) /\ worth ->
                         [calls EXCEPT !.next = next1, !.found = found,
                                       !.last = Len(found), !.last_bad = calls.bad]
                    [] OTHER -> [calls EXCEPT !.next = next1, !.found = found]
  /\ UNCHANGED <<ivars, bvars, lvars, code, ctc>>

\* What the loader counts down: one for every byte but the operands', and one for
\* every call.
CountFor(from, last, n) == last + Field - from - n * (Field - 1)

\* The operands become absolute.
TranslateCalls ==
  /\ bphase = "translate" /\ CallsAhead = {} /\ calls.last # 0
  /\ code' = FoldLeft(LAMBDA bytes, n :
                        WithWord(bytes, calls.found[n],
                                 (WordAt(bytes, calls.found[n]) + calls.found[n]) % Words),
                      code, [n \in 1 .. calls.last |-> n])
  /\ ctc' = CountFor(low_addr, calls.found[calls.last], calls.last)
  /\ bphase' = "pack"
  /\ UNCHANGED <<ivars, lvars, calls>>
  /\ UNCHANGED <<sects, i, c_off, vm_shift, b_len, f_len, jtbl_off, decompr_addr, loader_addr,
                 heap, values, translations, linker_blocks, packed, file>>

\* "Max limit of call translations reached", "Translation defined with 0
\* translations, failing".
CannotTranslate ==
  /\ bphase = "translate"
  /\ IF CallsAhead # {} THEN Len(calls.found) = MaxTranslations ELSE calls.last = 0
  /\ bphase' = "refused"
  /\ UNCHANGED <<ivars, lvars, cvars>>
  /\ UNCHANGED <<sects, i, c_off, vm_shift, b_len, f_len, jtbl_off, decompr_addr, loader_addr,
                 heap, values, translations, linker_blocks, packed, file>>

CLink == FindCall \/ TranslateCalls \/ CannotTranslate

-----------------------------------------------------------------------------
(* The loader.                                                             *)

\* The loader's last label: the address behind its code.
CodeEnd == LET s == SectOf(2, 1) IN Runs(s) + s.length

\* ecx and edi.
StartRestore ==
  /\ lphase = "calls"
  /\ count' = ctc /\ cell' = CodeEnd
  /\ lphase' = "restore"
  /\ UNCHANGED <<ivars, bvars, cvars, images, jump, slot, lib, entry>>

\* repnz scasb has count bytes to find a call in.
CallsToRestore ==
  {a \in cell .. cell + count - 1 : a >= low_addr /\ a < high_addr /\ ByteAt(a) = CallByte}

\* sub [edi],edi
Restored(a) == (WordAt(code, a + 1) - (a + 1)) % Words

RestoreCall ==
  /\ lphase = "restore" /\ CallsToRestore # {}
  /\ LET a == Min(CallsToRestore)
         left == count - (a - cell + 1) - 1
     IN  /\ code' = WithWord(code, a + 1, Restored(a))
         /\ cell' = a + 1 + Field
         /\ count' = left
         /\ lphase' = IF left = 0 THEN "done" ELSE "restore"
  /\ UNCHANGED <<ivars, bvars, calls, ctc, images, jump, slot, lib, entry>>

CLoad == StartRestore \/ RestoreCall

-----------------------------------------------------------------------------
(* Properties.                                                             *)

\* When the program starts its code is the code that was linked, byte for byte,
\* wherever there were call bytes in operands or data; and the loader's scan,
\* that has no other end than a count of zero, never runs out of calls before.
CodeRestored ==
  /\ lphase = "restore" => CallsToRestore # {}
  /\ lphase = "done" => code = program.code
=============================================================================
