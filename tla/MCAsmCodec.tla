---------------------------- MODULE MCAsmCodec ----------------------------
(* Small words for AsmCodec. *)
EXTENDS AsmCodec

UnitDef == [b \in 0 .. FlushBits |-> 2 ^ (FlushBits - b)]

============================================================================
