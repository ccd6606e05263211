-------------------------- MODULE MCContextSearch --------------------------
(* Small tables for ContextSearch: few model numbers, weights and sizes.   *)
EXTENDS ContextSearch

SeedWeightsDef == {<<1, 1>>, <<1, 2>>}
SizesDef == 1 .. LengthByte * LengthByte - 1

============================================================================
