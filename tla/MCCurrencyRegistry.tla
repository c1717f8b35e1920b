------------------------- MODULE MCCurrencyRegistry -------------------------
(***************************************************************************)
(* Three slots for four mints: the registry fills up, with dead slots in   *)
(* it, while two contests charge fees at one or two of the slots.          *)
(***************************************************************************)
EXTENDS CurrencyRegistry, TLC

CONSTANTS m1, m2, m3, m4, c1, c2

MCMints == {m1, m2, m3, m4}
MCContests == {c1, c2}
MCFeeSlots == {{1}, {2}, {1, 3}, {3}}

Symmetric == Permutations(MCMints) \cup Permutations(MCContests)
=============================================================================
