--------------------------- MODULE MCEntryTokens ---------------------------
(***************************************************************************)
(* Three references, two wallets, windows of one or two ticks and a cap of *)
(* one or two: a cap is reached, crossed, and re-partitioned away from.    *)
(* Provenances are those the operator uses, below the flag bit.            *)
(***************************************************************************)
EXTENDS EntryTokens, TLC

CONSTANTS r1, r2, r3, alice, bob

MCRefs == {r1, r2, r3}
MCOwners == {alice, bob}
MCPolicies == {<<1, 1>>, <<2, 1>>, <<2, 2>>, <<1, 0>>}

\* References are interchangeable, wallets too.
Symmetric == Permutations(MCRefs) \cup Permutations(MCOwners)
=============================================================================
