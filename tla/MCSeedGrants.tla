---------------------------- MODULE MCSeedGrants ----------------------------
(***************************************************************************)
(* Two wallets that may invite each other, one contest id that is created  *)
(* again and again for either of two seasons, which are created in any     *)
(* order, the invite quest, another one and an unknown one.                *)
(***************************************************************************)
EXTENDS SeedGrants

CONSTANTS alice, bob, s1, s2, c1

MCWallets == {alice, bob}
MCSeasons == {s1, s2}
MCContests == {c1}
MCQuests == [kind \in 0..15 |-> 45]
MCSchedules == { [seeds |-> [i \in 0..4 |-> 5 - i], quests |-> MCQuests],
                 [seeds |-> [i \in 0..4 |-> 1], quests |-> MCQuests] }
=============================================================================
