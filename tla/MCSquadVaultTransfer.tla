------------------------ MODULE MCSquadVaultTransfer ------------------------
(***************************************************************************)
(* Mainnet scaled: the system and governance seats, one operator and one   *)
(* other member, threshold three of four, so that the agents and the other *)
(* member reach it without the operator.                                   *)
(***************************************************************************)
EXTENDS SquadVaultTransfer

CONSTANTS r1, r2, sys, gov, gov2, op, guest, move, other

MCKeys == {sys, gov, gov2, op, guest}
MCSeated == {sys, gov, op, guest}
MCGovernances == {gov, gov2}
MCAgents == {sys, gov, gov2}
Rotation == [out |-> gov, in |-> gov2, mask |-> Permissions]
MCSwaps == {Rotation}
MCActs == {move, other}
MCByHand == {other, Rotation}
=============================================================================
