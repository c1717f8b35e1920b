--------------------------- MODULE MCSquadUpgrade ---------------------------
(***************************************************************************)
(* Both clusters with a threshold of two: mainnet, where one of two seats  *)
(* is an agent's and the run hands over, and devnet, where two of three    *)
(* are and it runs to the end.  By hand the members create a vault         *)
(* transaction that is not the upgrade and a swap of members.              *)
(***************************************************************************)
EXTENDS SquadUpgrade

CONSTANTS r1, sys, seatA, op, guest, vault, seat, upVault, upSeat, other

MCKeys == {sys, seatA, op, guest}
MCClusters ==
    {[mainnet |-> TRUE, agents |-> {sys}, seated |-> {sys, op}],
     [mainnet |-> FALSE, agents |-> {sys, seatA}, seated |-> {sys, seatA, op}]}
MCSpills == {vault, seat}
MCUpgrade(s) == IF s = vault THEN upVault ELSE upSeat
Reseat == [out |-> op, in |-> guest, mask |-> Permissions]
MCSwaps == {Reseat}
MCActs == {upVault, upSeat, other}
MCByHand == {other, Reseat}
=============================================================================
