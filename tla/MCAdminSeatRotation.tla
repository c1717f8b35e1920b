------------------------ MODULE MCAdminSeatRotation ------------------------
(***************************************************************************)
(* The governance seat's cut-over on a multisig of three with a threshold  *)
(* of two, which the two agents reach without the operator, and one agent  *)
(* with the operator.  By hand the members create a swap of the same keys  *)
(* that grants another mask.                                               *)
(***************************************************************************)
EXTENDS AdminSeatRotation

CONSTANTS r1, sys, gov, gov2, op, act

MCKeys == {sys, gov, gov2, op}
MCSeated == {sys, gov, op}
MCAgents == {sys, gov, gov2}
MCGovernances == {gov, gov2}
Masked == [out |-> gov, in |-> gov2, mask |-> {"Vote"}]
MCSwaps == [out : {gov}, in : {gov2}, mask : SUBSET Permissions]
MCActs == {act}
MCByHand == {Masked}
=============================================================================
