---------------------------- MODULE MCGovernance ----------------------------
(***************************************************************************)
(* Governance on five keys and one nobody holds, with the rotation         *)
(* ceremony of update_signers (add two seats, then drop two) among the     *)
(* proposals, together with a set in which one key is mistyped and with    *)
(* those it must refuse: a gap, a duplicate, too few keys, too few proven. *)
(***************************************************************************)
EXTENDS Governance

CONSTANTS k1, k2, k3, k4, k5, typo

MCHeld == {k1, k2, k3, k4, k5}
MCKeys == MCHeld \cup {typo}
MCGenesisKeys == {k1, k2, k3}

MCProposals ==
    { <<k1, k2, k3, NoKey, NoKey>>,     \* the founding set
      <<k1, k2, k3, k4, NoKey>>,        \* add one seat
      <<k1, k2, k3, typo, NoKey>>,      \* add one seat, mistyped
      <<k1, k2, typo, NoKey, NoKey>>,   \* drop the one that could sign
      <<k1, k2, k3, k4, k5>>,           \* add two seats
      <<k3, k4, k5, NoKey, NoKey>>,     \* evict the two agent-reachable keys
      <<k4, k3, k5, k1, NoKey>>,        \* reorder and evict one
      <<k1, NoKey, k3, k4, NoKey>>,     \* a gap
      <<k1, k2, k1, k3, NoKey>>,        \* a duplicate
      <<k1, k2, NoKey, NoKey, NoKey>> } \* too few keys

\* Legal values for three actions, and one value refused for
\* each reason: below the floor, zero, above the slots, an unknown action.
MCRetunes ==
    { <<PAUSE, 1>>, <<PAUSE, 3>>,
      <<UPDATE_SIGNERS, 3>>, <<UPDATE_SIGNERS, 4>>, <<SET_GOVERNANCE, 4>>,
      <<OVERWRITE_USERNAME, 2>>, <<PAUSE, 0>>, <<PAUSE, 6>>, <<25, 3>> }

MCPolicies == {<<3600, 10>>, <<0, 10>>, <<3600, 0>>}
MCOtherOps == {MINT_ENTRY_TOKEN, OVERWRITE_USERNAME}
=============================================================================
