-------------------------- MODULE MCAuthorizeCall --------------------------
(***************************************************************************)
(* AuthorizeCall on a small instance: four members (one of them in an      *)
(* appended slot) and a stranger, or the three-slot vault with a gap left  *)
(* by an empty key; thresholds unset, below their floor, and up to three.  *)
(***************************************************************************)
EXTENDS AuthorizeCall

CONSTANTS k1, k2, k3, k4

MCKeys == {k1, k2, k3, k4}
MCSignerSets == {<<k1, k2, k3, NoKey, NoKey>>, <<k1, NoKey, k3, k4, NoKey>>,
                 <<k1, k2, NoKey, NoKey, NoKey>>}
MCStoredValues == {0, 1, 2, 3}
MCCallActions == {PAUSE, UNPAUSE}
=============================================================================
