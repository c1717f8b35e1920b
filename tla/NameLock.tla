------------------------------ MODULE NameLock ------------------------------
(***************************************************************************)
(* What the username registry promises, without accounts, flags or rent: a *)
(* name is free, held by one player, or blocked by the vault; a player     *)
(* holds at most one; a name changes hands only through being free.        *)
(***************************************************************************)
CONSTANTS
    Names,     \* canonical names
    Players,   \* who can hold one
    Vault,     \* who blocks one
    Free       \* nobody

VARIABLE holder

Init == holder = [k \in Names |-> Free]

\* A player takes a free name and gives up the one it held, if any.
Take(p, k) ==
    /\ holder[k] = Free
    /\ holder' = [j \in Names |-> IF j = k THEN p
                                  ELSE IF holder[j] = p THEN Free ELSE holder[j]]

Block(k) ==
    /\ holder[k] = Free
    /\ holder' = [holder EXCEPT ![k] = Vault]

Unblock(k) ==
    /\ holder[k] = Vault
    /\ holder' = [holder EXCEPT ![k] = Free]

Next ==
    \/ \E p \in Players, k \in Names : Take(p, k)
    \/ \E k \in Names : Block(k) \/ Unblock(k)

Spec == Init /\ [][Next]_holder
=============================================================================
