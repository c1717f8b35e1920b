--------------------------- MODULE AuthorizeCall ---------------------------
(***************************************************************************)
(* One vault-authorized instruction seen as an account list.  A caller     *)
(* arranges the named signer accounts and the remaining_accounts as it     *)
(* likes; `authorize` accepts or refuses.  The properties compare its      *)
(* verdict with what a quorum is: a number of distinct sitting members     *)
(* that signed this very transaction.                                      *)
(***************************************************************************)
EXTENDS VaultAuth

CONSTANTS
    SignerSets,     \* the slot arrays the vault may hold
    StoredValues,   \* what the table may hold for the action (0: never set)
    CallActions,    \* the action ids called
    MaxRemaining    \* bound: the longest remaining_accounts list

ASSUME CallAssumption ==
    /\ SignerSets \subseteq SlotArrays
    /\ StoredValues \subseteq 0..255
    /\ CallActions \subseteq GovActions
    /\ MaxRemaining \in Nat

VARIABLES
    vaultSlots,    \* VaultState.signers ++ signers_ext
    storedTable,   \* GovernanceConfig.thresholds
    call           \* the account list submitted and the verdict

callVars == <<vaultSlots, storedTable, call>>

Accounts == [key : Keys, signed : BOOLEAN]
\* Anchor's Signer type proves a named account signed; an instruction declares
\* `admin` alone, or `admin` and a `cosigner`.
NamedLists == UNION {[1..n -> Keys] : n \in 1..2}
RemainingLists == UNION {[1..n -> Accounts] : n \in 0..MaxRemaining}

NoCall == [action |-> SETTLE_CONTEST, named |-> <<>>, remaining |-> <<>>,
           accepted |-> FALSE]

CallInit ==
    /\ vaultSlots \in SignerSets
    /\ \E v \in StoredValues : storedTable = [a \in GovActions |-> v]
    /\ call = NoCall

Submit(action, named, remaining) ==
    /\ call = NoCall
    /\ call' = [action |-> action, named |-> named, remaining |-> remaining,
                accepted |-> authorize(vaultSlots, storedTable, action, named, remaining)]
    /\ UNCHANGED <<vaultSlots, storedTable>>

CallNext ==
    \E action \in CallActions, named \in NamedLists, remaining \in RemainingLists :
        Submit(action, named, remaining)

CallSpec == CallInit /\ [][CallNext]_callVars

-----------------------------------------------------------------------------
\* The keys that signed the submitted transaction, wherever they stood in it.
TxSigners ==
    {call.named[i] : i \in 1..Len(call.named)}
        \cup {a.key : a \in {b \in {call.remaining[i] : i \in 1..Len(call.remaining)} : b.signed}}

Required == threshold_for(storedTable, call.action)

\* What authorize lets through was signed by at least the required number of
\* distinct members of the vault, at least as many as the floor, whatever the
\* stored table says: repeats, strangers, empty keys and accounts that are
\* listed but did not sign never make up the number (governance.rs:72-109,
\* state.rs:256-279).
AcceptedOnlyByAQuorum ==
    call.accepted =>
        Cardinality(TxSigners \cap all_signers(vaultSlots))
            >= IF Required > THRESHOLD_FLOORS[call.action]
               THEN Required ELSE THRESHOLD_FLOORS[call.action]

\* authorize agrees with the set-level decision the state machines use: the
\* keys it collects are a `cosigned` set exactly when they are arranged as the
\* instruction wants them (named first, distinct, the leading remaining
\* accounts all signing).
CollectedKeysAreCosigned ==
    call # NoCall =>
        LET extra == extra_needed(Required, call.named)
            lead == {call.remaining[i] : i \in 1..(IF extra =< Len(call.remaining)
                                                   THEN extra ELSE Len(call.remaining))}
            collected == {call.named[i] : i \in 1..Len(call.named)}
                             \cup {a.key : a \in {b \in lead : b.signed}}
        IN  call.accepted <=>
                /\ cosigned(vaultSlots, storedTable, call.action, Len(call.named), collected)
                /\ Cardinality(collected) = Len(call.named) + extra

\* The table is the only thing that decides (governance.rs:112-140): every set
\* of exactly the required number of members can be arranged into an accepted
\* call of an instruction with one named signer, and of one with two named
\* signers as soon as the threshold is two or more.
EveryQuorumHasAnArrangement ==
    call = NoCall =>
        \A action \in CallActions, n \in 1..2 :
            LET required == threshold_for(storedTable, action)
            IN  n =< required =>
                \A keys \in {k \in SUBSET all_signers(vaultSlots) : Cardinality(k) = required} :
                    \E order \in [1..required -> keys] :
                        authorize(vaultSlots, storedTable, action, SubSeq(order, 1, n),
                                  [i \in 1..(required - n) |->
                                      [key |-> order[n + i], signed |-> TRUE]])
=============================================================================
