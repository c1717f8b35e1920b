----------------------------- MODULE Governance -----------------------------
(***************************************************************************)
(* Who governs the vault, and at what price: the instructions that create  *)
(* the vault and its threshold table, rotate the signer set, retune a      *)
(* threshold or the mint window, and pull or lift the brake.  Every other  *)
(* vault-authorized instruction appears as VaultOp: it passes the same     *)
(* `authorize` and leaves this state alone.                                *)
(*                                                                         *)
(* An instruction is one atomic transaction, so it is one action; which    *)
(* keys sign it, and what it proposes, is nondeterministic.  A refused     *)
(* transaction changes nothing and is not a step.  Only a key that         *)
(* somebody holds signs: a key mistyped into the signer set never does.    *)
(***************************************************************************)
EXTENDS VaultAuth

CONSTANTS
    Held,          \* the keys somebody can sign with
    GenesisKeys,   \* what `initialize` may be given as signers
    Proposals,     \* the signer arrays a rotation may propose
    Retunes,       \* the <<action, value>> pairs a retune may propose
    Policies,      \* the <<seconds, cap>> mint-window policies proposed
    OtherOps       \* ids of the instructions VaultOp stands for

ASSUME GovernanceAssumption ==
    /\ Held \subseteq Keys
    /\ GenesisKeys \subseteq Keys \cup {NoKey}
    /\ Proposals \subseteq SlotArrays
    /\ Retunes \subseteq Nat \X Nat
    /\ Policies \subseteq Int \X Nat
    /\ OtherOps \subseteq GovActions

DEFAULT_MINT_WINDOW == <<86400, 250>>   \* seconds, tokens

VARIABLES
    vaultExists,   \* the VaultState account has been created
    slots,         \* its signers and signers_ext
    paused,        \* its brake
    tableExists,   \* the GovernanceConfig account has been created
    table,         \* its thresholds
    window,        \* its <<mint_window_seconds, mint_window_cap>>
    last,          \* history: the action id and signers of the last instruction
    agreed         \* history: what each action was last retuned to, 0 if never

vault == <<vaultExists, slots, paused>>
governance == <<tableExists, table, window>>
vars == <<vault, governance, last, agreed>>

Members == all_signers(slots)

\* Creating the two accounts is not an action of the table: it has no id.
NoAction == 25

TypeOK ==
    /\ vaultExists \in BOOLEAN /\ tableExists \in BOOLEAN /\ paused \in BOOLEAN
    /\ slots \in SlotArrays
    /\ table \in Tables
    /\ window \in Int \X Nat
    /\ last \in [action : GovActions \cup {NoAction}, keys : SUBSET Keys]
    /\ agreed \in Tables

-----------------------------------------------------------------------------
NoTable == [a \in GovActions |-> 0]

\* A program that was never initialized.
FreshInit ==
    /\ vaultExists = FALSE /\ slots = NoSigners /\ paused = FALSE
    /\ tableExists = FALSE /\ table = NoTable /\ window = DEFAULT_MINT_WINDOW
    /\ last = [action |-> NoAction, keys |-> {}] /\ agreed = NoTable

\* Faulty variant: a gap is accepted.
DistinctKeys(array) ==
    \A i, j \in Slots : i # j /\ array[i] # NoKey => array[i] # array[j]

LivePacked(array) ==
    /\ \A i, j \in Slots : i < j /\ array[i] = NoKey => array[j] = NoKey
    /\ \A i, j \in Slots : i # j /\ array[i] # NoKey => array[i] # array[j]

\* A vault of three live keys whose table was bootstrapped by the previous
\* binary, met by this one after a program upgrade.
UpgradedInit ==
    /\ vaultExists = TRUE /\ paused = FALSE
    /\ slots \in Proposals
    /\ LivePacked(slots) /\ slots[3] # NoKey /\ slots[4] = NoKey
    /\ tableExists = TRUE /\ table = PreviousDefaults
    /\ window = DEFAULT_MINT_WINDOW
    /\ last = [action |-> NoAction, keys |-> {}] /\ agreed = NoTable

Init == FreshInit \/ UpgradedInit

-----------------------------------------------------------------------------
Log(action, keys) ==
    /\ last' = [action |-> action, keys |-> keys]
    /\ agreed' = agreed

\* `authorize` of an instruction with n named signer accounts.
Authorized(action, n, keys) ==
    /\ vaultExists /\ tableExists
    /\ cosigned(slots, table, action, n, keys)

\* named_signers: `admin`, and an optional `cosigner`.
AuthorizedOptionalCosigner(action, keys) ==
    \E n \in 1..2 : Authorized(action, n, keys)

(* initialize: three pairwise distinct keys, the payer among them.  It does *)
(* not ask that they be live.                                               *)
Initialize(signers, admin) ==
    /\ ~vaultExists
    /\ \A i, j \in 1..3 : i # j => signers[i] # signers[j]
    /\ \E i \in 1..3 : signers[i] = admin
    /\ vaultExists' = TRUE
    /\ slots' = [i \in Slots |-> IF i =< 3 THEN signers[i] ELSE NoKey]
    /\ paused' = FALSE
    /\ Log(NoAction, {admin})
    /\ UNCHANGED governance

(* init_governance: two signatures, because the table that would say how   *)
(* many is the account being created; it takes no arguments.               *)
InitGovernance(keys) ==
    /\ vaultExists /\ ~tableExists
    /\ keys \subseteq Members
    /\ Cardinality(keys) = BOOTSTRAP_THRESHOLD
    /\ tableExists' = TRUE
    /\ table' = DEFAULT_THRESHOLDS
    /\ window' = DEFAULT_MINT_WINDOW
    /\ Log(NoAction, keys)
    /\ UNCHANGED vault

\* What set_action_threshold asks of the value it is to store.
ThresholdAccepted(action, value) ==
    /\ action \in GovActions
    /\ value >= THRESHOLD_FLOORS[action]
    /\ value \in 1..MAX_SIGNERS
    /\ value =< active_signer_count(slots)

SetActionThreshold(action, value, keys) ==
    /\ Authorized(SET_GOVERNANCE, 1, keys)
    /\ ThresholdAccepted(action, value)
    /\ table' = [table EXCEPT ![action] = value]
    /\ last' = [action |-> SET_GOVERNANCE, keys |-> keys]
    /\ agreed' = [agreed EXCEPT ![action] = value]
    /\ UNCHANGED <<vault, tableExists, window>>

SetMintWindowPolicy(seconds, cap, keys) ==
    /\ Authorized(SET_GOVERNANCE, 1, keys)
    /\ seconds > 0 /\ cap > 0
    /\ window' = <<seconds, cap>>
    /\ Log(SET_GOVERNANCE, keys)
    /\ UNCHANGED <<vault, tableExists, table>>

\* Faulty variant: any key that survives the rotation counts as proven.
surviving_keys(new, keys) == Members \cap all_signers(new)

\* The keys of the proposal that are proven by having signed the rotation.
proven_keys(new, keys) == keys \cap all_signers(new)

(* update_signers: the proposal must be left-packed, free of duplicates,    *)
(* large enough for every live action, and keep as many of the keys that    *)
(* authorized it as the action requires.                                    *)
UpdateSigners(new, keys) ==
    LET required == threshold_for(table, UPDATE_SIGNERS)
        count == active_signer_count(new)
    IN  /\ Authorized(UPDATE_SIGNERS, 2, keys)
        /\ LivePacked(new)
        /\ count >= required
        /\ covers_max_live_threshold(table, count)
        /\ Cardinality(proven_keys(new, keys)) >= required
        /\ slots' = new
        /\ Log(UPDATE_SIGNERS, keys)
        /\ UNCHANGED <<vaultExists, paused, governance>>

PauseVault(keys) ==
    /\ AuthorizedOptionalCosigner(PAUSE, keys)
    /\ paused' = TRUE
    /\ Log(PAUSE, keys)
    /\ UNCHANGED <<vaultExists, slots, governance>>

UnpauseVault(keys) ==
    /\ Authorized(UNPAUSE, 2, keys)
    /\ paused' = FALSE
    /\ Log(UNPAUSE, keys)
    /\ UNCHANGED <<vaultExists, slots, governance>>

(* Any other vault-authorized instruction. *)
VaultOp(action, keys) ==
    /\ AuthorizedOptionalCosigner(action, keys)
    /\ Log(action, keys)
    /\ UNCHANGED <<vault, governance>>

Govern(keys) ==
    \/ InitGovernance(keys)
    \/ \E r \in Retunes : SetActionThreshold(r[1], r[2], keys)
    \/ \E p \in Policies : SetMintWindowPolicy(p[1], p[2], keys)
    \/ \E new \in Proposals : UpdateSigners(new, keys)
    \/ PauseVault(keys)
    \/ UnpauseVault(keys)
    \/ \E action \in OtherOps : VaultOp(action, keys)

Next ==
    \/ \E signers \in [1..3 -> GenesisKeys], admin \in Held : Initialize(signers, admin)
    \/ \E keys \in SUBSET (Members \cap Held) : Govern(keys)

Spec == Init /\ [][Next]_vars
-----------------------------------------------------------------------------
(* Safety *)

\* Retuning and rotating pull against each other: one may not raise a threshold
\* past the seats taken, the other may not drop below the thresholds stored.
\* Together they keep every action within reach of the vault, so none can be
\* bricked with no way back (governance.rs:235-241, update_signers.rs:157-164).
EveryActionSatisfiable ==
    tableExists => \A a \in GovActions : threshold_for(table, a) =< Cardinality(Members)

\* The program counts the signers by filtering empty slots, a script by
\* reading to the first zero, a quorum by distinct keys: all three agree
\* (state.rs:196-233, update_signers.rs:117-139).
SlotsBeforeFirstGap ==
    {i \in Slots : \A j \in 1..i : slots[j] # NoKey}

ReadersAgree ==
    /\ Cardinality(SlotsBeforeFirstGap) = active_signer_count(slots)
    /\ Cardinality(Members) = active_signer_count(slots)

\* What an action was agreed to cost: as shipped until it is retuned.
Price(a) == IF agreed[a] = 0 THEN DEFAULT_THRESHOLDS[a] ELSE agreed[a]

(* The inductive strengthening of EveryActionSatisfiable: the set is packed  *)
(* and seats three, and every threshold reads as it was agreed.              *)
SeatsThree == vaultExists => LivePacked(slots) /\ slots[3] # NoKey

ReadsAsAgreed ==
    tableExists => \A a \in GovActions : threshold_for(table, a) = Price(a)

IInv ==
    /\ tableExists => vaultExists
    /\ ~vaultExists => slots = NoSigners
    /\ ~tableExists => agreed = NoTable
    /\ SeatsThree
    /\ ReadsAsAgreed
    /\ EveryActionSatisfiable

\* The seated keys that somebody holds can pay for an action.
Payable(a) == Cardinality(Members \cap Held) >= threshold_for(table, a)

\* The vault can still be mended: its signers rotated, or its table retuned.
Mendable == tableExists /\ (Payable(UPDATE_SIGNERS) \/ Payable(SET_GOVERNANCE))

(* Action properties *)

\* Two keys, the most an agent reaches, stop the platform and no more: once
\* the table exists, no step signed by fewer than three keys changes the
\* signers, the table or the mint window, or lifts the brake, whatever was
\* retuned before and whichever binary wrote the table (state.rs:711-768).
MinorityCannotGovernStep ==
    (tableExists /\ Cardinality(last'.keys) < 3) =>
        /\ slots' = slots
        /\ table' = table
        /\ window' = window
        /\ paused => paused'
MinorityCannotGovern == [][MinorityCannotGovernStep]_vars

\* Every step costs what was last agreed on: as many signatures as the latest
\* retune of that action asked for, or as the program ships with, also against
\* a table of the previous binary that stores a literal one for the username
\* actions (state.rs:723-768, governance.rs:235-280).
AgreedPriceStep ==
    last'.action \in GovActions => Cardinality(last'.keys) >= Price(last'.action)
AgreedPrice == [][AgreedPriceStep]_vars

\* Together: nothing is ever done for less than its price.
PricesStand == [][MinorityCannotGovernStep /\ AgreedPriceStep]_vars

\* A vault that can be mended stays so, whatever mistyped keys rotations seat
\* and whatever is retuned, as long as one of the two prices that guard the
\* way back is the shipped one: a rotation keeps keys that signed it, and a
\* raised price can be taken back through the other
\* (update_signers.rs:166-184, governance.rs:235-241).
OneDoorStaysOpenStep ==
    (Mendable /\ (agreed'[UPDATE_SIGNERS] = 0 \/ agreed'[SET_GOVERNANCE] = 0))
        => Mendable'
OneDoorStaysOpen == [][OneDoorStaysOpenStep]_vars

(* What the documentation says and the code does not keep *)

\* "Lifting the brake costs strictly more than pulling it" (unpause.rs:11-16).
LiftingCostsMore ==
    tableExists => threshold_for(table, UNPAUSE) > threshold_for(table, PAUSE)

\* "No number here is a one-way door" (state.rs:793): what can be mended now
\* can be mended after any step.
NoOneWayDoor == [][Mendable => Mendable']_vars
=============================================================================
