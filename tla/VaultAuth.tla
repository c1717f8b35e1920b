----------------------------- MODULE VaultAuth -----------------------------
(***************************************************************************)
(* How the turf_vault program decides whether a transaction carries enough *)
(* signatures: the signer slots of VaultState, the per-action threshold    *)
(* table of GovernanceConfig, and the single path `authorize` that every   *)
(* vault-authorized instruction goes through.                              *)
(*                                                                         *)
(* There is no state here.  `slots` is the five-slot signer array,         *)
(* `table` the stored thresholds, `remaining` the remaining_accounts of a  *)
(* transaction, each with the is_signer flag of its AccountInfo.           *)
(***************************************************************************)
EXTENDS Integers, FiniteSets, Sequences

CONSTANTS
    Keys,     \* the public keys a transaction may name
    NoKey     \* Pubkey::default(), the content of an empty signer slot

ASSUME KeysAssumption == NoKey \notin Keys /\ IsFiniteSet(Keys)

MAX_SIGNERS == 5
BOOTSTRAP_THRESHOLD == 2

-----------------------------------------------------------------------------
(* gov_action: the ids that index the threshold table *)

SETTLE_CONTEST == 0
CANCEL_CONTEST == 1
SWEEP_OPERATOR_REVENUE == 2
REGISTER_CURRENCY == 3
DEACTIVATE_CURRENCY == 4
PAUSE == 5
UNPAUSE == 6
UPDATE_SIGNERS == 7
CREATE_SEASON == 8
CLOSE_CONTEST == 9
SET_CONTEST_LOCK_TIME == 10
SET_CONTEST_CONCLUSION_TIME == 11
MINT_ENTRY_TOKEN == 12
MINT_ENTRY_TOKEN_OVER_CAP == 13
BURN_ENTRY_TOKEN == 14
GRANT_SEEDS == 15
SET_GOVERNANCE == 16
ADMIN_USERNAME == 17   \* retired: no instruction reads it any more
CREATE_CONTEST == 18
ENTER_CONTEST == 19
SET_CONTEST_LOCK_TIME_REOPEN == 20
SET_CONTEST_CONCLUSION_TIME_AMEND == 21
OVERWRITE_USERNAME == 22
RESERVE_USERNAME == 23
RELEASE_USERNAME == 24

GovActions == 0..24    \* every id below gov_action::COUNT

DEFAULT_THRESHOLDS ==
    [a \in GovActions |->
        IF a \in {PAUSE, CLOSE_CONTEST, SET_CONTEST_LOCK_TIME,
                  SET_CONTEST_CONCLUSION_TIME} THEN 2
        ELSE IF a \in {MINT_ENTRY_TOKEN, GRANT_SEEDS, ADMIN_USERNAME,
                       CREATE_CONTEST, ENTER_CONTEST} THEN 1
        ELSE 3]

THRESHOLD_FLOORS ==
    [a \in GovActions |->
        IF a \in {UPDATE_SIGNERS, UNPAUSE, SET_GOVERNANCE, OVERWRITE_USERNAME,
                  RESERVE_USERNAME, RELEASE_USERNAME} THEN 3 ELSE 1]

\* The table a binary older than the username registry bootstrapped: it wrote
\* its `[1u8; 32]` start value, a literal one, at the three ids it did not know.
PreviousDefaults ==
    [a \in GovActions |->
        IF a \in {OVERWRITE_USERNAME, RESERVE_USERNAME, RELEASE_USERNAME}
        THEN 1 ELSE DEFAULT_THRESHOLDS[a]]

Tables == [GovActions -> 0..MAX_SIGNERS]

-----------------------------------------------------------------------------
(* GovernanceConfig *)

\* Faulty variant: the stored value without its floor.
threshold_unfloored(table, action) ==
    IF table[action] = 0 THEN DEFAULT_THRESHOLDS[action] ELSE table[action]

\* A stored zero reads as the shipped default; the floor is applied on read.
threshold_for(table, action) ==
    LET defaulted == IF table[action] = 0 THEN DEFAULT_THRESHOLDS[action]
                                          ELSE table[action]
        floor == THRESHOLD_FLOORS[action]
    IN  IF defaulted < floor THEN floor ELSE defaulted

\* Faulty variant: only the rotation's own threshold is covered.
covers_update_signers(table, count) ==
    threshold_for(table, UPDATE_SIGNERS) =< count

\* count >= max_live_threshold(): enough for the most demanding action.
covers_max_live_threshold(table, count) ==
    \A a \in GovActions : threshold_for(table, a) =< count

-----------------------------------------------------------------------------
(* VaultState: three original slots and two appended ones, read as one array *)

Slots == 1..MAX_SIGNERS
SlotArrays == [Slots -> Keys \cup {NoKey}]
NoSigners == [i \in Slots |-> NoKey]

all_signers(slots) == {slots[i] : i \in Slots} \ {NoKey}

\* The program counts occupied slots, not distinct keys.
active_signer_count(slots) == Cardinality({i \in Slots : slots[i] # NoKey})

is_signer(slots, key) == key # NoKey /\ \E i \in Slots : slots[i] = key

\* Faulty variant: a repeated key counts twice.
validate_with_repeats(slots, keys, required) ==
    /\ required >= 1
    /\ \A i \in 1..Len(keys) : is_signer(slots, keys[i])
    /\ Len(keys) >= required

\* Every key a member, none repeated, and at least `required` of them.
validate_threshold(slots, keys, required) ==
    /\ required >= 1
    /\ \A i \in 1..Len(keys) : is_signer(slots, keys[i])
    /\ \A i, j \in 1..Len(keys) : i # j => keys[i] # keys[j]
    /\ Len(keys) =< MAX_SIGNERS
    /\ Len(keys) >= required

-----------------------------------------------------------------------------
(* instructions::governance *)

\* Faulty variant: the last signature is forgotten.
extra_needed_less_one(required, named) ==
    IF required > Len(named) + 1 THEN required - Len(named) - 1 ELSE 0

extra_needed(required, named) ==
    IF required > Len(named) THEN required - Len(named) ELSE 0

\* The keys `authorize` collects: the named signers, then the leading
\* remaining accounts it consumes.
collected_keys(required, named, remaining) ==
    named \o [i \in 1..extra_needed(required, named) |-> remaining[i].key]

\* Faulty variant: an account that is listed counts as having signed.
authorize_unsigned(slots, table, action, named, remaining) ==
    LET required == threshold_for(table, action)
    IN  /\ action \in GovActions
        /\ Len(remaining) >= extra_needed(required, named)
        /\ validate_threshold(slots, collected_keys(required, named, remaining),
                              required)

\* The result of authorize: TRUE for Ok, FALSE for any of its errors.
authorize(slots, table, action, named, remaining) ==
    LET required == threshold_for(table, action)
    IN  /\ action \in GovActions
        /\ required \in 1..MAX_SIGNERS
        /\ Len(remaining) >= extra_needed(required, named)
        /\ \A i \in 1..extra_needed(required, named) : remaining[i].signed
        /\ validate_threshold(slots, collected_keys(required, named, remaining),
                              required)

(***************************************************************************)
(* The same decision on the SET of keys that signed, which is what the     *)
(* state machines use: an instruction with `n` named signer accounts is    *)
(* authorized by exactly max(n, threshold) distinct members.  That this is *)
(* what `authorize` accepts is checked by MCAuthorizeCall, and proved in   *)
(* GovernanceProofs (CosignedIsWhatAuthorizeAccepts).                      *)
(***************************************************************************)
cosigned(slots, table, action, n, keys) ==
    /\ keys \subseteq all_signers(slots)
    /\ Cardinality(keys) = IF threshold_for(table, action) > n
                           THEN threshold_for(table, action) ELSE n
=============================================================================
