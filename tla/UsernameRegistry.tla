-------------------------- MODULE UsernameRegistry --------------------------
(***************************************************************************)
(* The username registry: one UsernameRecord account per canonical name,   *)
(* whose existence is the lock on the name and whose owner is the player   *)
(* that holds it, or the vault when the name is reserved.                  *)
(*                                                                         *)
(* A username is 32 bytes.  What the handlers tell apart of them is the    *)
(* text before the first zero byte, whether it has capitals, and what      *)
(* follows the zero byte: the canonical key folds the capitals away and    *)
(* keeps all the rest, the validity checks only look at the text.          *)
(***************************************************************************)
EXTENDS Integers, FiniteSets

CONSTANTS
    Wallets,        \* the wallets of players
    Vault,          \* the address of the vault's own account
    Free,           \* the owner of a name without a record
    NoRecord,       \* an optional record account left out
    Usernames,      \* the usernames submitted: [text, capitals, tail]
    InvalidTexts,   \* texts too short or with an unprintable character
    PrefixedTexts   \* texts that start with a reserved prefix

ASSUME RegistryAssumption ==
    /\ Vault \notin Wallets
    /\ Free \notin Wallets \cup {Vault}
    /\ \E n \in Usernames : n.text \notin InvalidTexts

VARIABLES
    account,      \* the wallets that have a UserAccount
    username,     \* its username
    registered,   \* the wallets whose username_registered flag is set
    record        \* the owner of each name's UsernameRecord

vars == <<account, username, registered, record>>

canonical_username_key(n) == [text |-> n.text, tail |-> n.tail]
NameKeys == {canonical_username_key(n) : n \in Usernames}

ASSUME NoRecordAssumption == NoRecord \notin NameKeys

validate_username_charset_len(n) == n.text \notin InvalidTexts
validate_username_prefix(n) == n.text \notin PrefixedTexts
validate_username(n) == validate_username_charset_len(n) /\ validate_username_prefix(n)

TypeOK ==
    /\ account \subseteq Wallets
    /\ username \in [Wallets -> Usernames]
    /\ registered \subseteq account
    /\ record \in [NameKeys -> Wallets \cup {Vault, Free}]

\* Accounts older than the registry show a name nobody recorded; two of them
\* may show the same one.
Init ==
    /\ account \in SUBSET Wallets
    /\ username \in [Wallets -> {n \in Usernames : validate_username_charset_len(n)}]
    /\ \A w \in Wallets \ account :
           username[w] = CHOOSE n \in Usernames : validate_username_charset_len(n)
    /\ registered = {}
    /\ record = [k \in NameKeys |-> Free]

-----------------------------------------------------------------------------
(* The rules the handlers share *)

\* Faulty variant: the record found is taken over.
overwrite_record(k, owner) == record[k] # Vault

\* claim_or_confirm: the record is new, or already the claimant's.
claim_or_confirm(k, owner) == record[k] \in {Free, owner}

CurrentKey(w) == canonical_username_key(username[w])

\* Faulty variant: the old record may be left out.
previous_optional(w, k, previous) ==
    previous # NoRecord => /\ previous = CurrentKey(w) /\ previous # k
                           /\ record[previous] = w

\* settle_previous_record: a registered account that really changes its name
\* hands over the record of the name it leaves; nobody else passes one.
settle_previous_record(w, k, previous) ==
    IF k # CurrentKey(w) /\ w \in registered
    THEN previous = CurrentKey(w) /\ record[previous] = w
    ELSE previous = NoRecord

\* The record passed as the previous one is closed, the new one is written.
Rename(w, n, previous) ==
    LET k == canonical_username_key(n)
    IN  /\ w \in account
        /\ settle_previous_record(w, k, previous)
        /\ claim_or_confirm(k, w)
        /\ record' = [j \in NameKeys |-> IF j = k THEN w
                                         ELSE IF j = previous THEN Free ELSE record[j]]
        /\ username' = [username EXCEPT ![w] = n]
        /\ registered' = registered \cup {w}
        /\ UNCHANGED account

-----------------------------------------------------------------------------
(* The handlers *)

require_not_vault_pda(wallet) == wallet # Vault

(* create_user_account: anyone may name any wallet but the vault.           *)
CreateUserAccount(w, n) ==
    LET k == canonical_username_key(n)
    IN  /\ require_not_vault_pda(w)
        /\ w \notin account
        /\ validate_username(n)
        /\ claim_or_confirm(k, w)
        /\ account' = account \cup {w}
        /\ username' = [username EXCEPT ![w] = n]
        /\ registered' = registered \cup {w}
        /\ record' = [record EXCEPT ![k] = w]

SetUsername(w, n, previous) ==
    /\ validate_username(n)
    /\ Rename(w, n, previous)

(* overwrite_username: a quorum renames without the wallet's consent and may *)
(* use a reserved prefix.                                                    *)
OverwriteUsername(w, n, previous) ==
    /\ validate_username_charset_len(n)
    /\ Rename(w, n, previous)

(* reserve_username: the name must already be in canonical form.            *)
ReserveUsername(n) ==
    LET k == canonical_username_key(n)
    IN  /\ ~n.capitals
        /\ validate_username_charset_len(n)
        /\ claim_or_confirm(k, Vault)
        /\ record' = [record EXCEPT ![k] = Vault]
        /\ UNCHANGED <<account, username, registered>>

\* Faulty variant: whatever no wallet of the caller's holds is released.
held_by_someone(k) == record[k] # Free

reserved_by_vault(k) == record[k] = Vault

ReleaseReservedUsername(k) ==
    /\ reserved_by_vault(k)
    /\ record' = [record EXCEPT ![k] = Free]
    /\ UNCHANGED <<account, username, registered>>

(* backfill_username_record: records the name an account already shows.     *)
BackfillUsernameRecord(w) ==
    /\ w \in account
    /\ validate_username_charset_len(username[w])
    /\ claim_or_confirm(CurrentKey(w), w)
    /\ record' = [record EXCEPT ![CurrentKey(w)] = w]
    /\ registered' = registered \cup {w}
    /\ UNCHANGED <<account, username>>

Next ==
    \/ \E w \in Wallets \cup {Vault}, n \in Usernames : CreateUserAccount(w, n)
    \/ \E w \in Wallets, n \in Usernames, previous \in NameKeys \cup {NoRecord} :
           \/ SetUsername(w, n, previous)
           \/ OverwriteUsername(w, n, previous)
    \/ \E n \in Usernames : ReserveUsername(n)
    \/ \E k \in NameKeys : ReleaseReservedUsername(k)
    \/ \E w \in Wallets : BackfillUsernameRecord(w)

Spec == Init /\ [][Next]_vars

-----------------------------------------------------------------------------
(* Safety *)

\* A registered account holds the record of the name it shows, through every
\* rename, eviction and retried migration: so no two of them show one name, and
\* none is ever refused a rename for want of its record
\* (username_registry.rs:172-233).
RegisteredHoldsItsName ==
    \A w \in registered : record[CurrentKey(w)] = w

\* And nothing else: a wallet never accumulates names by renaming, migrating
\* late or being renamed (username_registry.rs:178-186).
NobodyHoldsTwoNames ==
    \A w \in Wallets, k \in NameKeys :
        record[k] = w => w \in registered /\ k = CurrentKey(w)

IInv == RegisteredHoldsItsName /\ NobodyHoldsTwoNames

\* The registry is a lock on names: accounts, the migration flag and case-only
\* renames included, it does what NameLock says.
Lock == INSTANCE NameLock WITH Names <- NameKeys, Players <- Wallets, holder <- record
ImplementsNameLock == Lock!Spec

(* What the documentation says and the code does not keep *)

\* "Two usernames collide exactly when this returns the same bytes for both ...
\* there is no non-ASCII case left for this to mishandle" (set_username.rs:237,
\* 254-257): what follows the first zero byte is part of the key and nobody
\* checked it, so two registered accounts can show the same text.
ShownTextsUnique ==
    \A v, w \in registered : username[v].text = username[w].text => v = w
=============================================================================
