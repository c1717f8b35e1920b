---------------------------- MODULE EntryTokens ----------------------------
(***************************************************************************)
(* Entry tokens: minted against an external reference at a low price up to *)
(* a cap per time window, redeemed once for a contest entry, or burned     *)
(* into a tombstone.  None of it is gated by the pause (redeeming is, see  *)
(* ContestEscrow), and no account is ever closed.                          *)
(*                                                                         *)
(* What a mint costs is decided here (which of two action ids is looked    *)
(* up); who may pay that price is the subject of Governance.               *)
(***************************************************************************)
EXTENDS Integers, FiniteSets

CONSTANTS
    Refs,       \* external references: each derives one token address
    Owners,     \* owners of tokens
    Sources,    \* the provenance bytes a mint may be given
    Policies,   \* the <<seconds, cap>> policies set_mint_window_policy is given
    StartTime,  \* where the clock starts
    MaxTime     \* bound on the clock

ASSUME TokensAssumption ==
    /\ Sources \subseteq 0..255
    /\ Policies \subseteq Int \X Nat
    /\ StartTime \in Nat /\ MaxTime \in Nat /\ StartTime =< MaxTime

BURNED_FLAG == 128

VARIABLES
    now,       \* Clock::get().unix_timestamp
    policy,    \* GovernanceConfig.mint_window_seconds and mint_window_cap
    minted,    \* the counter of the MintWindow account of each window index
    token,     \* the EntryTokenAccount of each reference
    cheap,     \* history: mints at the low price in this window of this length
    ceiling,   \* history: the highest cap in force meanwhile
    fate       \* history: what became of each reference's token

tokensVars == <<now, policy, minted, token, cheap, ceiling, fate>>

Times == 0..MaxTime
NoToken == [exists |-> FALSE]
NEVER == -1   \* consumed_at = None

TokenAccounts ==
    [exists : {TRUE}, owner : Owners, source : 0..255, consumed : BOOLEAN,
     created_at : Times, consumed_at : Times \cup {NEVER}]

TokensTypeOK ==
    /\ now \in Times
    /\ policy \in (Nat \ {0}) \X (Nat \ {0})
    /\ minted \in [Times -> Nat]
    /\ token \in [Refs -> {NoToken} \cup TokenAccounts]
    /\ cheap \in Nat /\ ceiling \in Nat
    /\ fate \in [Refs -> {"none", "minted", "spent", "burned"}]

PolicyAccepted(p) == p[1] > 0 /\ p[2] > 0

TokensInit ==
    /\ now = StartTime
    /\ policy \in {p \in Policies : PolicyAccepted(p)}
    /\ minted = [i \in Times |-> 0]
    /\ token = [r \in Refs |-> NoToken]
    /\ cheap = 0 /\ ceiling = policy[2]
    /\ fate = [r \in Refs |-> "none"]

-----------------------------------------------------------------------------
window_index_for(p, t) == t \div p[1]

CurrentWindow == window_index_for(policy, now)

\* Faulty variant: the mint that reaches past the cap is the one after it.
AtMostCap(count, cap) == count =< cap

\* The count before this mint decides which action id it is authorized under.
WithinCap(count, cap) == count < cap

\* The window index is an argument, pinned to the clock.
PinnedWindow(window) == window = CurrentWindow

\* `init` fails on an account that exists.
Unminted(r) == ~token[r].exists

(* mint_entry_token: a reference that already has a token collides.         *)
MintEntryToken(r, w, source, window) ==
    /\ PinnedWindow(window)
    /\ Unminted(r)
    /\ token' = [token EXCEPT ![r] =
           [exists |-> TRUE, owner |-> w, source |-> source, consumed |-> FALSE,
            created_at |-> now, consumed_at |-> NEVER]]
    /\ minted' = [minted EXCEPT ![window] = @ + 1]
    /\ cheap' = IF WithinCap(minted[window], policy[2]) THEN cheap + 1 ELSE cheap
    /\ fate' = [fate EXCEPT ![r] = "minted"]
    /\ UNCHANGED <<now, policy, ceiling>>

Burned(r) == token[r].source >= BURNED_FLAG

\* Faulty variant: a spent token can be burned.
NotBurned(r) == token[r].exists /\ ~Burned(r)

\* Neither burned nor spent.
Burnable(r) == token[r].exists /\ ~Burned(r) /\ ~token[r].consumed

\* Faulty variant: the burn leaves no trace of its own.
unflagged(source) == source

\* source | BURNED_FLAG
flagged(source) == IF source >= BURNED_FLAG THEN source ELSE source + BURNED_FLAG

(* burn_entry_token: consumed, so that it cannot be spent, and flagged, so   *)
(* that it does not read as spent.                                           *)
BurnEntryToken(r) ==
    /\ Burnable(r)
    /\ token' = [token EXCEPT ![r].consumed = TRUE, ![r].consumed_at = now,
                              ![r].source = flagged(@)]
    /\ fate' = [fate EXCEPT ![r] = "burned"]
    /\ UNCHANGED <<now, policy, minted, cheap, ceiling>>

(* enter_contest_with_token, as far as the token goes: spent by its owner.  *)
RedeemEntryToken(r, w) ==
    /\ token[r].exists
    /\ token[r].owner = w
    /\ ~token[r].consumed
    /\ token' = [token EXCEPT ![r].consumed = TRUE, ![r].consumed_at = now]
    /\ fate' = [fate EXCEPT ![r] = "spent"]
    /\ UNCHANGED <<now, policy, minted, cheap, ceiling>>

(* set_mint_window_policy: the counters stay where they are.                *)
SetMintWindowPolicy(p) ==
    /\ PolicyAccepted(p)
    /\ policy' = p
    /\ cheap' = IF p[1] = policy[1] THEN cheap ELSE 0
    /\ ceiling' = IF p[1] = policy[1] /\ p[2] < ceiling THEN ceiling ELSE p[2]
    /\ UNCHANGED <<now, minted, token, fate>>

Tick ==
    /\ now < MaxTime
    /\ now' = now + 1
    /\ LET same == window_index_for(policy, now + 1) = CurrentWindow
       IN  /\ cheap' = IF same THEN cheap ELSE 0
           /\ ceiling' = IF same THEN ceiling ELSE policy[2]
    /\ UNCHANGED <<policy, minted, token, fate>>

TokensNext ==
    \/ \E r \in Refs, w \in Owners, source \in Sources, window \in Times :
           MintEntryToken(r, w, source, window)
    \/ \E r \in Refs : BurnEntryToken(r)
    \/ \E r \in Refs, w \in Owners : RedeemEntryToken(r, w)
    \/ \E p \in Policies : SetMintWindowPolicy(p)
    \/ Tick

TokensSpec == TokensInit /\ [][TokensNext]_tokensVars

-----------------------------------------------------------------------------
(* Safety *)

\* A single signature never mints more in one window than the highest cap in
\* force in it, however the cap is lowered and raised meanwhile: the counter
\* survives the change (mint_entry_token.rs:110-136, governance.rs:304-318).
CheapMintsWithinCap == cheap =< ceiling

\* Why: the current window's counter counts every cheap mint, and more.
CheapMintsAreCounted == cheap =< minted[CurrentWindow]

\* Burned and spent can be told apart from the account alone: the flag says
\* burned, consumed without it says spent (state.rs:441-457).
Reading(r) ==
    IF ~token[r].exists THEN "none"
    ELSE IF Burned(r) THEN "burned"
    ELSE IF token[r].consumed THEN "spent" ELSE "minted"

FateIsReadable == \A r \in Refs : Reading(r) = fate[r]

(* Action properties *)

\* The record of a token is written once: its reference is never minted again,
\* owner and provenance never change, and once spent or burned nothing does
\* (burn_entry_token.rs:130-150, mint_entry_token.rs:20-32).
Provenance(source) == IF source >= BURNED_FLAG THEN source - BURNED_FLAG ELSE source

HistoryStandsStep ==
    \A r \in Refs : token[r].exists =>
        /\ token'[r].exists
        /\ token'[r].owner = token[r].owner
        /\ token'[r].created_at = token[r].created_at
        /\ Provenance(token'[r].source) = Provenance(token[r].source)
        /\ token[r].consumed => token'[r] = token[r]
HistoryStands == [][HistoryStandsStep]_tokensVars
=============================================================================
