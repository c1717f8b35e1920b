-------------------------- MODULE CurrencyRegistry --------------------------
(***************************************************************************)
(* The currency registry inside VaultState: an array of slots that only    *)
(* fills up from the left.  A contest stores its fees by slot index and    *)
(* nothing else, and the program pays an entry's fee in whatever mint the  *)
(* slot holds when the entry is made, so a slot must mean one mint for     *)
(* good.                                                                   *)
(***************************************************************************)
EXTENDS Integers, FiniteSets

CONSTANTS
    Mints,          \* SPL mints
    NoMint,         \* Pubkey::default(), the content of an unused slot
    MAX_CURRENCIES, \* the length of the array; 16 in the program
    Contests,       \* contest ids
    FeeSlots        \* the sets of slots a contest may charge a fee at

ASSUME CurrencyAssumption ==
    /\ NoMint \notin Mints
    /\ MAX_CURRENCIES \in Nat /\ MAX_CURRENCIES >= 2
    /\ FeeSlots \subseteq SUBSET (1..MAX_CURRENCIES)

VARIABLES
    mint,       \* the mint of each slot
    active,     \* the slots whose `active` flag is set
    op_rev,     \* the mints that have an operator-revenue account
    fees,       \* the slots each live contest charges a fee at
    priced,     \* history: the mint each fee was meant in when it was set
    paid        \* history: the <<contest, slot, mint>> of every fee paid

currencyVars == <<mint, active, op_rev, fees, priced, paid>>

Idx == 1..MAX_CURRENCIES
Registered == {i \in Idx : mint[i] # NoMint}
NoFees == [i \in Idx |-> NoMint]

CurrencyTypeOK ==
    /\ mint \in [Idx -> Mints \cup {NoMint}]
    /\ active \subseteq Idx
    /\ op_rev \subseteq Mints
    /\ fees \in [Contests -> SUBSET Idx]
    /\ priced \in [Contests -> [Idx -> Mints \cup {NoMint}]]
    /\ paid \subseteq Contests \X Idx \X (Mints \cup {NoMint})

\* initialize: two different mints in the first two slots.
CurrencyInit ==
    /\ \E usdc, usdt \in Mints :
           /\ usdc # usdt
           /\ mint = [i \in Idx |-> IF i = 1 THEN usdc ELSE IF i = 2 THEN usdt ELSE NoMint]
           /\ op_rev = {usdc, usdt}
    /\ active = {1, 2}
    /\ fees = [c \in Contests |-> {}]
    /\ priced = [c \in Contests |-> NoFees]
    /\ paid = {}

-----------------------------------------------------------------------------
\* Faulty variant: a deactivated slot is free again.
first_inactive(i) == i \notin active /\ \A j \in 1..(i - 1) : j \in active

first_unused(i) == mint[i] = NoMint /\ \A j \in 1..(i - 1) : mint[j] # NoMint

\* No slot holds the mint, and `init` creates its revenue account.
not_registered(m) == (\A i \in Idx : mint[i] # m) /\ m \notin op_rev

RegisterCurrency(m) ==
    /\ not_registered(m)
    /\ \E i \in Idx :
           /\ first_unused(i)
           /\ mint' = [mint EXCEPT ![i] = m]
           /\ active' = active \cup {i}
    /\ op_rev' = op_rev \cup {m}
    /\ UNCHANGED <<fees, priced, paid>>

DeactivateCurrency(i) ==
    /\ mint[i] # NoMint
    /\ i \in active
    /\ active' = active \ {i}
    /\ UNCHANGED <<mint, op_rev, fees, priced, paid>>

(* create_contest: every slot with a fee is registered and active.  What    *)
(* ends a contest is left to ContestEscrow; here one lives on, the worst     *)
(* case for a stored index.                                                  *)
CreateContest(c, slots) ==
    /\ fees[c] = {}
    /\ slots # {}
    /\ \A i \in slots : mint[i] # NoMint /\ i \in active
    /\ fees' = [fees EXCEPT ![c] = slots]
    /\ priced' = [priced EXCEPT ![c] = [i \in Idx |-> IF i \in slots THEN mint[i] ELSE NoMint]]
    /\ UNCHANGED <<mint, active, op_rev, paid>>

(* enter_contest: the fee stored at the index is paid in the slot's mint.   *)
EnterContest(c, i) ==
    /\ mint[i] # NoMint
    /\ i \in active
    /\ i \in fees[c]
    /\ paid' = paid \cup {<<c, i, mint[i]>>}
    /\ UNCHANGED <<mint, active, op_rev, fees, priced>>

CurrencyNext ==
    \/ \E m \in Mints : RegisterCurrency(m)
    \/ \E i \in Idx : DeactivateCurrency(i)
    \/ \E c \in Contests, slots \in FeeSlots : CreateContest(c, slots)
    \/ \E c \in Contests, i \in Idx : EnterContest(c, i)

CurrencySpec == CurrencyInit /\ [][CurrencyNext]_currencyVars

-----------------------------------------------------------------------------
(* Safety *)

\* A fee set when the contest was created is only ever paid in the mint it was
\* meant in, however long the contest outlives changes of the registry
\* (deactivate_currency.rs:6-17, enter_contest.rs:136-166).
FeesPaidInTheirMint ==
    \A p \in paid : p[3] = priced[p[1]][p[2]] /\ p[3] # NoMint

\* One mint, one slot, one revenue account, and no holes: what an index, a mint
\* and an account say of a currency is the same thing, also when the registry
\* is full and slots in it are dead (register_currency.rs:90-113).
OneSlotPerMint ==
    /\ \A i, j \in Registered : mint[i] = mint[j] => i = j
    /\ op_rev = {mint[i] : i \in Registered}
    /\ \A i \in Registered : 1..i \subseteq Registered

CurrencyIInv ==
    /\ OneSlotPerMint
    /\ FeesPaidInTheirMint
    /\ active \subseteq Registered
    /\ \A c \in Contests : \A i \in fees[c] : i \in Registered /\ priced[c][i] = mint[i]
    /\ \A p \in paid : p[2] \in fees[p[1]]

(* Action properties *)

\* A slot once taken keeps its mint, and once dead stays dead: no sequence of
\* registrations revives a currency the signers gave up
\* (state.rs:78-81, deactivate_currency.rs:6-10).
SlotsAreForeverStep ==
    \A i \in Registered :
        /\ mint'[i] = mint[i]
        /\ i \in active' => i \in active
SlotsAreForever == [][SlotsAreForeverStep]_currencyVars
=============================================================================
