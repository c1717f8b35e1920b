--------------------------- MODULE ContestEscrow ---------------------------
(***************************************************************************)
(* The life of a contest and of the money in it: a creator funds a prize   *)
(* pool, players enter against a fee or an entry token until the derived   *)
(* lock, the vault signers settle or cancel, and the account is closed.    *)
(*                                                                         *)
(* A handler is one atomic transaction, hence one action: when any part of *)
(* it fails nothing happens.  Authorization is the subject of Governance;  *)
(* here each action says under which action id it is authorized, and       *)
(* `last` remembers it, because which id is looked up is itself behaviour: *)
(* amending a passed lock or a set conclusion costs more.                  *)
(***************************************************************************)
EXTENDS Integers, FiniteSets, Sequences, Functions

CONSTANTS
    Contests,      \* contest ids (SHA256 of a slug)
    Wallets,       \* players and creators
    Creators,      \* those of them that create contests
    EntryNums,     \* entry numbers a wallet may use
    Currencies,    \* registered currency slots
    PayoutMint,    \* the slot of the payout currency
    Tokens,        \* entry tokens already minted
    TokenOwner,    \* who each of them belongs to
    Seasons,       \* the seasons a contest can be bound to
    SeedSchedule,  \* each season's seeds per entry number; the last slot repeats
    Offers,        \* inputs of create_contest: [prize, fees, max, lock, season]
    Settlements,   \* inputs of settle_contest: sequences of rows
    Timestamps,    \* inputs of the two timestamp setters
    SweepAmounts,  \* inputs of sweep_operator_revenue
    Donors,        \* wallets that may transfer tokens into a pool
    Deactivable,   \* slots the signers may deactivate
    Endowment,     \* tokens each wallet starts with, per currency
    MaxTime,       \* bound on the clock
    MaxCreations   \* bound: how often a contest account may be created

ASSUME ContestAssumption ==
    /\ IsFiniteSet(Contests) /\ IsFiniteSet(Wallets) /\ IsFiniteSet(EntryNums)
    /\ IsFiniteSet(Tokens)
    /\ Wallets # {} /\ EntryNums \subseteq Nat
    /\ Seasons # {} /\ SeedSchedule \in [Seasons -> [0..4 -> Nat]]
    /\ PayoutMint \in Currencies
    /\ Creators \subseteq Wallets
    /\ TokenOwner \in [Tokens -> Wallets]
    /\ Offers \subseteq [prize : Nat, fees : [Currencies -> Nat], max : Nat, lock : Int,
                         season : Seasons]
    /\ Timestamps \subseteq Int
    /\ SweepAmounts \subseteq Nat
    /\ Donors \subseteq Wallets /\ Deactivable \subseteq Currencies
    /\ Endowment \in Nat /\ MaxTime \in Nat \ {0} /\ MaxCreations \in Nat

VARIABLES
    now,         \* Clock::get().unix_timestamp
    paused,      \* VaultState.paused
    active,      \* the currency slots whose `active` flag is set
    contest,     \* the Contest accounts
    pool,        \* the prize-pool token account of each contest
    entry,       \* the ContestEntry accounts
    player,      \* the counters of each UserAccount
    consumed,    \* the entry tokens consumed
    wallet,      \* the token accounts of the wallets, per currency
    opRev,       \* the operator-revenue token accounts, per currency
    treasury,    \* what the treasury received, per currency
    created,     \* history: how often each contest account was created
    last         \* history: the action id the last step was authorized under

money == <<wallet, opRev, treasury>>
vars == <<now, paused, active, contest, pool, entry, player, consumed,
          money, created, last>>

EntryKeys == Contests \X Wallets \X EntryNums
Statuses == {"none", "Open", "Settled", "Cancelled"}

NoContest ==
    [status |-> "none", creator |-> CHOOSE w \in Wallets : TRUE, prize_pool |-> 0,
     fee |-> [k \in Currencies |-> 0], entry_fees |-> [k \in Currencies |-> 0],
     max_entries |-> 0, current_entries |-> 0,
     lock_timestamp |-> 0, conclusion_timestamp |-> 0,
     season_id |-> CHOOSE s \in Seasons : TRUE]

\* The account itself stores neither how its entry was paid nor its season:
\* `paid` and `season` are history.
NoEntry == [status |-> "none", rank |-> 0, payout |-> 0, paid |-> "none",
            season |-> CHOOSE s \in Seasons : TRUE]

ContestAccounts ==
    [status : Statuses, creator : Wallets, prize_pool : Nat,
     fee : [Currencies -> Nat], entry_fees : [Currencies -> Nat],
     max_entries : Nat, current_entries : Nat,
     lock_timestamp : Int, conclusion_timestamp : Int, season_id : Seasons]

EntryAccounts ==
    [status : {"none", "Active", "Won", "Lost"}, rank : Nat, payout : Nat,
     paid : {"none", "fee", "token"}, season : Seasons]

Counters == [seeds : Nat, entries : Nat, total_won : Nat, cashes : Nat, wins : Nat]

TypeOK ==
    /\ now \in 1..MaxTime
    /\ paused \in BOOLEAN
    /\ active \subseteq Currencies
    /\ contest \in [Contests -> ContestAccounts]
    /\ pool \in [Contests -> Nat]
    /\ entry \in [EntryKeys -> EntryAccounts]
    /\ player \in [Wallets -> Counters]
    /\ consumed \subseteq Tokens
    /\ wallet \in [Wallets -> [Currencies -> Nat]]
    /\ opRev \in [Currencies -> Nat]
    /\ treasury \in [Currencies -> Nat]
    /\ created \in [Contests -> 0..MaxCreations]
    /\ last \in {"none", "create", "enter", "settle", "cancel", "close", "lock",
                 "reopen", "conclude", "amend", "sweep", "deactivate"}

Init ==
    /\ now = 1 /\ paused = FALSE /\ active = Currencies
    /\ contest = [c \in Contests |-> NoContest]
    /\ pool = [c \in Contests |-> 0]
    /\ entry = [e \in EntryKeys |-> NoEntry]
    /\ player = [w \in Wallets |->
           [seeds |-> 0, entries |-> 0, total_won |-> 0, cashes |-> 0, wins |-> 0]]
    /\ consumed = {}
    /\ wallet = [w \in Wallets |-> [k \in Currencies |-> Endowment]]
    /\ opRev = [k \in Currencies |-> 0]
    /\ treasury = [k \in Currencies |-> 0]
    /\ created = [c \in Contests |-> 0]
    /\ last = "none"

-----------------------------------------------------------------------------
(* Derived conditions the handlers share *)

\* The derived lock: no lock scheduled, or not reached yet.
WindowOpen(c) ==
    contest[c].lock_timestamp = 0 \/ now < contest[c].lock_timestamp

LockPassed(c) ==
    contest[c].lock_timestamp # 0 /\ now >= contest[c].lock_timestamp

ConclusionPassed(c) ==
    contest[c].conclusion_timestamp # 0 /\ now >= contest[c].conclusion_timestamp

-----------------------------------------------------------------------------
(* create_contest: the account and its pool are created and funded *)
CreateContest(c, creator, offer) ==
    /\ contest[c].status = "none"
    /\ created[c] < MaxCreations
    /\ \A k \in Currencies : offer.fees[k] > 0 => k \in active
    /\ offer.prize > 0 \/ \E k \in Currencies : offer.fees[k] > 0
    /\ wallet[creator][PayoutMint] >= offer.prize
    /\ contest' = [contest EXCEPT ![c] =
           [status |-> "Open", creator |-> creator, prize_pool |-> offer.prize,
            fee |-> offer.fees, entry_fees |-> [k \in Currencies |-> 0],
            max_entries |-> offer.max, current_entries |-> 0,
            lock_timestamp |-> offer.lock, conclusion_timestamp |-> 0,
            season_id |-> offer.season]]
    /\ wallet' = [wallet EXCEPT ![creator][PayoutMint] = @ - offer.prize]
    /\ pool' = [pool EXCEPT ![c] = offer.prize]
    /\ created' = [created EXCEPT ![c] = @ + 1]
    /\ last' = "create"
    /\ UNCHANGED <<now, paused, active, entry, player, consumed, opRev, treasury>>

\* Entry numbers past the schedule earn what its last slot says.
seeds_for(s, n) == SeedSchedule[s][IF n =< 4 THEN n ELSE 4]

\* What both ways of entering share: the entry account is created Active and
\* the contest and the player count it.
Enter(c, w, n, paid) ==
    /\ contest[c].status = "Open"
    /\ contest[c].current_entries < contest[c].max_entries
    /\ entry[<<c, w, n>>].status = "none"
    /\ ~paused
    /\ WindowOpen(c)
    /\ entry' = [entry EXCEPT ![<<c, w, n>>] =
           [NoEntry EXCEPT !.status = "Active", !.paid = paid, !.season = contest[c].season_id]]
    /\ player' = [player EXCEPT ![w].entries = @ + 1,
                                ![w].seeds = @ + seeds_for(contest[c].season_id, n)]
    /\ last' = "enter"
    /\ UNCHANGED <<now, paused, active, pool, treasury, created>>

\* Faulty variant: the fee is credited to the payout currency's account.
EnterPaysPayoutMint(c, w, n, k) ==
    /\ Enter(c, w, n, "fee")
    /\ k \in active
    /\ contest[c].fee[k] > 0
    /\ wallet[w][k] >= contest[c].fee[k]
    /\ wallet' = [wallet EXCEPT ![w][k] = @ - contest[c].fee[k]]
    /\ opRev' = [opRev EXCEPT ![PayoutMint] = @ + contest[c].fee[k]]
    /\ contest' = [contest EXCEPT ![c].current_entries = @ + 1,
                                  ![c].entry_fees[k] = @ + contest[c].fee[k]]
    /\ UNCHANGED consumed

EnterContest(c, w, n, k) ==
    /\ Enter(c, w, n, "fee")
    /\ k \in active
    /\ contest[c].fee[k] > 0
    /\ wallet[w][k] >= contest[c].fee[k]
    /\ wallet' = [wallet EXCEPT ![w][k] = @ - contest[c].fee[k]]
    /\ opRev' = [opRev EXCEPT ![k] = @ + contest[c].fee[k]]
    /\ contest' = [contest EXCEPT ![c].current_entries = @ + 1,
                                  ![c].entry_fees[k] = @ + contest[c].fee[k]]
    /\ UNCHANGED consumed

\* Faulty variant: a token can be spent again.
OwnedToken(t, w) == TokenOwner[t] = w

Spendable(t, w) == TokenOwner[t] = w /\ t \notin consumed

EnterContestWithToken(c, w, n, t) ==
    /\ Enter(c, w, n, "token")
    /\ Spendable(t, w)
    /\ consumed' = consumed \cup {t}
    /\ contest' = [contest EXCEPT ![c].current_entries = @ + 1]
    /\ UNCHANGED <<wallet, opRev>>

(* settle_contest: a list of rows [wallet, num, rank, payout], each of which *)
(* pays the wallet from the pool, credits its counters and grades its entry. *)
(* The list need not name every entry.                                       *)
RowKey(c, row) == <<c, row.wallet, row.num>>
Paid(rows, I) == SumFunctionOnSet([i \in I |-> rows[i].payout], I)

\* A list is finite, and its ranks and payouts are numbers.
ASSUME SettlementAssumption ==
    Settlements \subseteq Seq([wallet : Wallets, num : EntryNums, rank : Nat, payout : Nat])

\* The gate on grading.
GradingOpen(c) == LockPassed(c) \/ ConclusionPassed(c)

DistinctEntries(c, rows) ==
    \A i, j \in DOMAIN rows : i # j => RowKey(c, rows[i]) # RowKey(c, rows[j])

\* Faulty variant: a graded entry is graded again.
EntryExists(e) == entry[e].status # "none"

Gradable(e) == entry[e].status = "Active"

\* A player's counters after the rows I, all of them its own.
Credited(p, rows, I) ==
    [p EXCEPT !.total_won = @ + Paid(rows, I),
              !.cashes = @ + Cardinality({i \in I : rows[i].payout > 0}),
              !.wins = @ + Cardinality({i \in I : rows[i].rank = 1})]

Graded(e, row) ==
    [entry[e] EXCEPT !.rank = row.rank, !.payout = row.payout,
                     !.status = IF row.payout > 0 THEN "Won" ELSE "Lost"]

SettleContest(c, rows) ==
    LET all == DOMAIN rows
        of(w) == {i \in all : rows[i].wallet = w}
        row_of(e) == {i \in all : RowKey(c, rows[i]) = e}
    IN  /\ contest[c].status = "Open"
        /\ GradingOpen(c)
        /\ Paid(rows, all) =< contest[c].prize_pool
        /\ DistinctEntries(c, rows)
        /\ \A i \in all : Gradable(RowKey(c, rows[i]))
        /\ Paid(rows, all) =< pool[c]
        /\ pool' = [pool EXCEPT ![c] = @ - Paid(rows, all)]
        /\ wallet' = [w \in Wallets |->
               [wallet[w] EXCEPT ![PayoutMint] = @ + Paid(rows, of(w))]]
        /\ player' = [w \in Wallets |-> Credited(player[w], rows, of(w))]
        /\ entry' = [e \in EntryKeys |->
               IF row_of(e) = {} THEN entry[e] ELSE Graded(e, rows[CHOOSE i \in row_of(e) : TRUE])]
        /\ contest' = [contest EXCEPT ![c].status = "Settled"]
        /\ last' = "settle"
        /\ UNCHANGED <<now, paused, active, consumed, opRev, treasury, created>>

\* Faulty variant: the refund leaves the contest open.
RefundOnly(c) ==
    /\ contest[c].status = "Open"
    /\ wallet' = [wallet EXCEPT ![contest[c].creator][PayoutMint] = @ + pool[c]]
    /\ pool' = [pool EXCEPT ![c] = 0]
    /\ last' = "cancel"
    /\ UNCHANGED <<now, paused, active, contest, entry, player, consumed, opRev, treasury, created>>

(* cancel_contest: the whole balance of the pool, not the stored prize, goes *)
(* back to the creator.                                                      *)
CancelContest(c) ==
    /\ contest[c].status = "Open"
    /\ wallet' = [wallet EXCEPT ![contest[c].creator][PayoutMint] = @ + pool[c]]
    /\ pool' = [pool EXCEPT ![c] = 0]
    /\ contest' = [contest EXCEPT ![c].status = "Cancelled"]
    /\ last' = "cancel"
    /\ UNCHANGED <<now, paused, active, entry, player, consumed, opRev, treasury, created>>

(* close_contest: what is left in the pool becomes operator revenue and both *)
(* accounts are closed.  The entry accounts stay.                            *)
CloseContest(c) ==
    /\ contest[c].status \in {"Settled", "Cancelled"}
    /\ opRev' = [opRev EXCEPT ![PayoutMint] = @ + pool[c]]
    /\ pool' = [pool EXCEPT ![c] = 0]
    /\ contest' = [contest EXCEPT ![c] = NoContest]
    /\ last' = "close"
    /\ UNCHANGED <<now, paused, active, entry, player, consumed, wallet, treasury, created>>

\* Neither setter touches a contest that is settled, cancelled or concluded.
Reschedulable(c) == contest[c].status = "Open" /\ ~ConclusionPassed(c)

\* Faulty variant: the lock lies in the future, as the conclusion must.
FutureLock(c, t) ==
    /\ t # 0 => t > now
    /\ t # 0 /\ contest[c].conclusion_timestamp # 0 => t < contest[c].conclusion_timestamp

\* A set lock precedes a set conclusion; a lock in the past is allowed.
LockAccepted(c, t) ==
    /\ t >= 0
    /\ t # 0 /\ contest[c].conclusion_timestamp # 0 => t < contest[c].conclusion_timestamp

\* Faulty variant: clearing the lock is a routine reschedule.
RoutineLock(c) == "lock"

\* The action id looked up: escalated once the lock has passed.
LockAction(c) == IF LockPassed(c) THEN "reopen" ELSE "lock"

SetContestLockTime(c, t) ==
    /\ Reschedulable(c)
    /\ LockAccepted(c, t)
    /\ contest' = [contest EXCEPT ![c].lock_timestamp = t]
    /\ last' = LockAction(c)
    /\ UNCHANGED <<now, paused, active, pool, entry, player, consumed, money, created>>

(* set_contest_conclusion_time: a set conclusion lies in the future and      *)
(* after a set lock; changing one already set escalates to the amend id.     *)
SetContestConclusionTime(c, t) ==
    /\ Reschedulable(c)
    /\ t >= 0
    /\ t # 0 => t > now /\ (contest[c].lock_timestamp # 0 => t > contest[c].lock_timestamp)
    /\ contest' = [contest EXCEPT ![c].conclusion_timestamp = t]
    /\ last' = IF contest[c].conclusion_timestamp # 0 THEN "amend" ELSE "conclude"
    /\ UNCHANGED <<now, paused, active, pool, entry, player, consumed, money, created>>

Sweepable(k, amount) == opRev[k] > 0 /\ amount =< opRev[k]

(* sweep_operator_revenue: an amount of zero means everything.               *)
SweepOperatorRevenue(k, amount) ==
    LET to_send == IF amount = 0 THEN opRev[k] ELSE amount
    IN  /\ Sweepable(k, amount)
        /\ opRev' = [opRev EXCEPT ![k] = @ - to_send]
        /\ treasury' = [treasury EXCEPT ![k] = @ + to_send]
        /\ last' = "sweep"
        /\ UNCHANGED <<now, paused, active, contest, pool, entry, player, consumed,
                       wallet, created>>

(* deactivate_currency: a slot is never activated again.                     *)
DeactivateCurrency(k) ==
    /\ k \in active
    /\ active' = active \ {k}
    /\ last' = "deactivate"
    /\ UNCHANGED <<now, paused, contest, pool, entry, player, consumed, money, created>>

-----------------------------------------------------------------------------
(* The environment *)

\* pause and unpause, whose authority is the subject of Governance.
SetPaused ==
    /\ paused' = ~paused
    /\ UNCHANGED <<now, active, contest, pool, entry, player, consumed, money, created, last>>

\* Anyone may transfer tokens into a prize-pool account.
DonateToPool(w, c) ==
    /\ contest[c].status # "none"
    /\ wallet[w][PayoutMint] > 0
    /\ wallet' = [wallet EXCEPT ![w][PayoutMint] = @ - 1]
    /\ pool' = [pool EXCEPT ![c] = @ + 1]
    /\ UNCHANGED <<now, paused, active, contest, entry, player, consumed, opRev,
                   treasury, created, last>>

Tick ==
    /\ now < MaxTime
    /\ now' = now + 1
    /\ UNCHANGED <<paused, active, contest, pool, entry, player, consumed, money,
                   created, last>>

Next ==
    \/ \E c \in Contests, w \in Creators, o \in Offers : CreateContest(c, w, o)
    \/ \E c \in Contests, w \in Wallets, n \in EntryNums, k \in Currencies :
           EnterContest(c, w, n, k)
    \/ \E c \in Contests, w \in Wallets, n \in EntryNums, t \in Tokens :
           EnterContestWithToken(c, w, n, t)
    \/ \E c \in Contests, rows \in Settlements : SettleContest(c, rows)
    \/ \E c \in Contests : CancelContest(c)
    \/ \E c \in Contests : CloseContest(c)
    \/ \E c \in Contests, t \in Timestamps : SetContestLockTime(c, t)
    \/ \E c \in Contests, t \in Timestamps : SetContestConclusionTime(c, t)
    \/ \E k \in Currencies, amount \in SweepAmounts : SweepOperatorRevenue(k, amount)
    \/ \E k \in Deactivable : DeactivateCurrency(k)
    \/ SetPaused
    \/ \E w \in Donors, c \in Contests : DonateToPool(w, c)
    \/ Tick

Spec == Init /\ [][Next]_vars

-----------------------------------------------------------------------------
(* Safety *)

\* An open contest can pay its whole prize, however entries, donations, sweeps
\* and the life of other contests interleave (create_contest.rs:184-191,
\* settle_contest.rs:150-159).
PoolBacksPrize ==
    \A c \in Contests : contest[c].status = "Open" => pool[c] >= contest[c].prize_pool

\* A player's counters say exactly what the entry accounts say, across
\* settlements, cancellations, closed accounts and contests re-created under
\* another season; each entry's seeds are those of the season its contest had
\* when it was made (settle_contest.rs:235-283, enter_contest.rs:196-214).
EntriesOf(w) == {e \in EntryKeys : e[2] = w /\ entry[e].status # "none"}

CountersReconcile ==
    \A w \in Wallets :
        LET mine == EntriesOf(w)
        IN  /\ player[w].entries = Cardinality(mine)
            /\ player[w].seeds = SumFunctionOnSet(
                   [e \in mine |-> seeds_for(entry[e].season, e[3])], mine)
            /\ player[w].total_won = SumFunctionOnSet([e \in mine |-> entry[e].payout], mine)
            /\ player[w].cashes = Cardinality({e \in mine : entry[e].status = "Won"})
            /\ player[w].wins = Cardinality({e \in mine : entry[e].rank = 1})

\* The fees a live contest reports are in the revenue account or were swept to
\* the treasury: no other path drains operator revenue.
FeesAreRevenue ==
    \A k \in Currencies :
        opRev[k] + treasury[k]
            >= SumFunctionOnSet([c \in Contests |-> contest[c].entry_fees[k]], Contests)

\* Each consumed token stands behind exactly one entry of its owner.
TokensFundEntries ==
    \A w \in Wallets :
        Cardinality({t \in consumed : TokenOwner[t] = w})
            = Cardinality({e \in EntriesOf(w) : entry[e].paid = "token"})

\* While both are set, the lock precedes the conclusion, whichever of the two
\* setters ran last (set_contest_lock_time.rs:79-82,
\* set_contest_conclusion_time.rs:81-87).
LockPrecedesConclusion ==
    \A c \in Contests :
        contest[c].lock_timestamp # 0 /\ contest[c].conclusion_timestamp # 0
            => contest[c].lock_timestamp < contest[c].conclusion_timestamp

\* No schedule strands the prize and the entries of an open contest: either a
\* settlement is let through now, or the council may set a lock that lets one
\* through at once (settle_contest.rs:138-147, set_contest_lock_time.rs:66-82).
NeverStranded ==
    \A c \in Contests :
        contest[c].status = "Open" =>
            \/ GradingOpen(c)
            \/ \E t \in 1..now : Reschedulable(c) /\ LockAccepted(c, t)

\* The money of a contest does what Escrow says, whatever else happens.
Promise == INSTANCE Escrow WITH
    phase <- [c \in Contests |-> contest[c].status],
    owed <- [c \in Contests |-> contest[c].prize_pool],
    held <- pool,
    Prizes <- {o.prize : o \in Offers}
ImplementsEscrow == Promise!Spec

(* Action properties *)

Exists(c) == contest[c].status # "none"

\* Once its lock has passed, a contest opens for entries again only under the
\* escalated re-open authority, never by a routine reschedule, a conclusion,
\* or the clock (set_contest_lock_time.rs:15-27).
ClosedWindowStaysClosedStep ==
    \A c \in Contests :
        (contest[c].status = "Open" /\ LockPassed(c) /\ ~LockPassed(c)' /\ Exists(c)')
            => last' = "reopen"
ClosedWindowStaysClosed == [][ClosedWindowStaysClosedStep]_vars

\* A contest that has concluded keeps both its timestamps for as long as the
\* account lives: no setter can postpone or re-open it.
ConcludedIsFinalStep ==
    \A c \in Contests :
        (Exists(c) /\ ConclusionPassed(c) /\ Exists(c)') =>
            /\ contest'[c].lock_timestamp = contest[c].lock_timestamp
            /\ contest'[c].conclusion_timestamp = contest[c].conclusion_timestamp
ConcludedIsFinal == [][ConcludedIsFinalStep]_vars

\* A contest with a lock is never graded before its lock has passed, also when
\* it is the conclusion that lets the settlement through.
GradedAfterLockStep ==
    \A c \in Contests :
        (contest[c].status = "Open" /\ contest'[c].status = "Settled"
             /\ contest[c].lock_timestamp # 0) => LockPassed(c)
GradedAfterLock == [][GradedAfterLockStep]_vars

\* A graded entry is never graded again and never forgotten, not even by a
\* contest re-created under the same id (settle_contest.rs:262-283).
GradedEntryIsFinalStep ==
    \A e \in EntryKeys :
        entry[e].status \in {"Won", "Lost"} => entry'[e] = entry[e]
GradedEntryIsFinal == [][GradedEntryIsFinalStep]_vars

\* Together: an entry is graded once, after the lock of its contest, and stays.
GradingStands == [][GradedAfterLockStep /\ GradedEntryIsFinalStep]_vars

\* Together: no routine call takes back a deadline that has passed.
DeadlinesStand == [][ClosedWindowStaysClosedStep /\ ConcludedIsFinalStep]_vars
=============================================================================
