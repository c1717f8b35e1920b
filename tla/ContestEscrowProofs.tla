------------------------ MODULE ContestEscrowProofs ------------------------
(***************************************************************************)
(* The prize, its clock and its abstraction, the fees, and the counters    *)
(* and tokens that must agree with the entries, for every set of contests, *)
(* players, seasons, offers, settlement lists and timestamps.              *)
(***************************************************************************)
EXTENDS ContestEscrow, SumTheorems, FiniteSetTheorems, TLAPS

-----------------------------------------------------------------------------
(* Type correctness *)

\* The contents of an absent account are of the accounts' types.
LEMMA NoAccounts == NoContest \in ContestAccounts /\ NoEntry \in EntryAccounts
    <1>1. (CHOOSE w \in Wallets : TRUE) \in Wallets /\ (CHOOSE s \in Seasons : TRUE) \in Seasons
        BY ContestAssumption
    <1>. QED
        BY <1>1 DEF NoContest, NoEntry, ContestAccounts, EntryAccounts, Statuses

\* The state at deployment is of its type.
LEMMA InitTypeOK == Init => TypeOK
    <1>. SUFFICES ASSUME Init PROVE TypeOK
        OBVIOUS
    <1>1. contest \in [Contests -> ContestAccounts] /\ entry \in [EntryKeys -> EntryAccounts]
        <2>. HIDE DEF ContestAccounts, EntryAccounts, NoContest, NoEntry
        <2>. QED
            BY NoAccounts DEF Init
    <1>2. player \in [Wallets -> Counters] /\ wallet \in [Wallets -> [Currencies -> Nat]]
        BY ContestAssumption DEF Init, Counters
    <1>3. created \in [Contests -> 0..MaxCreations] /\ now \in 1..MaxTime
        BY ContestAssumption DEF Init
    <1>. QED
        BY <1>1, <1>2, <1>3 DEF Init, TypeOK

\* A settlement list has rows of its type, finitely many.
LEMMA RowsOfAList ==
    ASSUME NEW rows \in Settlements
    PROVE  /\ \A i \in DOMAIN rows : /\ rows[i].wallet \in Wallets /\ rows[i].num \in EntryNums
                                     /\ rows[i].rank \in Nat /\ rows[i].payout \in Nat
           /\ \A I \in SUBSET DOMAIN rows : IsFiniteSet(I)
    <1>1. rows \in Seq([wallet : Wallets, num : EntryNums, rank : Nat, payout : Nat])
        BY SettlementAssumption
    <1>2. DOMAIN rows = 1..Len(rows) /\ Len(rows) \in Nat
        BY <1>1
    <1>3. \A i \in DOMAIN rows :
              rows[i] \in [wallet : Wallets, num : EntryNums, rank : Nat, payout : Nat]
        <2>1. \A S : rows \in Seq(S) => \A i \in 1..Len(rows) : rows[i] \in S
            OBVIOUS
        <2>. QED
            BY <1>1, <1>2, <2>1
    <1>4. IsFiniteSet(1..Len(rows))
        BY <1>2, FS_Interval
    <1>. QED
        BY <1>2, <1>3, <1>4, FS_Subset

\* A part of a settlement list has a size, and what it pays is a number.
LEMMA PartOfAList ==
    ASSUME NEW rows \in Settlements, NEW I \in SUBSET DOMAIN rows
    PROVE  IsFiniteSet(I) /\ Cardinality(I) \in Nat /\ Paid(rows, I) \in Nat
    <1>. DEFINE pays == [i \in I |-> rows[i].payout]
    <1>1. IsFiniteSet(I) /\ \A i \in I : pays[i] \in Nat
        BY RowsOfAList
    <1>. HIDE DEF pays
    <1>2. SumFunctionOnSet(pays, I) \in Nat
        BY <1>1, SumNatural
    <1>. QED
        BY <1>1, <1>2, FS_CardinalityType DEF Paid, pays

\* A counter may be set to any number.
LEMMA CounterFields ==
    ASSUME NEW p \in Counters, NEW a \in Nat
    PROVE  /\ [p EXCEPT !.entries = a] \in Counters
           /\ [p EXCEPT !.seeds = a] \in Counters
           /\ [p EXCEPT !.total_won = a] \in Counters
           /\ [p EXCEPT !.cashes = a] \in Counters
           /\ [p EXCEPT !.wins = a] \in Counters
           /\ p.entries \in Nat /\ p.seeds \in Nat /\ p.total_won \in Nat
           /\ p.cashes \in Nat /\ p.wins \in Nat
BY DEF Counters

\* Every entry number is rewarded in every season.
LEMMA SeedsTyped ==
    ASSUME NEW s \in Seasons, NEW n \in EntryNums
    PROVE  seeds_for(s, n) \in Nat
    <1>1. n \in Nat /\ SeedSchedule[s] \in [0..4 -> Nat]
        BY ContestAssumption
    <1>. QED
        BY <1>1 DEF seeds_for

\* Both ways of entering write a well-typed entry and well-typed counters.
LEMMA EnterTyped ==
    ASSUME TypeOK, NEW c \in Contests, NEW w \in Wallets, NEW n \in EntryNums,
           NEW paid \in {"fee", "token"}, Enter(c, w, n, paid)
    PROVE  /\ entry' \in [EntryKeys -> EntryAccounts]
           /\ player' \in [Wallets -> Counters]
           /\ last' = "enter"
           /\ UNCHANGED <<now, paused, active, pool, treasury, created>>
    <1>0. contest[c].season_id \in Seasons
        BY DEF TypeOK, ContestAccounts
    <1>1. [NoEntry EXCEPT !.status = "Active", !.paid = paid,
                          !.season = contest[c].season_id] \in EntryAccounts
        BY <1>0, NoAccounts DEF NoEntry, EntryAccounts
    <1>2. entry' \in [EntryKeys -> EntryAccounts]
        BY <1>1 DEF Enter, TypeOK
    <1>3. seeds_for(contest[c].season_id, n) \in Nat
        BY <1>0, SeedsTyped
    <1>4. player' \in [Wallets -> Counters]
        <2>. DEFINE after == [player[w] EXCEPT !.entries = @ + 1, !.seeds = @ + seeds_for(contest[c].season_id, n)]
        <2>1. player[w] \in Counters
            BY DEF TypeOK
        <2>2. after \in Counters
            <3>1. player[w].entries + 1 \in Nat /\ player[w].seeds + seeds_for(contest[c].season_id, n) \in Nat
                BY <1>3, <2>1 DEF Counters
            <3>2. [player[w] EXCEPT !.entries = player[w].entries + 1] \in Counters
                BY <2>1, <3>1, CounterFields
            <3>. QED
                BY <3>1, <3>2, CounterFields
        <2>3. player' = [player EXCEPT ![w] = after]
            BY DEF Enter, TypeOK, Counters
        <2>. HIDE DEF after
        <2>. QED
            BY <2>2, <2>3 DEF TypeOK
    <1>. QED
        BY <1>2, <1>4 DEF Enter

\* Writing one account of a map of accounts keeps its type.
LEMMA OneContest ==
    ASSUME TypeOK, NEW c \in Contests, NEW new \in ContestAccounts,
           contest' = [contest EXCEPT ![c] = new]
    PROVE  contest' \in [Contests -> ContestAccounts]
BY DEF TypeOK

\* Crediting and debiting a wallet within its balance.
LEMMA OneBalance ==
    ASSUME TypeOK, NEW w \in Wallets, NEW k \in Currencies, NEW b \in Nat,
           wallet' = [wallet EXCEPT ![w][k] = b]
    PROVE  wallet' \in [Wallets -> [Currencies -> Nat]]
BY DEF TypeOK

\* A settlement and a cancellation write the status of one contest only.
LEMMA OneStatus ==
    ASSUME TypeOK, NEW c \in Contests, NEW new \in {"Settled", "Cancelled"},
           contest' = [contest EXCEPT ![c].status = new]
    PROVE  contest' \in [Contests -> ContestAccounts]
    <1>1. contest[c] \in ContestAccounts
        BY DEF TypeOK
    <1>2. [contest[c] EXCEPT !.status = new] \in ContestAccounts
        BY <1>1 DEF ContestAccounts, Statuses
    <1>3. contest' = [contest EXCEPT ![c] = [contest[c] EXCEPT !.status = new]]
        OBVIOUS
    <1>. QED
        BY <1>2, <1>3, OneContest

\* Settling writes well-typed balances, counters and entries.
LEMMA SettleTyped ==
    ASSUME TypeOK, NEW c \in Contests, NEW rows \in Settlements, SettleContest(c, rows)
    PROVE  TypeOK'
    <1>. DEFINE all == DOMAIN rows
                of(w) == {i \in all : rows[i].wallet = w}
                row_of(e) == {i \in all : RowKey(c, rows[i]) = e}
    <1>1. \A I \in SUBSET all : Paid(rows, I) \in Nat
        BY PartOfAList
    <1>2. \A i \in all : rows[i].rank \in Nat /\ rows[i].payout \in Nat
        BY RowsOfAList
    <1>3. pool' \in [Contests -> Nat]
        <2>1. pool' = [pool EXCEPT ![c] = @ - Paid(rows, all)] /\ Paid(rows, all) =< pool[c]
            BY DEF SettleContest
        <2>2. Paid(rows, all) \in Nat /\ pool[c] \in Nat
            BY <1>1 DEF TypeOK
        <2>. HIDE DEF all
        <2>. QED
            BY <2>1, <2>2 DEF TypeOK
    <1>4. wallet' \in [Wallets -> [Currencies -> Nat]]
        <2>1. wallet' = [w \in Wallets |->
                   [wallet[w] EXCEPT ![PayoutMint] = @ + Paid(rows, of(w))]]
            BY DEF SettleContest
        <2>2. \A w \in Wallets : Paid(rows, of(w)) \in Nat
            BY <1>1
        <2>3. ASSUME NEW w \in Wallets, NEW gain \in Nat
              PROVE  [wallet[w] EXCEPT ![PayoutMint] = @ + gain] \in [Currencies -> Nat]
            BY ContestAssumption DEF TypeOK
        <2>. HIDE DEF of
        <2>. QED
            BY <2>1, <2>2, <2>3
    <1>5. player' \in [Wallets -> Counters]
        <2>1. player' = [w \in Wallets |-> Credited(player[w], rows, of(w))]
            BY DEF SettleContest
        <2>2. ASSUME NEW w \in Wallets PROVE Credited(player[w], rows, of(w)) \in Counters
            <3>. DEFINE cashed == {i \in of(w) : rows[i].payout > 0}
                        won == {i \in of(w) : rows[i].rank = 1}
            <3>1. Paid(rows, of(w)) \in Nat
                BY <1>1
            <3>2. Cardinality(cashed) \in Nat /\ Cardinality(won) \in Nat
                <4>1. cashed \in SUBSET DOMAIN rows /\ won \in SUBSET DOMAIN rows
                    OBVIOUS
                <4>. QED
                    BY <4>1, PartOfAList
            <3>3. player[w] \in Counters
                BY DEF TypeOK
            <3>4. Credited(player[w], rows, of(w)) =
                    [player[w] EXCEPT !.total_won = @ + Paid(rows, of(w)),
                                      !.cashes = @ + Cardinality(cashed),
                                      !.wins = @ + Cardinality(won)]
                BY DEF Credited
            <3>5. ASSUME NEW a \in Nat, NEW b \in Nat, NEW d \in Nat
                  PROVE  [player[w] EXCEPT !.total_won = @ + a, !.cashes = @ + b,
                                           !.wins = @ + d] \in Counters
                <4>1. /\ player[w].total_won + a \in Nat /\ player[w].cashes + b \in Nat
                      /\ player[w].wins + d \in Nat
                    BY <3>3 DEF Counters
                <4>2. [player[w] EXCEPT !.total_won = player[w].total_won + a] \in Counters
                    BY <3>3, <4>1, CounterFields
                <4>3. [player[w] EXCEPT !.total_won = player[w].total_won + a,
                                        !.cashes = player[w].cashes + b] \in Counters
                    BY <4>1, <4>2, CounterFields
                <4>. QED
                    BY <4>1, <4>3, CounterFields
            <3>. HIDE DEF of, cashed, won
            <3>6. [player[w] EXCEPT !.total_won = @ + Paid(rows, of(w)),
                                    !.cashes = @ + Cardinality(cashed),
                                    !.wins = @ + Cardinality(won)] \in Counters
                BY <3>1, <3>2, <3>5
            <3>. QED
                BY <3>4, <3>6
        <2>. QED
            BY <2>1, <2>2
    <1>6. entry' \in [EntryKeys -> EntryAccounts]
        <2>1. entry' = [e \in EntryKeys |-> IF row_of(e) = {} THEN entry[e]
                            ELSE Graded(e, rows[CHOOSE i \in row_of(e) : TRUE])]
            BY DEF SettleContest
        <2>2. ASSUME NEW e \in EntryKeys, NEW i \in all
              PROVE  Graded(e, rows[i]) \in EntryAccounts
            <3>1. rows[i].rank \in Nat /\ rows[i].payout \in Nat
                BY <1>2
            <3>2. entry[e] \in EntryAccounts
                BY DEF TypeOK
            <3>. QED
                BY <3>1, <3>2 DEF Graded, EntryAccounts
        <2>3. \A e \in EntryKeys : row_of(e) # {} => (CHOOSE i \in row_of(e) : TRUE) \in all
            OBVIOUS
        <2>4. \A e \in EntryKeys : entry[e] \in EntryAccounts
            BY DEF TypeOK
        <2>. HIDE DEF row_of, all
        <2>. QED
            BY <2>1, <2>2, <2>3, <2>4
    <1>7. contest' \in [Contests -> ContestAccounts]
        <2>1. contest' = [contest EXCEPT ![c].status = "Settled"]
            BY DEF SettleContest
        <2>. QED
            BY <2>1, OneStatus
    <1>8. last' = "settle" /\ UNCHANGED <<now, paused, active, consumed, opRev, treasury, created>>
        BY DEF SettleContest
    <1>. QED
        BY <1>3, <1>4, <1>5, <1>6, <1>7, <1>8 DEF TypeOK

\* create_contest writes a contest account of its type.
LEMMA CreateTyped ==
    ASSUME TypeOK, NEW c \in Contests, NEW w \in Creators, NEW o \in Offers,
           CreateContest(c, w, o)
    PROVE  TypeOK'
    <1>1. w \in Wallets /\ PayoutMint \in Currencies
          /\ o \in [prize : Nat, fees : [Currencies -> Nat], max : Nat, lock : Int,
                   season : Seasons]
        BY ContestAssumption
    <1>2. [status |-> "Open", creator |-> w, prize_pool |-> o.prize,
           fee |-> o.fees, entry_fees |-> [k \in Currencies |-> 0],
           max_entries |-> o.max, current_entries |-> 0,
           lock_timestamp |-> o.lock, conclusion_timestamp |-> 0,
           season_id |-> o.season] \in ContestAccounts
        BY <1>1 DEF ContestAccounts, Statuses
    <1>3. contest' \in [Contests -> ContestAccounts]
        BY <1>2, OneContest DEF CreateContest
    <1>4. wallet' \in [Wallets -> [Currencies -> Nat]]
        <2>1. wallet[w][PayoutMint] - o.prize \in Nat
            BY <1>1 DEF CreateContest, TypeOK
        <2>. QED
            BY <1>1, <2>1, OneBalance DEF CreateContest
    <1>5. pool' \in [Contests -> Nat] /\ created' \in [Contests -> 0..MaxCreations]
        BY <1>1, ContestAssumption DEF CreateContest, TypeOK
    <1>. QED
        BY <1>3, <1>4, <1>5 DEF CreateContest, TypeOK

\* enter_contest writes an entry and counters of their types.
LEMMA EnterContestTyped ==
    ASSUME TypeOK, NEW c \in Contests, NEW w \in Wallets, NEW n \in EntryNums,
           NEW k \in Currencies, EnterContest(c, w, n, k)
    PROVE  TypeOK'
    <1>1. /\ entry' \in [EntryKeys -> EntryAccounts] /\ player' \in [Wallets -> Counters]
          /\ last' = "enter"
          /\ UNCHANGED <<now, paused, active, pool, treasury, created>>
        BY EnterTyped DEF EnterContest
    <1>2. contest[c] \in ContestAccounts /\ contest[c].fee[k] \in Nat
        <2>1. contest[c] \in ContestAccounts
            BY DEF TypeOK
        <2>2. contest[c].fee \in [Currencies -> Nat]
            BY <2>1 DEF ContestAccounts
        <2>. QED
            BY <2>1, <2>2
    <1>3. contest' \in [Contests -> ContestAccounts]
        <2>. DEFINE fees == [contest[c].entry_fees EXCEPT ![k] = @ + contest[c].fee[k]]
                    count == contest[c].current_entries + 1
                    new == [contest[c] EXCEPT !.current_entries = count, !.entry_fees = fees]
        <2>1. contest[c].current_entries \in Nat /\ contest[c].entry_fees \in [Currencies -> Nat]
            BY <1>2 DEF ContestAccounts
        <2>2. fees \in [Currencies -> Nat] /\ count \in Nat
            BY <1>2, <2>1
        <2>3. new \in ContestAccounts
            <3>. HIDE DEF fees, count
            <3>. QED
                BY <1>2, <2>2 DEF ContestAccounts
        <2>4. contest' = [contest EXCEPT ![c] = new]
            BY <1>2 DEF EnterContest, TypeOK, ContestAccounts
        <2>. HIDE DEF new
        <2>. QED
            BY <2>3, <2>4, OneContest
    <1>4. wallet' \in [Wallets -> [Currencies -> Nat]]
        <2>1. wallet[w][k] - contest[c].fee[k] \in Nat
            BY <1>2 DEF EnterContest, TypeOK
        <2>. QED
            BY <2>1, OneBalance DEF EnterContest
    <1>5. opRev' \in [Currencies -> Nat]
        BY <1>2 DEF EnterContest, TypeOK
    <1>6. consumed' = consumed
        BY DEF EnterContest
    <1>. QED
        BY <1>1, <1>3, <1>4, <1>5, <1>6 DEF TypeOK

\* enter_contest_with_token keeps every type.
LEMMA EnterWithTokenTyped ==
    ASSUME TypeOK, NEW c \in Contests, NEW w \in Wallets, NEW n \in EntryNums,
           NEW t \in Tokens, EnterContestWithToken(c, w, n, t)
    PROVE  TypeOK'
    <1>1. /\ entry' \in [EntryKeys -> EntryAccounts] /\ player' \in [Wallets -> Counters]
          /\ last' = "enter"
          /\ UNCHANGED <<now, paused, active, pool, treasury, created>>
        BY EnterTyped DEF EnterContestWithToken
    <1>2. contest' \in [Contests -> ContestAccounts]
        <2>. DEFINE count == contest[c].current_entries + 1
        <2>1. contest[c] \in ContestAccounts
            BY DEF TypeOK
        <2>2. count \in Nat
            BY <2>1 DEF ContestAccounts
        <2>3. contest' = [contest EXCEPT ![c] = [contest[c] EXCEPT !.current_entries = count]]
            BY DEF EnterContestWithToken
        <2>4. [contest[c] EXCEPT !.current_entries = count] \in ContestAccounts
            <3>. HIDE DEF count
            <3>. QED
                BY <2>1, <2>2 DEF ContestAccounts
        <2>. HIDE DEF count
        <2>. QED
            BY <2>3, <2>4, OneContest
    <1>. QED
        BY <1>1, <1>2 DEF EnterContestWithToken, TypeOK

\* Every instruction keeps every type; settlement relies on the row sums.
LEMMA NextTypeOK == TypeOK /\ [Next]_vars => TypeOK'
    <1>. SUFFICES ASSUME TypeOK, [Next]_vars PROVE TypeOK'
        OBVIOUS
    <1>. PayoutMint \in Currencies
        BY ContestAssumption
    <1>1. ASSUME NEW c \in Contests, CancelContest(c) PROVE TypeOK'
        <2>1. contest' \in [Contests -> ContestAccounts]
            BY <1>1, OneStatus DEF CancelContest
        <2>2. contest[c].creator \in Wallets /\ pool[c] \in Nat
            BY DEF TypeOK, ContestAccounts
        <2>3. wallet[contest[c].creator][PayoutMint] + pool[c] \in Nat
            BY <2>2 DEF TypeOK
        <2>4. wallet' \in [Wallets -> [Currencies -> Nat]]
            BY <1>1, <2>2, <2>3, OneBalance DEF CancelContest
        <2>. QED
            BY <1>1, <2>1, <2>4 DEF CancelContest, TypeOK
    <1>2. ASSUME NEW c \in Contests, CloseContest(c) PROVE TypeOK'
        <2>1. contest' \in [Contests -> ContestAccounts]
            BY <1>2, NoAccounts, OneContest DEF CloseContest
        <2>. QED
            BY <1>2, <2>1 DEF CloseContest, TypeOK
    <1>3. ASSUME NEW c \in Contests, NEW t \in Timestamps, SetContestLockTime(c, t)
          PROVE  TypeOK'
        <2>1. contest' \in [Contests -> ContestAccounts]
            <3>1. contest[c] \in ContestAccounts /\ t \in Int
                BY ContestAssumption DEF TypeOK
            <3>2. [contest[c] EXCEPT !.lock_timestamp = t] \in ContestAccounts
                BY <3>1 DEF ContestAccounts
            <3>. QED
                BY <1>3, <3>2, OneContest DEF SetContestLockTime
        <2>2. last' \in {"lock", "reopen"}
            BY <1>3 DEF SetContestLockTime, LockAction
        <2>. QED
            BY <1>3, <2>1, <2>2 DEF SetContestLockTime, money, TypeOK
    <1>4. ASSUME NEW c \in Contests, NEW t \in Timestamps, SetContestConclusionTime(c, t)
          PROVE  TypeOK'
        <2>1. contest' \in [Contests -> ContestAccounts]
            <3>1. contest[c] \in ContestAccounts /\ t \in Int
                BY ContestAssumption DEF TypeOK
            <3>2. [contest[c] EXCEPT !.conclusion_timestamp = t] \in ContestAccounts
                BY <3>1 DEF ContestAccounts
            <3>. QED
                BY <1>4, <3>2, OneContest DEF SetContestConclusionTime
        <2>2. last' \in {"conclude", "amend"}
            BY <1>4 DEF SetContestConclusionTime
        <2>. QED
            BY <1>4, <2>1, <2>2 DEF SetContestConclusionTime, money, TypeOK
    <1>5. ASSUME NEW k \in Currencies, NEW amount \in SweepAmounts,
                 SweepOperatorRevenue(k, amount)
          PROVE  TypeOK'
        <2>1. amount \in Nat /\ opRev[k] \in Nat /\ treasury[k] \in Nat
            BY ContestAssumption DEF TypeOK
        <2>2. opRev' \in [Currencies -> Nat] /\ treasury' \in [Currencies -> Nat]
            BY <1>5, <2>1 DEF SweepOperatorRevenue, Sweepable, TypeOK
        <2>. QED
            BY <1>5, <2>2 DEF SweepOperatorRevenue, TypeOK
    <1>6. ASSUME NEW k \in Deactivable, DeactivateCurrency(k) PROVE TypeOK'
        BY <1>6 DEF DeactivateCurrency, money, TypeOK
    <1>7. ASSUME SetPaused PROVE TypeOK'
        BY <1>7 DEF SetPaused, money, TypeOK
    <1>8. ASSUME NEW w \in Donors, NEW c \in Contests, DonateToPool(w, c) PROVE TypeOK'
        <2>1. w \in Wallets /\ wallet[w][PayoutMint] - 1 \in Nat
            BY <1>8, ContestAssumption DEF DonateToPool, TypeOK
        <2>2. wallet' \in [Wallets -> [Currencies -> Nat]]
            BY <1>8, <2>1, OneBalance DEF DonateToPool
        <2>. QED
            BY <1>8, <2>2 DEF DonateToPool, TypeOK
    <1>9. ASSUME Tick PROVE TypeOK'
        BY <1>9, ContestAssumption DEF Tick, money, TypeOK
    <1>10. ASSUME UNCHANGED vars PROVE TypeOK'
        BY <1>10 DEF vars, money, TypeOK
    <1>. QED
        BY <1>1, <1>2, <1>3, <1>4, <1>5, <1>6, <1>7, <1>8, <1>9, <1>10, SettleTyped,
           CreateTyped, EnterContestTyped, EnterWithTokenTyped DEF Next

\* Every reachable state is well typed: no handler ever takes a balance, a pool
\* or the operator revenue below zero.
THEOREM EscrowTypeCorrect == Spec => []TypeOK
    <1>. QED
        BY InitTypeOK, NextTypeOK, PTL DEF Spec

-----------------------------------------------------------------------------
(* What one step does to one contest *)

\* The contest lives on as it was; at most somebody adds to its pool.
Quiet(c) ==
    /\ contest'[c].status = contest[c].status
    /\ contest'[c].prize_pool = contest[c].prize_pool
    /\ contest'[c].lock_timestamp = contest[c].lock_timestamp
    /\ contest'[c].conclusion_timestamp = contest[c].conclusion_timestamp
    /\ pool'[c] >= pool[c]

\* A step acts on one contest at most; all others keep account and pool.
LEMMA StepOnContest ==
    ASSUME TypeOK, [Next]_vars, NEW c \in Contests
    PROVE  \/ \E w \in Creators, o \in Offers : CreateContest(c, w, o)
           \/ \E rows \in Settlements : SettleContest(c, rows)
           \/ CancelContest(c)
           \/ CloseContest(c)
           \/ \E t \in Timestamps : SetContestLockTime(c, t)
           \/ \E t \in Timestamps : SetContestConclusionTime(c, t)
           \/ Quiet(c)
    <1>. contest[c] \in ContestAccounts /\ pool[c] \in Nat
        BY DEF TypeOK
    <1>1. ASSUME NEW d \in Contests, NEW w \in Creators, NEW o \in Offers,
                 CreateContest(d, w, o), d # c
          PROVE  Quiet(c)
        BY <1>1 DEF CreateContest, Quiet, TypeOK
    <1>2. ASSUME NEW d \in Contests, NEW w \in Wallets, NEW n \in EntryNums,
                 NEW k \in Currencies, EnterContest(d, w, n, k)
          PROVE  Quiet(c)
        BY <1>2 DEF EnterContest, Enter, Quiet, TypeOK, ContestAccounts
    <1>3. ASSUME NEW d \in Contests, NEW w \in Wallets, NEW n \in EntryNums,
                 NEW t \in Tokens, EnterContestWithToken(d, w, n, t)
          PROVE  Quiet(c)
        BY <1>3 DEF EnterContestWithToken, Enter, Quiet, TypeOK, ContestAccounts
    <1>4. ASSUME NEW d \in Contests, NEW rows \in Settlements, SettleContest(d, rows), d # c
          PROVE  Quiet(c)
        BY <1>4 DEF SettleContest, Quiet, TypeOK
    <1>5. ASSUME NEW d \in Contests, CancelContest(d) \/ CloseContest(d), d # c
          PROVE  Quiet(c)
        BY <1>5 DEF CancelContest, CloseContest, Quiet, TypeOK
    <1>6. ASSUME NEW d \in Contests, NEW t \in Timestamps,
                 SetContestLockTime(d, t) \/ SetContestConclusionTime(d, t), d # c
          PROVE  Quiet(c)
        BY <1>6 DEF SetContestLockTime, SetContestConclusionTime, Quiet, TypeOK
    <1>7. ASSUME \/ \E k \in Currencies, amount \in SweepAmounts : SweepOperatorRevenue(k, amount)
                 \/ \E k \in Deactivable : DeactivateCurrency(k)
                 \/ SetPaused
                 \/ Tick
                 \/ UNCHANGED vars
          PROVE  Quiet(c)
        BY <1>7 DEF SweepOperatorRevenue, DeactivateCurrency, SetPaused, Tick, vars, Quiet
    <1>8. ASSUME NEW w \in Donors, NEW d \in Contests, DonateToPool(w, d)
          PROVE  Quiet(c)
        BY <1>8 DEF DonateToPool, Quiet, TypeOK
    <1>. QED
        BY <1>1, <1>2, <1>3, <1>4, <1>5, <1>6, <1>7, <1>8 DEF Next

\* Only a tick moves the clock, and forward.
LEMMA ClockForward ==
    ASSUME TypeOK, [Next]_vars
    PROVE  now \in Int /\ now' \in Int /\ now' >= now
    <1>1. now \in Int
        BY DEF TypeOK
    <1>2. now' = now \/ now' = now + 1
        <2>1. \A c \in Contests, w \in Wallets, n \in EntryNums, paid \in {"fee", "token"} :
                  Enter(c, w, n, paid) => now' = now
            BY DEF Enter
        <2>2. ASSUME NEW c \in Contests PROVE
                  \/ \E w \in Creators, o \in Offers : CreateContest(c, w, o)
                  \/ \E w \in Wallets, n \in EntryNums, k \in Currencies : EnterContest(c, w, n, k)
                  \/ \E w \in Wallets, n \in EntryNums, t \in Tokens : EnterContestWithToken(c, w, n, t)
                  \/ \E w \in Donors : DonateToPool(w, c)
                  => now' = now
            BY <2>1 DEF CreateContest, EnterContest, EnterContestWithToken, DonateToPool
        <2>3. ASSUME NEW c \in Contests PROVE
                  \/ \E rows \in Settlements : SettleContest(c, rows)
                  \/ CancelContest(c) \/ CloseContest(c)
                  \/ \E t \in Timestamps : SetContestLockTime(c, t)
                  \/ \E t \in Timestamps : SetContestConclusionTime(c, t)
                  => now' = now
            BY DEF SettleContest, CancelContest, CloseContest, SetContestLockTime,
                   SetContestConclusionTime
        <2>4. \/ \E k \in Currencies, amount \in SweepAmounts : SweepOperatorRevenue(k, amount)
              \/ \E k \in Deactivable : DeactivateCurrency(k)
              \/ SetPaused \/ UNCHANGED vars
              => now' = now
            BY DEF SweepOperatorRevenue, DeactivateCurrency, SetPaused, vars
        <2>5. Tick => now' = now + 1
            BY DEF Tick
        <2>. QED
            BY <2>2, <2>3, <2>4, <2>5 DEF Next
    <1>. QED
        BY <1>1, <1>2

\* A setter writes one timestamp and nothing else of the contest or its pool.
LEMMA SettersWriteOneField ==
    ASSUME TypeOK, NEW c \in Contests, NEW t \in Timestamps,
           SetContestLockTime(c, t) \/ SetContestConclusionTime(c, t)
    PROVE  /\ contest[c].status = "Open" /\ contest'[c].status = "Open"
           /\ contest'[c].prize_pool = contest[c].prize_pool
           /\ pool' = pool
    <1>. contest[c] \in ContestAccounts
        BY DEF TypeOK
    <1>1. CASE SetContestLockTime(c, t)
        BY <1>1 DEF SetContestLockTime, Reschedulable, TypeOK, ContestAccounts
    <1>2. CASE SetContestConclusionTime(c, t)
        BY <1>2 DEF SetContestConclusionTime, Reschedulable, TypeOK, ContestAccounts
    <1>. QED
        BY <1>1, <1>2

-----------------------------------------------------------------------------
(* The pool *)

\* No step leaves an open contest's pool short of its prize.
LEMMA NextPoolBacksPrize ==
    TypeOK /\ PoolBacksPrize /\ [Next]_vars => PoolBacksPrize'
    <1>. SUFFICES ASSUME TypeOK, PoolBacksPrize, [Next]_vars, NEW c \in Contests,
                         contest'[c].status = "Open"
                  PROVE  pool'[c] >= contest'[c].prize_pool
        BY DEF PoolBacksPrize
    <1>. /\ contest[c] \in ContestAccounts /\ pool[c] \in Nat
         /\ contest[c].prize_pool \in Nat /\ pool'[c] \in Nat
        BY NextTypeOK DEF TypeOK, ContestAccounts
    <1>1. ASSUME NEW w \in Creators, NEW o \in Offers, CreateContest(c, w, o)
          PROVE  pool'[c] >= contest'[c].prize_pool
        <2>1. o.prize \in Nat
            BY ContestAssumption
        <2>. QED
            BY <1>1, <2>1 DEF CreateContest, TypeOK
    <1>2. ASSUME NEW rows \in Settlements, SettleContest(c, rows) PROVE FALSE
        BY <1>2 DEF SettleContest, TypeOK, ContestAccounts
    <1>3. ASSUME CancelContest(c) \/ CloseContest(c) PROVE FALSE
        BY <1>3 DEF CancelContest, CloseContest, NoContest, TypeOK, ContestAccounts
    <1>4. ASSUME NEW t \in Timestamps,
                 SetContestLockTime(c, t) \/ SetContestConclusionTime(c, t)
          PROVE  pool'[c] >= contest'[c].prize_pool
        BY <1>4, SettersWriteOneField DEF PoolBacksPrize
    <1>5. ASSUME Quiet(c) PROVE pool'[c] >= contest'[c].prize_pool
        BY <1>5 DEF Quiet, PoolBacksPrize
    <1>. QED
        BY <1>1, <1>2, <1>3, <1>4, <1>5, StepOnContest

\* Whatever else happens, an open contest can pay its whole prize.
THEOREM PoolAlwaysBacksPrize == Spec => []PoolBacksPrize
    <1>1. Init => PoolBacksPrize
        BY DEF Init, PoolBacksPrize, NoContest
    <1>. QED
        BY <1>1, NextPoolBacksPrize, EscrowTypeCorrect, PTL DEF Spec

-----------------------------------------------------------------------------
(* The clock of a contest *)

\* No step puts a conclusion at or before the lock.
LEMMA NextLockPrecedesConclusion ==
    TypeOK /\ LockPrecedesConclusion /\ [Next]_vars => LockPrecedesConclusion'
    <1>. SUFFICES ASSUME TypeOK, LockPrecedesConclusion, [Next]_vars, NEW c \in Contests,
                         contest'[c].lock_timestamp # 0,
                         contest'[c].conclusion_timestamp # 0
                  PROVE  contest'[c].lock_timestamp < contest'[c].conclusion_timestamp
        BY DEF LockPrecedesConclusion
    <1>. contest[c] \in ContestAccounts
        BY DEF TypeOK
    <1>1. ASSUME NEW w \in Creators, NEW o \in Offers, CreateContest(c, w, o) PROVE FALSE
        BY <1>1 DEF CreateContest, TypeOK
    <1>2. ASSUME CloseContest(c) PROVE FALSE
        BY <1>2 DEF CloseContest, NoContest, TypeOK
    <1>3. ASSUME \/ \E rows \in Settlements : SettleContest(c, rows)
                 \/ CancelContest(c)
                 \/ Quiet(c)
          PROVE  contest'[c].lock_timestamp < contest'[c].conclusion_timestamp
        <2>1. /\ contest'[c].lock_timestamp = contest[c].lock_timestamp
              /\ contest'[c].conclusion_timestamp = contest[c].conclusion_timestamp
            BY <1>3 DEF SettleContest, CancelContest, Quiet, TypeOK, ContestAccounts
        <2>. QED
            BY <2>1 DEF LockPrecedesConclusion
    <1>4. ASSUME NEW t \in Timestamps, SetContestLockTime(c, t)
          PROVE  contest'[c].lock_timestamp < contest'[c].conclusion_timestamp
        BY <1>4 DEF SetContestLockTime, LockAccepted, TypeOK, ContestAccounts
    <1>5. ASSUME NEW t \in Timestamps, SetContestConclusionTime(c, t)
          PROVE  contest'[c].lock_timestamp < contest'[c].conclusion_timestamp
        BY <1>5, ContestAssumption DEF SetContestConclusionTime, TypeOK, ContestAccounts
    <1>. QED
        BY <1>1, <1>2, <1>3, <1>4, <1>5, StepOnContest

\* Neither setter, in any order and at any time, lets the two cross.
THEOREM LockAlwaysPrecedesConclusion == Spec => []LockPrecedesConclusion
    <1>1. Init => LockPrecedesConclusion
        BY DEF Init, LockPrecedesConclusion, NoContest
    <1>. QED
        BY <1>1, NextLockPrecedesConclusion, EscrowTypeCorrect, PTL DEF Spec

\* A passed lock is undone under the escalated authority or not at all.
THEOREM ClosedWindowsStayClosed == Spec => ClosedWindowStaysClosed
    <1>1. TypeOK /\ [Next]_vars => ClosedWindowStaysClosedStep
        <2>. SUFFICES ASSUME TypeOK, [Next]_vars, NEW c \in Contests,
                             contest[c].status = "Open", LockPassed(c), ~LockPassed(c)',
                             Exists(c)'
                      PROVE  last' = "reopen"
            BY DEF ClosedWindowStaysClosedStep
        <2>. /\ contest[c] \in ContestAccounts
             /\ now \in Int /\ now' \in Int /\ now' >= now
            BY ClockForward DEF TypeOK
        <2>1. ASSUME NEW w \in Creators, NEW o \in Offers, CreateContest(c, w, o) PROVE FALSE
            BY <2>1 DEF CreateContest
        <2>2. ASSUME CloseContest(c) PROVE FALSE
            BY <2>2 DEF CloseContest
        <2>3. ASSUME NEW rows \in Settlements, SettleContest(c, rows) PROVE FALSE
            BY <2>3 DEF SettleContest, LockPassed, TypeOK, ContestAccounts
        <2>4. ASSUME CancelContest(c) PROVE FALSE
            BY <2>4 DEF CancelContest, LockPassed, TypeOK, ContestAccounts
        <2>5. ASSUME NEW t \in Timestamps, SetContestLockTime(c, t) PROVE last' = "reopen"
            BY <2>5 DEF SetContestLockTime, LockAction
        <2>6. ASSUME NEW t \in Timestamps, SetContestConclusionTime(c, t) PROVE FALSE
            BY <2>6 DEF SetContestConclusionTime, LockPassed, TypeOK, ContestAccounts
        <2>7. ASSUME Quiet(c) PROVE FALSE
            BY <2>7 DEF Quiet, LockPassed, ContestAccounts
        <2>. QED
            BY <2>1, <2>2, <2>3, <2>4, <2>5, <2>6, <2>7, StepOnContest
    <1>. QED
        BY <1>1, EscrowTypeCorrect, PTL DEF Spec, ClosedWindowStaysClosed

\* Once concluded, neither timestamp moves while the account lives.
THEOREM ConclusionsAreFinal == Spec => ConcludedIsFinal
    <1>1. TypeOK /\ [Next]_vars => ConcludedIsFinalStep
        <2>. SUFFICES ASSUME TypeOK, [Next]_vars, NEW c \in Contests,
                             Exists(c), ConclusionPassed(c), Exists(c)'
                      PROVE  /\ contest'[c].lock_timestamp = contest[c].lock_timestamp
                             /\ contest'[c].conclusion_timestamp = contest[c].conclusion_timestamp
            BY DEF ConcludedIsFinalStep
        <2>. contest[c] \in ContestAccounts
            BY DEF TypeOK
        <2>1. ASSUME NEW w \in Creators, NEW o \in Offers, CreateContest(c, w, o) PROVE FALSE
            BY <2>1 DEF CreateContest, Exists
        <2>2. ASSUME CloseContest(c) PROVE FALSE
            BY <2>2 DEF CloseContest, Exists, NoContest, TypeOK
        <2>3. ASSUME NEW t \in Timestamps,
                     SetContestLockTime(c, t) \/ SetContestConclusionTime(c, t)
              PROVE  FALSE
            BY <2>3 DEF SetContestLockTime, SetContestConclusionTime, Reschedulable
        <2>4. ASSUME NEW rows \in Settlements, SettleContest(c, rows)
              PROVE  /\ contest'[c].lock_timestamp = contest[c].lock_timestamp
                     /\ contest'[c].conclusion_timestamp = contest[c].conclusion_timestamp
            BY <2>4 DEF SettleContest, TypeOK, ContestAccounts
        <2>5. ASSUME CancelContest(c)
              PROVE  /\ contest'[c].lock_timestamp = contest[c].lock_timestamp
                     /\ contest'[c].conclusion_timestamp = contest[c].conclusion_timestamp
            BY <2>5 DEF CancelContest, TypeOK, ContestAccounts
        <2>. QED
            BY <2>1, <2>2, <2>3, <2>4, <2>5, StepOnContest DEF Quiet
    <1>. QED
        BY <1>1, EscrowTypeCorrect, PTL DEF Spec, ConcludedIsFinal

\* The conclusion lets a settlement through without asking for the lock; that
\* the lock has passed too follows from the order of the two timestamps.
THEOREM GradingFollowsLock == Spec => GradedAfterLock
    <1>1. TypeOK /\ LockPrecedesConclusion /\ [Next]_vars => GradedAfterLockStep
        <2>. SUFFICES ASSUME TypeOK, LockPrecedesConclusion, [Next]_vars, NEW c \in Contests,
                             contest[c].status = "Open", contest'[c].status = "Settled",
                             contest[c].lock_timestamp # 0
                      PROVE  LockPassed(c)
            BY DEF GradedAfterLockStep
        <2>. contest[c] \in ContestAccounts /\ now \in Int
            BY ClockForward DEF TypeOK
        <2>1. ASSUME NEW rows \in Settlements, SettleContest(c, rows) PROVE LockPassed(c)
            BY <2>1 DEF SettleContest, GradingOpen, LockPassed, ConclusionPassed,
                        LockPrecedesConclusion, ContestAccounts
        <2>2. ASSUME NEW w \in Creators, NEW o \in Offers, CreateContest(c, w, o) PROVE FALSE
            BY <2>2 DEF CreateContest
        <2>3. ASSUME CancelContest(c) \/ CloseContest(c) PROVE FALSE
            BY <2>3 DEF CancelContest, CloseContest, TypeOK, ContestAccounts
        <2>4. ASSUME NEW t \in Timestamps,
                     SetContestLockTime(c, t) \/ SetContestConclusionTime(c, t)
              PROVE  FALSE
            BY <2>4, SettersWriteOneField
        <2>5. ASSUME Quiet(c) PROVE FALSE
            BY <2>5 DEF Quiet
        <2>. QED
            BY <2>1, <2>2, <2>3, <2>4, <2>5, StepOnContest
    <1>. QED
        BY <1>1, EscrowTypeCorrect, LockAlwaysPrecedesConclusion, PTL DEF Spec, GradedAfterLock

-----------------------------------------------------------------------------
(* Graded entries *)

\* No list grades an entry twice, and no re-created contest forgets one.
THEOREM GradedEntriesAreFinal == Spec => GradedEntryIsFinal
    <1>1. TypeOK /\ [Next]_vars => GradedEntryIsFinalStep
        <2>. SUFFICES ASSUME TypeOK, [Next]_vars, NEW e \in EntryKeys,
                             entry[e].status \in {"Won", "Lost"}
                      PROVE  entry'[e] = entry[e]
            BY DEF GradedEntryIsFinalStep
        <2>1. ASSUME NEW c \in Contests, NEW w \in Wallets, NEW n \in EntryNums,
                     NEW paid, Enter(c, w, n, paid)
              PROVE  entry'[e] = entry[e]
            BY <2>1 DEF Enter, TypeOK
        <2>2. ASSUME NEW c \in Contests, NEW rows \in Settlements, SettleContest(c, rows)
              PROVE  entry'[e] = entry[e]
            <3>. DEFINE named == {i \in DOMAIN rows : RowKey(c, rows[i]) = e}
            <3>1. named = {}
                BY <2>2 DEF SettleContest, Gradable
            <3>. QED
                BY <2>2, <3>1 DEF SettleContest
        <2>3. ASSUME NEW c \in Contests PROVE
                  \/ \E w \in Creators, o \in Offers : CreateContest(c, w, o)
                  \/ CancelContest(c) \/ CloseContest(c)
                  \/ \E t \in Timestamps : SetContestLockTime(c, t)
                  \/ \E t \in Timestamps : SetContestConclusionTime(c, t)
                  \/ \E w \in Donors : DonateToPool(w, c)
                  => entry' = entry
            BY DEF CreateContest, CancelContest, CloseContest, SetContestLockTime,
                   SetContestConclusionTime, DonateToPool
        <2>4. \/ \E k \in Currencies, amount \in SweepAmounts : SweepOperatorRevenue(k, amount)
              \/ \E k \in Deactivable : DeactivateCurrency(k)
              \/ SetPaused \/ Tick \/ UNCHANGED vars
              => entry' = entry
            BY DEF SweepOperatorRevenue, DeactivateCurrency, SetPaused, Tick, vars
        <2>5. ASSUME NEW c \in Contests, NEW w \in Wallets, NEW n \in EntryNums,
                     \/ \E k \in Currencies : EnterContest(c, w, n, k)
                     \/ \E t \in Tokens : EnterContestWithToken(c, w, n, t)
              PROVE  entry'[e] = entry[e]
            BY <2>1, <2>5 DEF EnterContest, EnterContestWithToken
        <2>. QED
            BY <2>2, <2>3, <2>4, <2>5 DEF Next
    <1>. QED
        BY <1>1, EscrowTypeCorrect, PTL DEF Spec, GradedEntryIsFinal

-----------------------------------------------------------------------------
(* The promise *)

phase == [c \in Contests |-> contest[c].status]
owed == [c \in Contests |-> contest[c].prize_pool]
promise == <<phase, owed, pool>>

\* A step of one contest leaves the others as they were.
LEMMA OthersKept ==
    ASSUME TypeOK, NEW c \in Contests, NEW new \in ContestAccounts,
           contest' = [contest EXCEPT ![c] = new]
    PROVE  /\ phase' = [phase EXCEPT ![c] = new.status]
           /\ owed' = [owed EXCEPT ![c] = new.prize_pool]
BY DEF TypeOK, phase, owed

\* A step that keeps the prize of a contest keeps what is owed.
LEMMA StatusOnly ==
    ASSUME TypeOK, NEW c \in Contests, NEW new \in ContestAccounts,
           contest' = [contest EXCEPT ![c] = new],
           new.prize_pool = contest[c].prize_pool
    PROVE  phase' = [phase EXCEPT ![c] = new.status] /\ owed' = owed
    <1>1. /\ phase' = [phase EXCEPT ![c] = new.status]
          /\ owed' = [owed EXCEPT ![c] = new.prize_pool]
        BY OthersKept
    <1>2. [owed EXCEPT ![c] = contest[c].prize_pool] = owed
        BY DEF owed
    <1>. QED
        BY <1>1, <1>2

\* A step that writes neither the status nor the prize is invisible.
LEMMA SamePromise ==
    ASSUME TypeOK, NEW c \in Contests, NEW new \in ContestAccounts,
           contest' = [contest EXCEPT ![c] = new], pool' = pool,
           new.status = contest[c].status, new.prize_pool = contest[c].prize_pool
    PROVE  UNCHANGED promise
BY DEF TypeOK, phase, owed, promise

\* Every instruction is a step of the abstract escrow, or none.
LEMMA StepKeepsPromise == TypeOK /\ [Next]_vars => [Promise!Next]_promise
    <1>. SUFFICES ASSUME TypeOK, [Next]_vars PROVE [Promise!Next]_promise
        OBVIOUS
    <1>. TypeOK'
        BY NextTypeOK
    <1>1. ASSUME NEW c \in Contests, NEW w \in Creators, NEW o \in Offers,
                 CreateContest(c, w, o)
          PROVE  Promise!Open(c)
        <2>1. contest'[c] \in ContestAccounts
            BY DEF TypeOK
        <2>2. contest' = [contest EXCEPT ![c] = contest'[c]]
              /\ contest'[c].status = "Open" /\ contest'[c].prize_pool = o.prize
            BY <1>1 DEF CreateContest, TypeOK
        <2>3. phase' = [phase EXCEPT ![c] = "Open"] /\ owed' = [owed EXCEPT ![c] = o.prize]
            BY <2>1, <2>2, OthersKept
        <2>. QED
            BY <1>1, <2>3 DEF CreateContest, Promise!Open, phase, owed
    <1>2. ASSUME NEW c \in Contests, NEW rows \in Settlements, SettleContest(c, rows)
          PROVE  Promise!PayOut(c)
        <2>. DEFINE paid == Paid(rows, DOMAIN rows)
        <2>1. contest'[c] \in ContestAccounts /\ contest[c] \in ContestAccounts
            BY DEF TypeOK
        <2>2. contest' = [contest EXCEPT ![c] = contest'[c]]
              /\ contest'[c].status = "Settled" /\ contest'[c].prize_pool = contest[c].prize_pool
            BY <1>2, <2>1 DEF SettleContest, TypeOK, ContestAccounts
        <2>3. phase' = [phase EXCEPT ![c] = "Settled"] /\ owed' = owed
            BY <2>1, <2>2, StatusOnly
        <2>4. paid \in 0..owed[c] /\ pool' = [pool EXCEPT ![c] = @ - paid]
            <3>1. paid \in Nat /\ contest[c].prize_pool \in Nat
                BY <2>1, PartOfAList DEF ContestAccounts
            <3>. QED
                BY <1>2, <3>1 DEF SettleContest, owed
        <2>5. phase[c] = "Open"
            BY <1>2 DEF SettleContest, phase
        <2>. HIDE DEF paid
        <2>. QED
            BY <2>3, <2>4, <2>5 DEF Promise!PayOut, phase, owed
    <1>3. ASSUME NEW c \in Contests, CancelContest(c) PROVE Promise!Refund(c)
        <2>1. contest'[c] \in ContestAccounts /\ contest[c] \in ContestAccounts
            BY DEF TypeOK
        <2>2. contest' = [contest EXCEPT ![c] = contest'[c]]
              /\ contest'[c].status = "Cancelled" /\ contest'[c].prize_pool = contest[c].prize_pool
            BY <1>3, <2>1 DEF CancelContest, TypeOK, ContestAccounts
        <2>3. phase' = [phase EXCEPT ![c] = "Cancelled"] /\ owed' = owed
            BY <2>1, <2>2, StatusOnly
        <2>. QED
            BY <1>3, <2>3 DEF CancelContest, Promise!Refund, phase, owed
    <1>4. ASSUME NEW c \in Contests, CloseContest(c) PROVE Promise!Close(c)
        <2>1. phase' = [phase EXCEPT ![c] = "none"] /\ owed' = [owed EXCEPT ![c] = 0]
            <3>1. NoContest.status = "none" /\ NoContest.prize_pool = 0
                BY DEF NoContest
            <3>. QED
                BY <1>4, <3>1, NoAccounts, OthersKept DEF CloseContest
        <2>. QED
            BY <1>4, <2>1 DEF CloseContest, Promise!Close, phase, owed
    <1>5. ASSUME NEW w \in Donors, NEW c \in Contests, DonateToPool(w, c)
          PROVE  Promise!Deposit(c)
        BY <1>5 DEF DonateToPool, Promise!Deposit
    <1>6. ASSUME NEW c \in Contests,
                 \/ \E w \in Wallets, n \in EntryNums, k \in Currencies : EnterContest(c, w, n, k)
                 \/ \E w \in Wallets, n \in EntryNums, t \in Tokens :
                        EnterContestWithToken(c, w, n, t)
          PROVE  UNCHANGED promise
        <2>1. contest'[c] \in ContestAccounts /\ contest[c] \in ContestAccounts
            BY DEF TypeOK
        <2>2. pool' = pool /\ contest' = [contest EXCEPT ![c] = contest'[c]]
            <3>1. ASSUME NEW w \in Wallets, NEW n \in EntryNums, NEW k \in Currencies,
                         EnterContest(c, w, n, k)
                  PROVE  pool' = pool /\ contest' = [contest EXCEPT ![c] = contest'[c]]
                <4>1. pool' = pool
                    BY <3>1 DEF EnterContest, Enter
                <4>2. contest \in [Contests -> ContestAccounts]
                    BY DEF TypeOK
                <4>. QED
                    BY <3>1, <4>1, <4>2 DEF EnterContest
            <3>2. ASSUME NEW w \in Wallets, NEW n \in EntryNums, NEW t \in Tokens,
                         EnterContestWithToken(c, w, n, t)
                  PROVE  pool' = pool /\ contest' = [contest EXCEPT ![c] = contest'[c]]
                <4>1. pool' = pool
                    BY <3>2 DEF EnterContestWithToken, Enter
                <4>2. contest \in [Contests -> ContestAccounts]
                    BY DEF TypeOK
                <4>. QED
                    BY <3>2, <4>1, <4>2 DEF EnterContestWithToken
            <3>. QED
                BY <1>6, <3>1, <3>2
        <2>3. contest'[c].status = contest[c].status
              /\ contest'[c].prize_pool = contest[c].prize_pool
            <3>1. ASSUME NEW w \in Wallets, NEW n \in EntryNums, NEW k \in Currencies,
                         EnterContest(c, w, n, k)
                  PROVE  contest'[c].status = contest[c].status
                         /\ contest'[c].prize_pool = contest[c].prize_pool
                BY <2>1, <3>1 DEF EnterContest, TypeOK, ContestAccounts
            <3>2. ASSUME NEW w \in Wallets, NEW n \in EntryNums, NEW t \in Tokens,
                         EnterContestWithToken(c, w, n, t)
                  PROVE  contest'[c].status = contest[c].status
                         /\ contest'[c].prize_pool = contest[c].prize_pool
                BY <2>1, <3>2 DEF EnterContestWithToken, TypeOK, ContestAccounts
            <3>. QED
                BY <1>6, <3>1, <3>2
        <2>. QED
            BY <2>1, <2>2, <2>3, SamePromise
    <1>7. ASSUME NEW c \in Contests, NEW t \in Timestamps,
                 SetContestLockTime(c, t) \/ SetContestConclusionTime(c, t)
          PROVE  UNCHANGED promise
        <2>1. contest'[c] \in ContestAccounts
            BY DEF TypeOK
        <2>2. contest' = [contest EXCEPT ![c] = contest'[c]]
            BY <1>7 DEF SetContestLockTime, SetContestConclusionTime, TypeOK
        <2>. QED
            BY <1>7, <2>1, <2>2, SettersWriteOneField, SamePromise
    <1>8. ASSUME \/ \E k \in Currencies, amount \in SweepAmounts : SweepOperatorRevenue(k, amount)
                 \/ \E k \in Deactivable : DeactivateCurrency(k)
                 \/ SetPaused \/ Tick \/ UNCHANGED vars
          PROVE  UNCHANGED promise
        BY <1>8 DEF SweepOperatorRevenue, DeactivateCurrency, SetPaused, Tick, vars,
                    phase, owed, promise
    <1>. QED
        BY <1>1, <1>2, <1>3, <1>4, <1>5, <1>6, <1>7, <1>8 DEF Next, Promise!Next

\* Entries, clocks, currencies, settlements in any number of rows: what happens
\* to a prize is what Escrow says.
THEOREM ContestsKeepTheirPromise == Spec => ImplementsEscrow
    <1>1. Init => Promise!Init
        BY DEF Init, NoContest, Promise!Init
    <1>2. [Promise!Next]_promise => [Promise!Next]_(Promise!escrow)
        BY DEF promise, phase, owed, Promise!escrow
    <1>. QED
        BY <1>1, <1>2, StepKeepsPromise, EscrowTypeCorrect, PTL
           DEF Spec, ImplementsEscrow, Promise!Spec

\* Whatever was scheduled, the prize and the entries of an open contest are
\* never out of a settlement's reach: the present always lies before a set
\* conclusion that has not passed (set_contest_lock_time.rs:66-82).
THEOREM ContestsAreNeverStranded == Spec => []NeverStranded
    <1>1. TypeOK => NeverStranded
        <2>1. SUFFICES ASSUME TypeOK, NEW c \in Contests, contest[c].status = "Open",
                              ~GradingOpen(c)
                       PROVE  now \in 1..now /\ Reschedulable(c) /\ LockAccepted(c, now)
            BY DEF NeverStranded
        <2>2. now \in Nat \ {0} /\ contest[c].conclusion_timestamp \in Int
            BY <2>1, ContestAssumption DEF TypeOK, ContestAccounts
        <2>3. Reschedulable(c) /\ ~ConclusionPassed(c)
            BY <2>1 DEF Reschedulable, GradingOpen
        <2>. QED
            BY <2>2, <2>3 DEF LockAccepted, ConclusionPassed
    <1>. QED
        BY <1>1, EscrowTypeCorrect, PTL

\* A deadline that has passed is taken back by a quorum or not at all
\* (set_contest_lock_time.rs:15-27, set_contest_conclusion_time.rs:70-79).
THEOREM DeadlinesAlwaysStand == Spec => DeadlinesStand
    BY ClosedWindowsStayClosed, ConclusionsAreFinal, PTL
       DEF ClosedWindowStaysClosed, ConcludedIsFinal, DeadlinesStand

\* An entry is graded once, late enough, and for good
\* (settle_contest.rs:138-147, 262-283).
THEOREM GradingAlwaysStands == Spec => GradingStands
    BY GradingFollowsLock, GradedEntriesAreFinal, PTL
       DEF GradedAfterLock, GradedEntryIsFinal, GradingStands

-----------------------------------------------------------------------------
(* The fees                                                                  *)

\* What the live contests report to have taken.
Reported(k) == SumFunctionOnSet([c \in Contests |-> contest[c].entry_fees[k]], Contests)

\* Fees are numbers.
LEMMA FeesTyped ==
    ASSUME TypeOK, NEW c \in Contests, NEW k \in Currencies
    PROVE  contest[c].entry_fees[k] \in Nat /\ contest[c].fee[k] \in Nat
    <1>1. contest[c] \in ContestAccounts
        BY DEF TypeOK
    <1>2. contest[c].entry_fees \in [Currencies -> Nat] /\ contest[c].fee \in [Currencies -> Nat]
        BY <1>1 DEF ContestAccounts
    <1>. QED
        BY <1>2

\* What one contest reports changes the total by as much.
LEMMA ReportMoved ==
    ASSUME TypeOK, TypeOK', NEW k \in Currencies, NEW c \in Contests,
           \A d \in Contests \ {c} : contest'[d] = contest[d]
    PROVE  /\ Reported(k)' = Reported(k) + contest'[c].entry_fees[k] - contest[c].entry_fees[k]
           /\ Reported(k) \in Nat
    <1>. DEFINE before == [d \in Contests |-> contest[d].entry_fees[k]]
                after == [d \in Contests |-> contest'[d].entry_fees[k]]
    <1>1. IsFiniteSet(Contests)
        BY ContestAssumption
    <1>2. \A d \in Contests : before[d] \in Nat
        BY FeesTyped
    <1>3. contest'[c].entry_fees[k] \in Nat
        <2>1. contest'[c] \in ContestAccounts
            BY DEF TypeOK
        <2>2. contest'[c].entry_fees \in [Currencies -> Nat]
            BY <2>1 DEF ContestAccounts
        <2>. QED
            BY <2>2
    <1>4. /\ \A d \in Contests \ {c} : after[d] = before[d]
          /\ after[c] = contest'[c].entry_fees[k] /\ before[c] = contest[c].entry_fees[k]
        OBVIOUS
    <1>5. Reported(k) = SumFunctionOnSet(before, Contests)
          /\ Reported(k)' = SumFunctionOnSet(after, Contests)
        BY DEF Reported
    <1>. HIDE DEF before, after
    <1>6. SumFunctionOnSet(after, Contests)
            = SumFunctionOnSet(before, Contests) + after[c] - before[c]
        BY <1>1, <1>2, <1>3, <1>4, SumChange
    <1>7. SumFunctionOnSet(before, Contests) \in Nat
        BY <1>1, <1>2, SumNatural
    <1>. QED
        BY <1>4, <1>5, <1>6, <1>7

\* Who leaves the reports alone leaves their total alone.
LEMMA ReportKept ==
    ASSUME \A d \in Contests : contest'[d].entry_fees = contest[d].entry_fees,
           NEW k \in Currencies
    PROVE  Reported(k)' = Reported(k)
    <1>. DEFINE before == [d \in Contests |-> contest[d].entry_fees[k]]
                after == [d \in Contests |-> contest'[d].entry_fees[k]]
    <1>1. before = after
        OBVIOUS
    <1>. QED
        BY <1>1 DEF Reported

Backed(k) == opRev[k] + treasury[k] >= Reported(k)

\* Fees are reported where they are taken, and revenue leaves for the treasury only.
LEMMA StepKeepsBacked ==
    ASSUME TypeOK, [Next]_vars, NEW k \in Currencies, Backed(k)
    PROVE  Backed(k)'
    <1>. TypeOK'
        BY NextTypeOK
    <1>. opRev[k] \in Nat /\ treasury[k] \in Nat
        BY DEF TypeOK
    <1>1. ASSUME NEW c \in Contests, NEW w \in Creators, NEW o \in Offers, CreateContest(c, w, o)
          PROVE  Backed(k)'
        <2>1. /\ \A d \in Contests \ {c} : contest'[d] = contest[d]
              /\ contest'[c].entry_fees[k] = 0
              /\ UNCHANGED <<opRev, treasury>>
            BY <1>1 DEF CreateContest, TypeOK
        <2>. QED
            BY <2>1, ReportMoved, FeesTyped DEF Backed
    <1>2. ASSUME NEW c \in Contests, NEW w \in Wallets, NEW n \in EntryNums, NEW j \in Currencies,
                 EnterContest(c, w, n, j)
          PROVE  Backed(k)'
        <2>. DEFINE fee == contest[c].fee[j]
        <2>1. fee \in Nat /\ contest[c].entry_fees[k] \in Nat
            BY FeesTyped
        <2>2. /\ \A d \in Contests \ {c} : contest'[d] = contest[d]
              /\ opRev' = [opRev EXCEPT ![j] = @ + fee]
              /\ UNCHANGED treasury
            BY <1>2 DEF EnterContest, Enter, TypeOK
        <2>3. contest'[c].entry_fees[k] = contest[c].entry_fees[k] + (IF k = j THEN fee ELSE 0)
            <3>1. contest[c] \in ContestAccounts
                BY DEF TypeOK
            <3>2. contest[c].entry_fees \in [Currencies -> Nat]
                BY <3>1 DEF ContestAccounts
            <3>3. contest' = [contest EXCEPT ![c] =
                      [contest[c] EXCEPT !.current_entries = @ + 1, !.entry_fees[j] = @ + fee]]
                BY <1>2 DEF EnterContest
            <3>4. contest'[c].entry_fees = [contest[c].entry_fees EXCEPT ![j] = @ + fee]
                BY <3>1, <3>3 DEF TypeOK, ContestAccounts
            <3>. QED
                BY <2>1, <3>2, <3>4
        <2>4. opRev'[k] = opRev[k] + (IF k = j THEN fee ELSE 0)
            BY <2>1, <2>2 DEF TypeOK
        <2>. HIDE DEF fee
        <2>5. Reported(k)' = Reported(k) + (IF k = j THEN fee ELSE 0) /\ Reported(k) \in Nat
            BY <2>1, <2>2, <2>3, ReportMoved
        <2>. QED
            BY <2>1, <2>2, <2>4, <2>5 DEF Backed
    <1>3. ASSUME NEW c \in Contests, NEW w \in Wallets, NEW n \in EntryNums, NEW t \in Tokens,
                 EnterContestWithToken(c, w, n, t)
          PROVE  Backed(k)'
        <2>1. \A d \in Contests : contest'[d].entry_fees = contest[d].entry_fees
            BY <1>3 DEF EnterContestWithToken, TypeOK, ContestAccounts
        <2>. QED
            BY <1>3, <2>1, ReportKept DEF EnterContestWithToken, Enter, Backed
    <1>4. ASSUME NEW c \in Contests, NEW rows \in Settlements, SettleContest(c, rows)
          PROVE  Backed(k)'
        <2>1. \A d \in Contests : contest'[d].entry_fees = contest[d].entry_fees
            BY <1>4 DEF SettleContest, TypeOK, ContestAccounts
        <2>2. UNCHANGED <<opRev, treasury>>
            BY <1>4 DEF SettleContest
        <2>. QED
            BY <2>1, <2>2, ReportKept DEF Backed
    <1>5. ASSUME NEW c \in Contests, CancelContest(c) PROVE Backed(k)'
        <2>1. \A d \in Contests : contest'[d].entry_fees = contest[d].entry_fees
            BY <1>5 DEF CancelContest, TypeOK, ContestAccounts
        <2>. QED
            BY <1>5, <2>1, ReportKept DEF CancelContest, Backed
    <1>6. ASSUME NEW c \in Contests, CloseContest(c) PROVE Backed(k)'
        <2>1. /\ \A d \in Contests \ {c} : contest'[d] = contest[d]
              /\ contest'[c].entry_fees[k] = 0
              /\ UNCHANGED treasury
            BY <1>6 DEF CloseContest, TypeOK, NoContest
        <2>2. opRev'[k] >= opRev[k] /\ opRev'[k] \in Nat
            BY <1>6 DEF CloseContest, TypeOK
        <2>3. Reported(k)' =< Reported(k) /\ Reported(k)' \in Int /\ Reported(k) \in Nat
            BY <2>1, ReportMoved, FeesTyped
        <2>. QED
            BY <2>1, <2>2, <2>3 DEF Backed
    <1>7. ASSUME NEW c \in Contests, NEW t \in Timestamps,
                 SetContestLockTime(c, t) \/ SetContestConclusionTime(c, t)
          PROVE  Backed(k)'
        <2>1. ASSUME SetContestLockTime(c, t) PROVE Backed(k)'
            <3>1. \A d \in Contests : contest'[d].entry_fees = contest[d].entry_fees
                BY <2>1 DEF SetContestLockTime, TypeOK, ContestAccounts
            <3>. QED
                BY <2>1, <3>1, ReportKept DEF SetContestLockTime, money, Backed
        <2>2. ASSUME SetContestConclusionTime(c, t) PROVE Backed(k)'
            <3>1. \A d \in Contests : contest'[d].entry_fees = contest[d].entry_fees
                BY <2>2 DEF SetContestConclusionTime, TypeOK, ContestAccounts
            <3>. QED
                BY <2>2, <3>1, ReportKept DEF SetContestConclusionTime, money, Backed
        <2>. QED
            BY <1>7, <2>1, <2>2
    <1>8. ASSUME NEW j \in Currencies, NEW amount \in SweepAmounts, SweepOperatorRevenue(j, amount)
          PROVE  Backed(k)'
        <2>. DEFINE sent == IF amount = 0 THEN opRev[j] ELSE amount
        <2>1. sent \in Nat /\ opRev[j] - sent \in Nat
            BY <1>8, ContestAssumption DEF SweepOperatorRevenue, Sweepable, TypeOK
        <2>2. /\ opRev' = [opRev EXCEPT ![j] = @ - sent]
              /\ treasury' = [treasury EXCEPT ![j] = @ + sent]
              /\ UNCHANGED contest
            BY <1>8 DEF SweepOperatorRevenue
        <2>. HIDE DEF sent
        <2>3. /\ opRev'[k] = opRev[k] - (IF k = j THEN sent ELSE 0)
              /\ treasury'[k] = treasury[k] + (IF k = j THEN sent ELSE 0)
            BY <2>1, <2>2 DEF TypeOK
        <2>4. Reported(k)' = Reported(k)
            BY <2>2, ReportKept
        <2>. QED
            BY <2>1, <2>3, <2>4 DEF Backed
    <1>9. ASSUME \/ \E w \in Donors, c \in Contests : DonateToPool(w, c)
                 \/ \E j \in Deactivable : DeactivateCurrency(j)
                 \/ SetPaused \/ Tick \/ UNCHANGED vars
          PROVE  Backed(k)'
        <2>1. UNCHANGED <<contest, opRev, treasury>>
            BY <1>9 DEF DonateToPool, DeactivateCurrency, SetPaused, Tick, vars, money
        <2>. QED
            BY <2>1, ReportKept DEF Backed
    <1>. QED
        BY <1>1, <1>2, <1>3, <1>4, <1>5, <1>6, <1>7, <1>8, <1>9 DEF Next

\* Operator revenue never leaks: every fee a live contest reports is in the
\* revenue account of its currency or was swept to the treasury.
THEOREM FeesAreAlwaysRevenue == Spec => []FeesAreRevenue
    <1>. DEFINE AllBacked == \A k \in Currencies : Backed(k)
    <1>1. Init => AllBacked
        <2>. SUFFICES ASSUME Init, NEW k \in Currencies PROVE Backed(k)
            OBVIOUS
        <2>. DEFINE reports == [c \in Contests |-> contest[c].entry_fees[k]]
        <2>1. \A c \in Contests : reports[c] = 0
            BY DEF Init, NoContest
        <2>2. IsFiniteSet(Contests)
            BY ContestAssumption
        <2>3. SumFunctionOnSet(reports, Contests) = 0
            <3>. HIDE DEF reports
            <3>. QED
                BY <2>1, <2>2, SumZero
        <2>. QED
            BY <2>3 DEF Init, Backed, Reported
    <1>2. TypeOK /\ AllBacked /\ [Next]_vars => AllBacked'
        BY StepKeepsBacked
    <1>3. AllBacked => FeesAreRevenue
        BY DEF FeesAreRevenue, Backed, Reported
    <1>. HIDE DEF AllBacked
    <1>. QED
        BY <1>1, <1>2, <1>3, EscrowTypeCorrect, PTL DEF Spec

-----------------------------------------------------------------------------
(* The counters                                                              *)

KeysOf(w) == {e \in EntryKeys : e[2] = w}

\* What each entry account adds to a counter of its wallet.
Present == [e \in EntryKeys |-> IF entry[e].status # "none" THEN 1 ELSE 0]
Earned == [e \in EntryKeys |-> IF entry[e].status # "none"
                                THEN seeds_for(entry[e].season, e[3]) ELSE 0]
Winnings == [e \in EntryKeys |-> entry[e].payout]
Cashed == [e \in EntryKeys |-> IF entry[e].status = "Won" THEN 1 ELSE 0]
Firsts == [e \in EntryKeys |-> IF entry[e].rank = 1 THEN 1 ELSE 0]

\* The counters are the sums over the wallet's entry accounts.
Tallied ==
    \A w \in Wallets :
        /\ player[w].entries = SumFunctionOnSet(Present, KeysOf(w))
        /\ player[w].seeds = SumFunctionOnSet(Earned, KeysOf(w))
        /\ player[w].total_won = SumFunctionOnSet(Winnings, KeysOf(w))
        /\ player[w].cashes = SumFunctionOnSet(Cashed, KeysOf(w))
        /\ player[w].wins = SumFunctionOnSet(Firsts, KeysOf(w))

\* An entry that is not graded has no rank and no payout yet.
UngradedIsClean ==
    \A e \in EntryKeys :
        entry[e].status \in {"none", "Active"} => entry[e].rank = 0 /\ entry[e].payout = 0

\* An entry account is found by a contest, a wallet and a number.
LEMMA KeyParts ==
    ASSUME NEW e \in EntryKeys
    PROVE  /\ e[1] \in Contests /\ e[2] \in Wallets /\ e[3] \in EntryNums
           /\ e = <<e[1], e[2], e[3]>>
BY DEF EntryKeys

\* And that way there is one for every three of them.
LEMMA KeyOfParts ==
    ASSUME NEW c \in Contests, NEW w \in Wallets, NEW n \in EntryNums
    PROVE  LET e == <<c, w, n>>
           IN  e \in EntryKeys /\ e[1] = c /\ e[2] = w /\ e[3] = n
BY DEF EntryKeys

\* There are finitely many addresses of entry accounts.
LEMMA FiniteKeys ==
    /\ IsFiniteSet(EntryKeys)
    /\ \A w \in Wallets : IsFiniteSet(KeysOf(w)) /\ KeysOf(w) \subseteq EntryKeys
    <1>1. IsFiniteSet(Wallets \X EntryNums)
        BY ContestAssumption, FS_Product
    <1>2. IsFiniteSet(Contests \X (Wallets \X EntryNums))
        BY <1>1, ContestAssumption, FS_Product
    <1>. DEFINE flat == [p \in Contests \X (Wallets \X EntryNums) |-> <<p[1], p[2][1], p[2][2]>>]
    <1>3. flat \in Surjection(Contests \X (Wallets \X EntryNums), EntryKeys)
        <2>1. \A p \in Contests \X (Wallets \X EntryNums) : flat[p] \in EntryKeys
            BY DEF EntryKeys
        <2>2. ASSUME NEW e \in EntryKeys
              PROVE  \E p \in Contests \X (Wallets \X EntryNums) : flat[p] = e
            <3>1. <<e[1], <<e[2], e[3]>>>> \in Contests \X (Wallets \X EntryNums)
                BY KeyParts
            <3>2. flat[<<e[1], <<e[2], e[3]>>>>] = <<e[1], e[2], e[3]>>
                BY <3>1
            <3>. QED
                BY <3>1, <3>2, KeyParts
        <2>. QED
            BY <2>1, <2>2 DEF Surjection
    <1>4. IsFiniteSet(EntryKeys)
        <2>. HIDE DEF flat
        <2>. QED
            BY <1>2, <1>3, FS_Surjection
    <1>. QED
        BY <1>4, FS_Subset DEF KeysOf

\* What entries add is a number each.
LEMMA AddedTyped ==
    ASSUME TypeOK, NEW e \in EntryKeys
    PROVE  /\ Present[e] \in Nat /\ Earned[e] \in Nat /\ Winnings[e] \in Nat
           /\ Cashed[e] \in Nat /\ Firsts[e] \in Nat
    <1>1. entry[e] \in EntryAccounts
        BY DEF TypeOK
    <1>2. e[3] \in EntryNums
        BY DEF EntryKeys
    <1>3. seeds_for(entry[e].season, e[3]) \in Nat
        BY <1>1, <1>2, SeedsTyped DEF EntryAccounts
    <1>. QED
        BY <1>1, <1>3 DEF EntryAccounts, Present, Earned, Winnings, Cashed, Firsts

\* One entry's change is a change of its own wallet's sum.
LEMMA OneKey ==
    ASSUME NEW f, NEW g, NEW e \in EntryKeys,
           \A x \in EntryKeys : f[x] \in Int /\ g[x] \in Int,
           \A x \in EntryKeys \ {e} : g[x] = f[x],
           NEW v \in Wallets
    PROVE  /\ SumFunctionOnSet(g, KeysOf(v))
                = SumFunctionOnSet(f, KeysOf(v)) + (IF v = e[2] THEN g[e] - f[e] ELSE 0)
           /\ SumFunctionOnSet(f, KeysOf(v)) \in Int
    <1>1. IsFiniteSet(KeysOf(v)) /\ KeysOf(v) \subseteq EntryKeys
        BY FiniteKeys
    <1>2. e \in KeysOf(v) <=> v = e[2]
        BY DEF KeysOf
    <1>3. SumFunctionOnSet(f, KeysOf(v)) \in Int
        BY <1>1, SumType
    <1>4. CASE v = e[2]
        <2>1. SumFunctionOnSet(g, KeysOf(v)) = SumFunctionOnSet(f, KeysOf(v)) + g[e] - f[e]
            BY <1>1, <1>2, <1>4, SumChange
        <2>. QED
            BY <1>3, <1>4, <2>1
    <1>5. CASE v # e[2]
        <2>1. SumFunctionOnSet(g, KeysOf(v)) = SumFunctionOnSet(f, KeysOf(v))
            BY <1>1, <1>2, <1>5, SumCongruence
        <2>. QED
            BY <1>3, <1>5, <2>1
    <1>. QED
        BY <1>4, <1>5

\* What the rows of a list add to their entries they add to their wallets.
LEMMA RowsTallied ==
    ASSUME NEW rows \in Settlements, NEW c \in Contests, DistinctEntries(c, rows),
           NEW f, NEW g, NEW gain,
           \A x \in EntryKeys : f[x] \in Int /\ g[x] \in Int,
           \A i \in DOMAIN rows : gain[i] \in Int,
           \A i \in DOMAIN rows : g[RowKey(c, rows[i])] = f[RowKey(c, rows[i])] + gain[i],
           \A x \in EntryKeys : (\A i \in DOMAIN rows : RowKey(c, rows[i]) # x) => g[x] = f[x],
           NEW w \in Wallets
    PROVE  SumFunctionOnSet(g, KeysOf(w)) = SumFunctionOnSet(f, KeysOf(w))
             + SumFunctionOnSet(gain, {i \in DOMAIN rows : rows[i].wallet = w})
    <1>. DEFINE mine == {i \in DOMAIN rows : rows[i].wallet = w}
                key == [i \in mine |-> RowKey(c, rows[i])]
                named == {key[i] : i \in mine}
                delta == [x \in EntryKeys |-> g[x] - f[x]]
    <1>1. IsFiniteSet(KeysOf(w)) /\ KeysOf(w) \subseteq EntryKeys /\ IsFiniteSet(mine)
        BY FiniteKeys, RowsOfAList
    <1>2. \A i \in mine : key[i] \in KeysOf(w) /\ delta[key[i]] = gain[i] /\ gain[i] \in Int
        <2>. SUFFICES ASSUME NEW i \in mine
                      PROVE  key[i] \in KeysOf(w) /\ delta[key[i]] = gain[i]
            OBVIOUS
        <2>1. PICK n \in EntryNums : key[i] = <<c, w, n>>
            BY RowsOfAList DEF RowKey
        <2>2. key[i] \in EntryKeys /\ key[i][2] = w
            <3>. HIDE DEF key
            <3>. QED
                BY <2>1, KeyOfParts
        <2>3. g[key[i]] = f[key[i]] + gain[i] /\ f[key[i]] \in Int /\ gain[i] \in Int
            BY <2>2
        <2>. QED
            BY <2>2, <2>3 DEF KeysOf
    <1>3. \A i, j \in mine : key[i] = key[j] => i = j
        BY DEF DistinctEntries
    <1>4. named \in SUBSET KeysOf(w)
        BY <1>2
    <1>5. \A x \in KeysOf(w) \ named : delta[x] = 0
        <2>. SUFFICES ASSUME NEW x \in KeysOf(w), x \notin named PROVE g[x] = f[x]
            BY <1>1
        <2>1. ASSUME NEW i \in DOMAIN rows, RowKey(c, rows[i]) = x PROVE FALSE
            <3>1. rows[i].wallet = w
                BY <2>1 DEF RowKey, KeysOf
            <3>2. i \in mine /\ key[i] = x
                BY <2>1, <3>1
            <3>. QED
                BY <3>2
        <2>. QED
            BY <1>1, <2>1
    <1>6. \A x \in KeysOf(w) : /\ f[x] \in Int /\ delta[x] \in Int
                               /\ g[x] = f[x] + delta[x]
        BY <1>1
    <1>. HIDE DEF mine, key, delta
    <1>7. SumFunctionOnSet(delta, named) = SumFunctionOnSet(gain, mine)
        BY <1>1, <1>2, <1>3, SumImage
    <1>. HIDE DEF named
    <1>8. SumFunctionOnSet(delta, KeysOf(w)) = SumFunctionOnSet(delta, named)
        BY <1>1, <1>4, <1>5, <1>6, SumOfPart
    <1>9. SumFunctionOnSet(g, KeysOf(w))
            = SumFunctionOnSet(f, KeysOf(w)) + SumFunctionOnSet(delta, KeysOf(w))
        BY <1>1, <1>6, SumPlus
    <1>. QED
        BY <1>7, <1>8, <1>9 DEF mine

\* A settlement grades the entries its rows name, by their row, and no others.
LEMMA SettledEntries ==
    ASSUME TypeOK, NEW c \in Contests, NEW rows \in Settlements, SettleContest(c, rows)
    PROVE  /\ \A i \in DOMAIN rows :
                  /\ RowKey(c, rows[i]) \in EntryKeys
                  /\ entry[RowKey(c, rows[i])].status = "Active"
                  /\ entry'[RowKey(c, rows[i])] = Graded(RowKey(c, rows[i]), rows[i])
           /\ \A e \in EntryKeys :
                  (\A i \in DOMAIN rows : RowKey(c, rows[i]) # e) => entry'[e] = entry[e]
    <1>. DEFINE row_of(e) == {i \in DOMAIN rows : RowKey(c, rows[i]) = e}
    <1>1. entry' = [e \in EntryKeys |-> IF row_of(e) = {} THEN entry[e]
                        ELSE Graded(e, rows[CHOOSE i \in row_of(e) : TRUE])]
        BY DEF SettleContest
    <1>2. ASSUME NEW i \in DOMAIN rows PROVE RowKey(c, rows[i]) \in EntryKeys
        <2>1. rows[i].wallet \in Wallets /\ rows[i].num \in EntryNums
            BY RowsOfAList
        <2>. QED
            BY <2>1, KeyOfParts DEF RowKey
    <1>3. ASSUME NEW i \in DOMAIN rows
          PROVE  entry'[RowKey(c, rows[i])] = Graded(RowKey(c, rows[i]), rows[i])
        <2>1. row_of(RowKey(c, rows[i])) = {i}
            BY DEF SettleContest, DistinctEntries
        <2>2. (CHOOSE j \in {i} : TRUE) = i
            OBVIOUS
        <2>. HIDE DEF row_of
        <2>3. entry'[RowKey(c, rows[i])]
                = Graded(RowKey(c, rows[i]), rows[CHOOSE j \in row_of(RowKey(c, rows[i])) : TRUE])
            BY <1>1, <1>2, <2>1
        <2>. QED
            BY <2>1, <2>2, <2>3
    <1>4. ASSUME NEW i \in DOMAIN rows PROVE entry[RowKey(c, rows[i])].status = "Active"
        BY DEF SettleContest, Gradable
    <1>5. ASSUME NEW e \in EntryKeys, \A i \in DOMAIN rows : RowKey(c, rows[i]) # e
          PROVE  entry'[e] = entry[e]
        <2>1. row_of(e) = {}
            BY <1>5
        <2>. HIDE DEF row_of
        <2>. QED
            BY <1>1, <2>1
    <1>. QED
        BY <1>2, <1>3, <1>4, <1>5

\* A graded entry has the rank, the payout and the status of its row.
LEMMA GradedFields ==
    ASSUME TypeOK, NEW e \in EntryKeys, NEW rows \in Settlements, NEW i \in DOMAIN rows
    PROVE  LET new == Graded(e, rows[i])
           IN  /\ new.rank = rows[i].rank /\ new.payout = rows[i].payout
               /\ new.status = IF rows[i].payout > 0 THEN "Won" ELSE "Lost"
               /\ new.paid = entry[e].paid /\ new.season = entry[e].season
    <1>1. entry[e] \in EntryAccounts
        BY DEF TypeOK
    <1>. QED
        BY <1>1 DEF Graded, EntryAccounts

\* Settling grades entries and credits their players alike.
LEMMA SettleKeepsTallied ==
    ASSUME TypeOK, Tallied, UngradedIsClean, NEW c \in Contests, NEW rows \in Settlements,
           SettleContest(c, rows)
    PROVE  Tallied' /\ UngradedIsClean'
    <1>. TypeOK'
        BY SettleTyped
    <1>. DEFINE all == DOMAIN rows
                payout == [i \in all |-> rows[i].payout]
                cash == [i \in all |-> IF rows[i].payout > 0 THEN 1 ELSE 0]
                win == [i \in all |-> IF rows[i].rank = 1 THEN 1 ELSE 0]
    <1>1. DistinctEntries(c, rows)
        BY DEF SettleContest
    <1>2. ASSUME NEW i \in all, NEW e \in EntryKeys, e = RowKey(c, rows[i])
          PROVE  /\ Present'[e] = Present[e] /\ Earned'[e] = Earned[e]
                 /\ Winnings'[e] = Winnings[e] + payout[i]
                 /\ Cashed'[e] = Cashed[e] + cash[i]
                 /\ Firsts'[e] = Firsts[e] + win[i]
                 /\ entry'[e].status \notin {"none", "Active"}
        <2>1. entry[e].status = "Active" /\ entry'[e] = Graded(e, rows[i])
            BY <1>2, SettledEntries
        <2>2. entry[e].rank = 0 /\ entry[e].payout = 0
            BY <2>1 DEF UngradedIsClean
        <2>3. /\ entry'[e].rank = rows[i].rank /\ entry'[e].payout = rows[i].payout
              /\ entry'[e].status = IF rows[i].payout > 0 THEN "Won" ELSE "Lost"
              /\ entry'[e].season = entry[e].season
            BY <2>1, GradedFields
        <2>4. rows[i].rank \in Nat /\ rows[i].payout \in Nat
            BY RowsOfAList
        <2>. QED
            BY <2>1, <2>2, <2>3, <2>4 DEF Present, Earned, Winnings, Cashed, Firsts
    <1>3. ASSUME NEW e \in EntryKeys, \A i \in all : RowKey(c, rows[i]) # e
          PROVE  /\ Present'[e] = Present[e] /\ Earned'[e] = Earned[e]
                 /\ Winnings'[e] = Winnings[e] /\ Cashed'[e] = Cashed[e]
                 /\ Firsts'[e] = Firsts[e] /\ entry'[e] = entry[e]
        <2>1. entry'[e] = entry[e]
            BY <1>3, SettledEntries
        <2>. QED
            BY <2>1 DEF Present, Earned, Winnings, Cashed, Firsts
    <1>4. \A i \in all : /\ RowKey(c, rows[i]) \in EntryKeys
                         /\ payout[i] \in Int /\ cash[i] \in Int /\ win[i] \in Int
        BY SettledEntries, RowsOfAList
    <1>5. UngradedIsClean'
        <2>. SUFFICES ASSUME NEW e \in EntryKeys, entry'[e].status \in {"none", "Active"}
                      PROVE  entry'[e].rank = 0 /\ entry'[e].payout = 0
            BY DEF UngradedIsClean
        <2>1. entry'[e] = entry[e]
            BY <1>2, <1>3
        <2>. QED
            BY <2>1 DEF UngradedIsClean
    <1>6. ASSUME NEW w \in Wallets
          PROVE  /\ player'[w].entries = SumFunctionOnSet(Present', KeysOf(w))
                 /\ player'[w].seeds = SumFunctionOnSet(Earned', KeysOf(w))
                 /\ player'[w].total_won = SumFunctionOnSet(Winnings', KeysOf(w))
                 /\ player'[w].cashes = SumFunctionOnSet(Cashed', KeysOf(w))
                 /\ player'[w].wins = SumFunctionOnSet(Firsts', KeysOf(w))
        <2>. DEFINE mine == {i \in all : rows[i].wallet = w}
                    paysMine == [i \in mine |-> rows[i].payout]
        <2>1. \A x \in EntryKeys :
                  /\ Winnings[x] \in Int /\ Winnings'[x] \in Int
                  /\ Cashed[x] \in Int /\ Cashed'[x] \in Int
                  /\ Firsts[x] \in Int /\ Firsts'[x] \in Int
            <3>. SUFFICES ASSUME NEW x \in EntryKeys
                          PROVE  /\ Winnings[x] \in Int /\ Winnings'[x] \in Int
                                 /\ Cashed[x] \in Int /\ Cashed'[x] \in Int
                                 /\ Firsts[x] \in Int /\ Firsts'[x] \in Int
                OBVIOUS
            <3>1. Winnings[x] \in Nat /\ Cashed[x] \in Nat /\ Firsts[x] \in Nat
                BY AddedTyped
            <3>2. entry'[x] \in EntryAccounts
                BY DEF TypeOK
            <3>. QED
                BY <3>1, <3>2 DEF Winnings, Cashed, Firsts, EntryAccounts
        <2>2. \A x \in KeysOf(w) : Present'[x] = Present[x] /\ Earned'[x] = Earned[x]
            BY <1>2, <1>3, FiniteKeys
        <2>3. /\ SumFunctionOnSet(Present', KeysOf(w)) = SumFunctionOnSet(Present, KeysOf(w))
              /\ SumFunctionOnSet(Earned', KeysOf(w)) = SumFunctionOnSet(Earned, KeysOf(w))
            BY <2>2, FiniteKeys, SumCongruence
        <2>. HIDE DEF payout, cash, win
        <2>4. SumFunctionOnSet(Winnings', KeysOf(w))
                = SumFunctionOnSet(Winnings, KeysOf(w)) + SumFunctionOnSet(payout, mine)
            <3>1. \A x \in EntryKeys : Winnings[x] \in Int /\ Winnings'[x] \in Int
                BY <2>1
            <3>2. \A i \in all : payout[i] \in Int
                BY <1>4
            <3>3. \A i \in all :
                      Winnings'[RowKey(c, rows[i])] = Winnings[RowKey(c, rows[i])] + payout[i]
                BY <1>2, <1>4
            <3>4. \A x \in EntryKeys :
                      (\A i \in all : RowKey(c, rows[i]) # x) => Winnings'[x] = Winnings[x]
                BY <1>3
            <3>. QED
                BY <1>1, <3>1, <3>2, <3>3, <3>4, RowsTallied
        <2>5. SumFunctionOnSet(Cashed', KeysOf(w))
                = SumFunctionOnSet(Cashed, KeysOf(w)) + SumFunctionOnSet(cash, mine)
            <3>1. \A x \in EntryKeys : Cashed[x] \in Int /\ Cashed'[x] \in Int
                BY <2>1
            <3>2. \A i \in all : cash[i] \in Int
                BY <1>4
            <3>3. \A i \in all :
                      Cashed'[RowKey(c, rows[i])] = Cashed[RowKey(c, rows[i])] + cash[i]
                BY <1>2, <1>4
            <3>4. \A x \in EntryKeys :
                      (\A i \in all : RowKey(c, rows[i]) # x) => Cashed'[x] = Cashed[x]
                BY <1>3
            <3>. QED
                BY <1>1, <3>1, <3>2, <3>3, <3>4, RowsTallied
        <2>6. SumFunctionOnSet(Firsts', KeysOf(w))
                = SumFunctionOnSet(Firsts, KeysOf(w)) + SumFunctionOnSet(win, mine)
            <3>1. \A x \in EntryKeys : Firsts[x] \in Int /\ Firsts'[x] \in Int
                BY <2>1
            <3>2. \A i \in all : win[i] \in Int
                BY <1>4
            <3>3. \A i \in all :
                      Firsts'[RowKey(c, rows[i])] = Firsts[RowKey(c, rows[i])] + win[i]
                BY <1>2, <1>4
            <3>4. \A x \in EntryKeys :
                      (\A i \in all : RowKey(c, rows[i]) # x) => Firsts'[x] = Firsts[x]
                BY <1>3
            <3>. QED
                BY <1>1, <3>1, <3>2, <3>3, <3>4, RowsTallied
        <2>7. IsFiniteSet(mine)
            BY RowsOfAList
        <2>8. SumFunctionOnSet(payout, mine) = Paid(rows, mine)
            <3>1. \A i \in mine : paysMine[i] = payout[i]
                BY DEF payout
            <3>2. Paid(rows, mine) = SumFunctionOnSet(paysMine, mine)
                BY DEF Paid
            <3>. HIDE DEF mine, paysMine
            <3>. QED
                BY <2>7, <3>1, <3>2, SumCongruence
        <2>9. SumFunctionOnSet(cash, mine) = Cardinality({i \in mine : rows[i].payout > 0})
            <3>. DEFINE T == {i \in mine : rows[i].payout > 0}
            <3>1. T \in SUBSET mine /\ \A i \in mine : cash[i] = IF i \in T THEN 1 ELSE 0
                BY DEF cash
            <3>. HIDE DEF T, mine
            <3>2. SumFunctionOnSet(cash, mine) = Cardinality(T)
                BY <2>7, <3>1, SumCounts
            <3>. QED
                BY <3>2 DEF T
        <2>10. SumFunctionOnSet(win, mine) = Cardinality({i \in mine : rows[i].rank = 1})
            <3>. DEFINE T == {i \in mine : rows[i].rank = 1}
            <3>1. T \in SUBSET mine /\ \A i \in mine : win[i] = IF i \in T THEN 1 ELSE 0
                BY DEF win
            <3>. HIDE DEF T, mine
            <3>2. SumFunctionOnSet(win, mine) = Cardinality(T)
                BY <2>7, <3>1, SumCounts
            <3>. QED
                BY <3>2 DEF T
        <2>11. player'[w] = Credited(player[w], rows, mine) /\ player[w] \in Counters
            BY DEF SettleContest, TypeOK
        <2>. HIDE DEF mine
        <2>12. /\ player'[w].entries = player[w].entries /\ player'[w].seeds = player[w].seeds
               /\ player'[w].total_won = player[w].total_won + Paid(rows, mine)
               /\ player'[w].cashes
                    = player[w].cashes + Cardinality({i \in mine : rows[i].payout > 0})
               /\ player'[w].wins
                    = player[w].wins + Cardinality({i \in mine : rows[i].rank = 1})
            BY <2>11 DEF Credited, Counters
        <2>. QED
            BY <2>3, <2>4, <2>5, <2>6, <2>8, <2>9, <2>10, <2>12 DEF Tallied
    <1>7. \A w \in Wallets : KeysOf(w)' = KeysOf(w)
        BY DEF KeysOf, EntryKeys
    <1>. QED
        BY <1>5, <1>6, <1>7 DEF Tallied

\* Entering creates the entry the counters count.
LEMMA EnterKeepsTallied ==
    ASSUME TypeOK, Tallied, UngradedIsClean, NEW c \in Contests, NEW w \in Wallets,
           NEW n \in EntryNums, NEW paid \in {"fee", "token"}, Enter(c, w, n, paid)
    PROVE  Tallied' /\ UngradedIsClean'
    <1>. DEFINE e == <<c, w, n>>
                s == contest[c].season_id
    <1>0. s \in Seasons
        BY DEF TypeOK, ContestAccounts
    <1>1. e \in EntryKeys /\ e[2] = w /\ e[3] = n
        BY KeyOfParts
    <1>2. /\ entry[e].status = "none"
          /\ entry' = [entry EXCEPT ![e] = [NoEntry EXCEPT !.status = "Active", !.paid = paid,
                                                           !.season = s]]
          /\ player' = [player EXCEPT ![w].entries = @ + 1, ![w].seeds = @ + seeds_for(s, n)]
        BY DEF Enter
    <1>3. entry' \in [EntryKeys -> EntryAccounts] /\ entry \in [EntryKeys -> EntryAccounts]
        BY EnterTyped DEF TypeOK
    <1>4. /\ entry'[e].status = "Active" /\ entry'[e].rank = 0 /\ entry'[e].payout = 0
          /\ entry'[e].season = s
        BY <1>1, <1>2, <1>3 DEF NoEntry
    <1>5. entry[e].rank = 0 /\ entry[e].payout = 0
        BY <1>1, <1>2 DEF UngradedIsClean
    <1>6. \A x \in EntryKeys \ {e} : entry'[x] = entry[x]
        BY <1>1, <1>2, <1>3
    <1>. HIDE DEF e, s
    <1>7. UngradedIsClean'
        BY <1>1, <1>4, <1>6 DEF UngradedIsClean
    <1>8. /\ Present'[e] = 1 /\ Present[e] = 0
          /\ Earned'[e] = seeds_for(s, n) /\ Earned[e] = 0
          /\ Winnings'[e] = Winnings[e] /\ Cashed'[e] = Cashed[e] /\ Firsts'[e] = Firsts[e]
        BY <1>1, <1>2, <1>4, <1>5 DEF Present, Earned, Winnings, Cashed, Firsts
    <1>9. \A x \in EntryKeys \ {e} :
              /\ Present'[x] = Present[x] /\ Earned'[x] = Earned[x]
              /\ Winnings'[x] = Winnings[x] /\ Cashed'[x] = Cashed[x] /\ Firsts'[x] = Firsts[x]
        BY <1>6 DEF Present, Earned, Winnings, Cashed, Firsts
    <1>10. seeds_for(s, n) \in Nat
        BY <1>0, SeedsTyped
    <1>11. \A x \in EntryKeys : /\ Present[x] \in Int /\ Present'[x] \in Int
                                /\ Earned[x] \in Int /\ Earned'[x] \in Int
        BY <1>8, <1>9, <1>10, AddedTyped
    <1>12. ASSUME NEW v \in Wallets
           PROVE  /\ player'[v].entries = SumFunctionOnSet(Present', KeysOf(v))
                  /\ player'[v].seeds = SumFunctionOnSet(Earned', KeysOf(v))
                  /\ player'[v].total_won = SumFunctionOnSet(Winnings', KeysOf(v))
                  /\ player'[v].cashes = SumFunctionOnSet(Cashed', KeysOf(v))
                  /\ player'[v].wins = SumFunctionOnSet(Firsts', KeysOf(v))
        <2>1. /\ SumFunctionOnSet(Present', KeysOf(v))
                   = SumFunctionOnSet(Present, KeysOf(v)) + (IF v = w THEN 1 ELSE 0)
              /\ SumFunctionOnSet(Present, KeysOf(v)) \in Int
            <3>1. \A x \in EntryKeys : Present[x] \in Int /\ Present'[x] \in Int
                BY <1>11
            <3>2. \A x \in EntryKeys \ {e} : Present'[x] = Present[x]
                BY <1>9
            <3>3. /\ SumFunctionOnSet(Present', KeysOf(v)) = SumFunctionOnSet(Present, KeysOf(v))
                         + (IF v = e[2] THEN Present'[e] - Present[e] ELSE 0)
                  /\ SumFunctionOnSet(Present, KeysOf(v)) \in Int
                BY <1>1, <3>1, <3>2, OneKey
            <3>. QED
                BY <1>1, <1>8, <1>10, <3>3
        <2>2. /\ SumFunctionOnSet(Earned', KeysOf(v))
                   = SumFunctionOnSet(Earned, KeysOf(v)) + (IF v = w THEN seeds_for(s, n) ELSE 0)
              /\ SumFunctionOnSet(Earned, KeysOf(v)) \in Int
            <3>1. \A x \in EntryKeys : Earned[x] \in Int /\ Earned'[x] \in Int
                BY <1>11
            <3>2. \A x \in EntryKeys \ {e} : Earned'[x] = Earned[x]
                BY <1>9
            <3>3. /\ SumFunctionOnSet(Earned', KeysOf(v)) = SumFunctionOnSet(Earned, KeysOf(v))
                         + (IF v = e[2] THEN Earned'[e] - Earned[e] ELSE 0)
                  /\ SumFunctionOnSet(Earned, KeysOf(v)) \in Int
                BY <1>1, <3>1, <3>2, OneKey
            <3>. QED
                BY <1>1, <1>8, <1>10, <3>3
        <2>3. \A x \in KeysOf(v) : /\ Winnings'[x] = Winnings[x] /\ Cashed'[x] = Cashed[x]
                                   /\ Firsts'[x] = Firsts[x]
            BY <1>8, <1>9, FiniteKeys
        <2>4. /\ SumFunctionOnSet(Winnings', KeysOf(v)) = SumFunctionOnSet(Winnings, KeysOf(v))
              /\ SumFunctionOnSet(Cashed', KeysOf(v)) = SumFunctionOnSet(Cashed, KeysOf(v))
              /\ SumFunctionOnSet(Firsts', KeysOf(v)) = SumFunctionOnSet(Firsts, KeysOf(v))
            BY <2>3, FiniteKeys, SumCongruence
        <2>5. /\ player'[v].entries = player[v].entries + (IF v = w THEN 1 ELSE 0)
              /\ player'[v].seeds = player[v].seeds + (IF v = w THEN seeds_for(s, n) ELSE 0)
              /\ player'[v].total_won = player[v].total_won
              /\ player'[v].cashes = player[v].cashes /\ player'[v].wins = player[v].wins
            <3>1. player \in [Wallets -> Counters] /\ player[v] \in Counters
                BY DEF TypeOK
            <3>2. player[v].entries \in Nat /\ player[v].seeds \in Nat
                BY <3>1 DEF Counters
            <3>. QED
                BY <1>2, <1>10, <3>1, <3>2 DEF Counters
        <2>. QED
            BY <2>1, <2>2, <2>4, <2>5 DEF Tallied
    <1>13. \A v \in Wallets : KeysOf(v)' = KeysOf(v)
        BY DEF KeysOf, EntryKeys
    <1>. QED
        BY <1>7, <1>12, <1>13 DEF Tallied

\* Nobody else writes entry accounts or counters.
LEMMA StepOnEntries ==
    ASSUME [Next]_vars
    PROVE  \/ \E c \in Contests, w \in Wallets, n \in EntryNums, k \in Currencies :
                  EnterContest(c, w, n, k)
           \/ \E c \in Contests, w \in Wallets, n \in EntryNums, t \in Tokens :
                  EnterContestWithToken(c, w, n, t)
           \/ \E c \in Contests, rows \in Settlements : SettleContest(c, rows)
           \/ UNCHANGED <<entry, player, consumed>>
    <1>1. ASSUME NEW c \in Contests PROVE
              \/ \E w \in Creators, o \in Offers : CreateContest(c, w, o)
              \/ CancelContest(c) \/ CloseContest(c)
              \/ \E t \in Timestamps : SetContestLockTime(c, t)
              \/ \E t \in Timestamps : SetContestConclusionTime(c, t)
              \/ \E w \in Donors : DonateToPool(w, c)
              => UNCHANGED <<entry, player, consumed>>
        BY DEF CreateContest, CancelContest, CloseContest, SetContestLockTime,
               SetContestConclusionTime, DonateToPool
    <1>2. \/ \E k \in Currencies, amount \in SweepAmounts : SweepOperatorRevenue(k, amount)
          \/ \E k \in Deactivable : DeactivateCurrency(k)
          \/ SetPaused \/ Tick \/ UNCHANGED vars
          => UNCHANGED <<entry, player, consumed>>
        BY DEF SweepOperatorRevenue, DeactivateCurrency, SetPaused, Tick, vars
    <1>. QED
        BY <1>1, <1>2 DEF Next

\* Every instruction keeps the counters in step with the accounts.
LEMMA StepKeepsTallied ==
    ASSUME TypeOK, Tallied, UngradedIsClean, [Next]_vars
    PROVE  Tallied' /\ UngradedIsClean'
    <1>1. ASSUME NEW c \in Contests, NEW w \in Wallets, NEW n \in EntryNums,
                 \/ \E k \in Currencies : EnterContest(c, w, n, k)
                 \/ \E t \in Tokens : EnterContestWithToken(c, w, n, t)
          PROVE  Tallied' /\ UngradedIsClean'
        <2>1. Enter(c, w, n, "fee") \/ Enter(c, w, n, "token")
            BY <1>1 DEF EnterContest, EnterContestWithToken
        <2>. QED
            BY <2>1, EnterKeepsTallied
    <1>2. ASSUME UNCHANGED <<entry, player, consumed>> PROVE Tallied' /\ UngradedIsClean'
        BY <1>2 DEF Tallied, UngradedIsClean, Present, Earned, Winnings, Cashed, Firsts,
                    KeysOf, EntryKeys
    <1>. QED
        BY <1>1, <1>2, SettleKeepsTallied, StepOnEntries

\* At deployment there are no entries and the counters are zero.
LEMMA InitTallied == Init => Tallied /\ UngradedIsClean
    <1>. SUFFICES ASSUME Init PROVE Tallied /\ UngradedIsClean
        OBVIOUS
    <1>1. UngradedIsClean
        BY DEF Init, UngradedIsClean, NoEntry
    <1>2. \A e \in EntryKeys : /\ Present[e] = 0 /\ Earned[e] = 0 /\ Winnings[e] = 0
                               /\ Cashed[e] = 0 /\ Firsts[e] = 0
        BY DEF Init, NoEntry, Present, Earned, Winnings, Cashed, Firsts
    <1>3. ASSUME NEW w \in Wallets
          PROVE  /\ SumFunctionOnSet(Present, KeysOf(w)) = 0
                 /\ SumFunctionOnSet(Earned, KeysOf(w)) = 0
                 /\ SumFunctionOnSet(Winnings, KeysOf(w)) = 0
                 /\ SumFunctionOnSet(Cashed, KeysOf(w)) = 0
                 /\ SumFunctionOnSet(Firsts, KeysOf(w)) = 0
        BY <1>2, FiniteKeys, SumZero
    <1>. QED
        BY <1>1, <1>3 DEF Init, Tallied

\* The sums over all addresses are the sums over the accounts there are.
LEMMA TalliedReconciles ==
    ASSUME TypeOK, Tallied, UngradedIsClean
    PROVE  CountersReconcile
    <1>. SUFFICES ASSUME NEW w \in Wallets
                  PROVE  LET mine == EntriesOf(w)
                         IN  /\ player[w].entries = Cardinality(mine)
                             /\ player[w].seeds = SumFunctionOnSet(
                                   [e \in mine |-> seeds_for(entry[e].season, e[3])], mine)
                             /\ player[w].total_won = SumFunctionOnSet([e \in mine |-> entry[e].payout], mine)
                             /\ player[w].cashes = Cardinality({e \in mine : entry[e].status = "Won"})
                             /\ player[w].wins = Cardinality({e \in mine : entry[e].rank = 1})
        BY DEF CountersReconcile
    <1>. DEFINE mine == EntriesOf(w)
                won == {e \in mine : entry[e].status = "Won"}
                firsts == {e \in mine : entry[e].rank = 1}
                seeds == [e \in mine |-> seeds_for(entry[e].season, e[3])]
                payouts == [e \in mine |-> entry[e].payout]
    <1>1. IsFiniteSet(KeysOf(w)) /\ KeysOf(w) \subseteq EntryKeys
        BY FiniteKeys
    <1>2. /\ mine \in SUBSET KeysOf(w) /\ won \in SUBSET KeysOf(w) /\ firsts \in SUBSET KeysOf(w)
          /\ IsFiniteSet(mine)
        BY <1>1, FS_Subset DEF EntriesOf, KeysOf
    <1>3. \A e \in KeysOf(w) :
              /\ Present[e] = IF e \in mine THEN 1 ELSE 0
              /\ Cashed[e] = IF e \in won THEN 1 ELSE 0
              /\ Firsts[e] = IF e \in firsts THEN 1 ELSE 0
        BY <1>1 DEF EntriesOf, KeysOf, Present, Cashed, Firsts, UngradedIsClean
    <1>4. \A e \in KeysOf(w) \ mine : Earned[e] = 0 /\ Winnings[e] = 0
        BY <1>1 DEF EntriesOf, KeysOf, Earned, Winnings, UngradedIsClean
    <1>5. \A e \in mine : Earned[e] = seeds[e] /\ Winnings[e] = payouts[e]
        BY <1>1, <1>2 DEF EntriesOf, Earned, Winnings
    <1>6. \A e \in mine : Earned[e] \in Int /\ Winnings[e] \in Int
        BY <1>1, <1>2, AddedTyped
    <1>. HIDE DEF mine, won, firsts, seeds, payouts
    <1>7. /\ SumFunctionOnSet(Present, KeysOf(w)) = Cardinality(mine)
          /\ SumFunctionOnSet(Cashed, KeysOf(w)) = Cardinality(won)
          /\ SumFunctionOnSet(Firsts, KeysOf(w)) = Cardinality(firsts)
        BY <1>1, <1>2, <1>3, SumCounts
    <1>8. SumFunctionOnSet(Earned, KeysOf(w)) = SumFunctionOnSet(seeds, mine)
        <2>1. SumFunctionOnSet(Earned, KeysOf(w)) = SumFunctionOnSet(Earned, mine)
            BY <1>1, <1>2, <1>4, <1>6, SumOfPart
        <2>2. SumFunctionOnSet(Earned, mine) = SumFunctionOnSet(seeds, mine)
            BY <1>2, <1>5, SumCongruence
        <2>. QED
            BY <2>1, <2>2
    <1>9. SumFunctionOnSet(Winnings, KeysOf(w)) = SumFunctionOnSet(payouts, mine)
        <2>1. SumFunctionOnSet(Winnings, KeysOf(w)) = SumFunctionOnSet(Winnings, mine)
            BY <1>1, <1>2, <1>4, <1>6, SumOfPart
        <2>2. SumFunctionOnSet(Winnings, mine) = SumFunctionOnSet(payouts, mine)
            BY <1>2, <1>5, SumCongruence
        <2>. QED
            BY <2>1, <2>2
    <1>. QED
        BY <1>7, <1>8, <1>9 DEF Tallied, mine, won, firsts, seeds, payouts

\* A player's counters never drift from the entry accounts, through any order
\* of entries, settlements, cancellations, closings and re-creations.
THEOREM CountersAlwaysReconcile == Spec => []CountersReconcile
    <1>. QED
        BY InitTallied, StepKeepsTallied, TalliedReconciles, EscrowTypeCorrect, PTL DEF Spec

-----------------------------------------------------------------------------
(* The entry tokens                                                          *)

Spent(w) == {t \in consumed : TokenOwner[t] = w}
Funded(w) == {e \in EntriesOf(w) : entry[e].paid = "token"}

\* Tokens and entries are finitely many.
LEMMA FiniteTokens ==
    ASSUME TypeOK, NEW w \in Wallets
    PROVE  IsFiniteSet(Spent(w)) /\ IsFiniteSet(Funded(w))
    <1>1. Spent(w) \in SUBSET Tokens /\ Funded(w) \in SUBSET EntryKeys
        BY DEF TypeOK, Spent, Funded, EntriesOf
    <1>2. IsFiniteSet(Tokens) /\ IsFiniteSet(EntryKeys)
        BY ContestAssumption, FiniteKeys
    <1>. QED
        BY <1>1, <1>2, FS_Subset

Matched == \A w \in Wallets : Cardinality(Spent(w)) = Cardinality(Funded(w))

\* A new entry is funded by a token exactly when it says so.
LEMMA EnterFunds ==
    ASSUME TypeOK, NEW c \in Contests, NEW w \in Wallets, NEW n \in EntryNums,
           NEW paid \in {"fee", "token"}, Enter(c, w, n, paid), NEW v \in Wallets
    PROVE  /\ Funded(v)' = IF v = w /\ paid = "token"
                           THEN Funded(v) \cup {<<c, w, n>>} ELSE Funded(v)
           /\ <<c, w, n>> \notin Funded(v)
    <1>. DEFINE e == <<c, w, n>>
    <1>1. e \in EntryKeys /\ e[2] = w
        BY KeyOfParts
    <1>2. entry[e].status = "none"
        BY DEF Enter
    <1>3. entry'[e].status = "Active" /\ entry'[e].paid = paid
        BY <1>1 DEF Enter, NoEntry, TypeOK
    <1>4. \A x \in EntryKeys \ {e} : entry'[x] = entry[x]
        BY <1>1 DEF Enter, TypeOK
    <1>. HIDE DEF e
    <1>5. Funded(v)' = {x \in EntryKeys : x[2] = v /\ entry'[x].status # "none"
                                          /\ entry'[x].paid = "token"}
        BY DEF Funded, EntriesOf, EntryKeys
    <1>6. Funded(v) = {x \in EntryKeys : x[2] = v /\ entry[x].status # "none"
                                         /\ entry[x].paid = "token"}
        BY DEF Funded, EntriesOf
    <1>7. e \notin Funded(v)
        BY <1>2, <1>6
    <1>8. Funded(v)' = IF v = w /\ paid = "token" THEN Funded(v) \cup {e} ELSE Funded(v)
        BY <1>1, <1>2, <1>3, <1>4, <1>5, <1>6
    <1>. QED
        BY <1>7, <1>8 DEF e

\* Every instruction spends as many tokens as it funds entries.
LEMMA StepKeepsMatched ==
    ASSUME TypeOK, Matched, [Next]_vars
    PROVE  Matched'
    <1>. SUFFICES ASSUME NEW v \in Wallets
                  PROVE  Cardinality(Spent(v)') = Cardinality(Funded(v)')
        BY DEF Matched
    <1>. Cardinality(Spent(v)) = Cardinality(Funded(v))
        BY DEF Matched
    <1>1. ASSUME NEW c \in Contests, NEW w \in Wallets, NEW n \in EntryNums, NEW k \in Currencies,
                 EnterContest(c, w, n, k)
          PROVE  Cardinality(Spent(v)') = Cardinality(Funded(v)')
        <2>1. Funded(v)' = Funded(v)
            BY <1>1, EnterFunds DEF EnterContest
        <2>2. Spent(v)' = Spent(v)
            BY <1>1 DEF EnterContest, Spent
        <2>. QED
            BY <2>1, <2>2
    <1>2. ASSUME NEW c \in Contests, NEW w \in Wallets, NEW n \in EntryNums, NEW t \in Tokens,
                 EnterContestWithToken(c, w, n, t)
          PROVE  Cardinality(Spent(v)') = Cardinality(Funded(v)')
        <2>. DEFINE e == <<c, w, n>>
        <2>1. /\ Funded(v)' = IF v = w THEN Funded(v) \cup {e} ELSE Funded(v)
              /\ e \notin Funded(v)
            BY <1>2, EnterFunds DEF EnterContestWithToken
        <2>2. /\ Spent(v)' = IF v = w THEN Spent(v) \cup {t} ELSE Spent(v)
              /\ t \notin Spent(v)
            BY <1>2 DEF EnterContestWithToken, Spendable, Spent
        <2>3. CASE v = w
            <3>1. IsFiniteSet(Spent(v)) /\ IsFiniteSet(Funded(v))
                BY FiniteTokens
            <3>2. Cardinality(Spent(v) \cup {t}) = Cardinality(Spent(v)) + 1
                BY <2>2, <3>1, FS_AddElement
            <3>3. Cardinality(Funded(v) \cup {e}) = Cardinality(Funded(v)) + 1
                BY <2>1, <3>1, FS_AddElement
            <3>. QED
                BY <2>1, <2>2, <2>3, <3>2, <3>3
        <2>4. CASE v # w
            BY <2>1, <2>2, <2>4
        <2>. QED
            BY <2>3, <2>4
    <1>3. ASSUME NEW c \in Contests, NEW rows \in Settlements, SettleContest(c, rows)
          PROVE  Cardinality(Spent(v)') = Cardinality(Funded(v)')
        <2>1. \A e \in EntryKeys : /\ entry'[e].status = "none" <=> entry[e].status = "none"
                                   /\ entry'[e].paid = entry[e].paid
            <3>. SUFFICES ASSUME NEW e \in EntryKeys
                          PROVE  /\ entry'[e].status = "none" <=> entry[e].status = "none"
                                 /\ entry'[e].paid = entry[e].paid
                OBVIOUS
            <3>1. ASSUME NEW i \in DOMAIN rows, RowKey(c, rows[i]) = e
                  PROVE  /\ entry'[e].status # "none" /\ entry[e].status # "none"
                         /\ entry'[e].paid = entry[e].paid
                <4>1. entry[e].status = "Active" /\ entry'[e] = Graded(e, rows[i])
                    BY <1>3, <3>1, SettledEntries
                <4>. QED
                    BY <4>1, GradedFields
            <3>2. ASSUME \A i \in DOMAIN rows : RowKey(c, rows[i]) # e
                  PROVE  entry'[e] = entry[e]
                BY <1>3, <3>2, SettledEntries
            <3>. QED
                BY <3>1, <3>2
        <2>2. Funded(v)' = Funded(v)
            BY <2>1 DEF Funded, EntriesOf, EntryKeys
        <2>3. Spent(v)' = Spent(v)
            BY <1>3 DEF SettleContest, Spent
        <2>. QED
            BY <2>2, <2>3
    <1>4. ASSUME UNCHANGED <<entry, player, consumed>>
          PROVE  Cardinality(Spent(v)') = Cardinality(Funded(v)')
        BY <1>4 DEF Spent, Funded, EntriesOf, EntryKeys
    <1>. QED
        BY <1>1, <1>2, <1>3, <1>4, StepOnEntries

\* Every token spent stands behind an entry of its owner, and every entry that
\* says it was paid with a token has one behind it.
THEOREM TokensAlwaysFundEntries == Spec => []TokensFundEntries
    <1>1. Init => Matched
        <2>. SUFFICES ASSUME Init, NEW w \in Wallets
                      PROVE  Cardinality(Spent(w)) = Cardinality(Funded(w))
            BY DEF Matched
        <2>1. Spent(w) = {} /\ Funded(w) = {}
            BY DEF Init, NoEntry, Spent, Funded, EntriesOf
        <2>. QED
            BY <2>1
    <1>2. TypeOK /\ Matched /\ [Next]_vars => Matched'
        BY StepKeepsMatched
    <1>3. Matched => TokensFundEntries
        BY DEF Matched, TokensFundEntries, Spent, Funded
    <1>. QED
        BY <1>1, <1>2, <1>3, EscrowTypeCorrect, PTL DEF Spec
=============================================================================
