-------------------------- MODULE MCContestEscrow --------------------------
(***************************************************************************)
(* One contest id, created up to twice by one of two wallets that both     *)
(* play, two entry numbers each, one entry token, a payout currency and a  *)
(* second fee currency.                                                    *)
(***************************************************************************)
EXTENDS ContestEscrow

CONSTANTS c1, alice, bob, usdc, usdt, tok, s1, s2

MCContests == {c1}
MCWallets == {alice, bob}
MCCurrencies == {usdc, usdt}
MCTokens == {tok}
MCSeasons == {s1, s2}
MCSeedSchedule == [s \in MCSeasons |-> [i \in 0..4 |-> IF s = s1 THEN 5 - i ELSE 7 - i]]
MCTokenOwner == [t \in MCTokens |-> alice]

MCCreators == {alice}

(* What is offered: a funded contest without a lock whose entries cost the   *)
(* second currency, and a locked one that lives on fees alone, each in a     *)
(* season of its own.                                                        *)
Fee(K) == [k \in MCCurrencies |-> IF k \in K THEN 1 ELSE 0]
MCOffers ==
    { [prize |-> 1, fees |-> Fee({usdt}), max |-> 2, lock |-> 0,
        season |-> s1],
      [prize |-> 0, fees |-> Fee({usdc, usdt}), max |-> 1, lock |-> 2,
        season |-> s2] }

(* Every list of at most two rows, repeated entries and overdrafts included: *)
(* first places that win the prize, second places that win nothing.         *)
MCRows == {[wallet |-> w, num |-> n, rank |-> 2 - p, payout |-> p] :
               w \in MCWallets, n \in {0, 5}, p \in 0..1}
MCSettlements == UNION {[1..n -> MCRows] : n \in 0..2}
MCTimestamps == {-1, 0, 2, 3}

-----------------------------------------------------------------------------
(* The bound on the states explored.  Either the schedule stays small (the   *)
(* lock alone) and the money does all it can, with one of the brake, the     *)
(* deactivation and the sweeps at a time, or the schedule does all it can    *)
(* and alice plays alone, with her first entry.                              *)
SmallSchedule ==
    /\ now <= 2 /\ last \notin {"reopen", "amend", "conclude"}
    /\ \A c \in Contests : contest[c].conclusion_timestamp = 0
                           /\ contest[c].lock_timestamp \in {0, 2}
    /\ paused \/ active # Currencies => treasury = [k \in Currencies |-> 0]
    /\ paused => active = Currencies
SmallMoney ==
    /\ \A c \in Contests : entry[<<c, bob, 0>>].status = "none"
                           /\ \A w \in Wallets : entry[<<c, w, 5>>].status = "none"
    /\ wallet[bob] = [k \in Currencies |-> Endowment]
    /\ consumed = {} /\ active = Currencies /\ ~paused
    /\ treasury = [k \in Currencies |-> 0]
Explored == SmallSchedule \/ SmallMoney
=============================================================================
