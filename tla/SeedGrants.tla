----------------------------- MODULE SeedGrants -----------------------------
(***************************************************************************)
(* Loyalty seeds: awarded per entry by the schedule of the contest's       *)
(* season, and granted for quests by a single vault signature, at most     *)
(* once per user, kind and, for the invite quest, invited friend.          *)
(*                                                                         *)
(* A grant is guarded by an account that exists once it was made, so a     *)
(* retried grant collides; the friend must have entered a contest.         *)
(*                                                                         *)
(* Every creation of a contest binds it to a season anew: a closed one may *)
(* be created again under the same id for another season, while the entry  *)
(* accounts, which store no season, stay.                                  *)
(***************************************************************************)
EXTENDS Integers, FiniteSets, Functions

CONSTANTS
    Wallets,     \* wallets with a UserAccount
    NoInvitee,   \* Pubkey::default()
    Seasons,     \* season ids
    Schedules,   \* what a season may be created with: [seeds, quests]
    NoSeason,    \* the season of a contest account that does not exist
    Contests,    \* contest ids
    EntryNums,   \* entry numbers a wallet may use
    Kinds,       \* the kinds submitted, valid or not
    Amounts      \* the amounts submitted, valid or not

ASSUME SeedsAssumption ==
    /\ NoInvitee \notin Wallets /\ NoSeason \notin Seasons
    /\ IsFiniteSet(Wallets) /\ IsFiniteSet(Contests) /\ IsFiniteSet(EntryNums)
    /\ Schedules \subseteq [seeds : [0..4 -> Nat], quests : [0..15 -> Nat]]
    /\ EntryNums \subseteq Nat /\ Kinds \subseteq 0..255 /\ Amounts \subseteq Nat

INVITE_FRIEND == 2
MAX_SEED_GRANT_KIND == 15
MAX_GRANT_SEEDS == 1000

VARIABLES
    schedule,   \* the Season account of each id
    contest,    \* the season_id of each Contest account, and whether it is Open
    entered,    \* the ContestEntry accounts
    boundTo,    \* history: the season an entry was made under
    entries,    \* UserAccount.entries
    seeds,      \* UserAccount.seeds
    grant       \* the amount in each SeedGrant account, 0 when there is none

vars == <<schedule, contest, entered, boundTo, entries, seeds, grant>>

NoSchedule == [exists |-> FALSE]
NoContest == [season_id |-> NoSeason, open |-> FALSE]
EntryKeys == Contests \X Wallets \X EntryNums
\* The seeds of a SeedGrant address.
Guards == Wallets \X (0..MAX_SEED_GRANT_KIND) \X (Wallets \cup {NoInvitee})

TypeOK ==
    /\ schedule \in [Seasons -> {NoSchedule} \cup Schedules]
    /\ contest \in [Contests -> [season_id : Seasons \cup {NoSeason}, open : BOOLEAN]]
    /\ entered \subseteq EntryKeys
    /\ boundTo \in [EntryKeys -> Seasons \cup {NoSeason}]
    /\ entries \in [Wallets -> Nat]
    /\ seeds \in [Wallets -> Nat]
    /\ grant \in [Guards -> 0..MAX_GRANT_SEEDS]

Init ==
    /\ schedule = [s \in Seasons |-> NoSchedule]
    /\ contest = [c \in Contests |-> NoContest]
    /\ entered = {}
    /\ boundTo = [e \in EntryKeys |-> NoSeason]
    /\ entries = [w \in Wallets |-> 0]
    /\ seeds = [w \in Wallets |-> 0]
    /\ grant = [g \in Guards |-> 0]

-----------------------------------------------------------------------------
SeasonExists(s) == schedule[s] # NoSchedule

\* Faulty variant: init_if_needed instead of init.
AnySeason(s) == s \in Seasons

\* `init` fails on an account that exists, so a schedule never changes.
NewSeason(s) == ~SeasonExists(s)

CreateSeason(s, new) ==
    /\ NewSeason(s)
    /\ schedule' = [schedule EXCEPT ![s] = new]
    /\ UNCHANGED <<contest, entered, boundTo, entries, seeds, grant>>

\* create_contest: whether the season exists is not asked.
CreateContest(c, s) ==
    /\ contest[c] = NoContest
    /\ contest' = [contest EXCEPT ![c] = [season_id |-> s, open |-> TRUE]]
    /\ UNCHANGED <<schedule, entered, boundTo, entries, seeds, grant>>

\* settle_contest and cancel_contest, as far as seeds go: no more entries.
EndContest(c) ==
    /\ contest[c].open
    /\ contest' = [contest EXCEPT ![c].open = FALSE]
    /\ UNCHANGED <<schedule, entered, boundTo, entries, seeds, grant>>

\* close_contest: the account goes, its entry accounts stay.
CloseContest(c) ==
    /\ contest[c] # NoContest /\ ~contest[c].open
    /\ contest' = [contest EXCEPT ![c] = NoContest]
    /\ UNCHANGED <<schedule, entered, boundTo, entries, seeds, grant>>

\* Entry numbers from the fifth on earn what the last slot says.
seed_idx(n) == IF n =< 4 THEN n ELSE 4

\* enter_contest and enter_contest_with_token, as far as seeds go: the season
\* must exist by the time of the entry, not of the contest's creation.
EnterContest(c, w, n) ==
    LET e == <<c, w, n>>
        season == contest[c].season_id
    IN  /\ contest[c].open
        /\ e \notin entered
        /\ SeasonExists(season)
        /\ entered' = entered \cup {e}
        /\ boundTo' = [boundTo EXCEPT ![e] = season]
        /\ entries' = [entries EXCEPT ![w] = @ + 1]
        /\ seeds' = [seeds EXCEPT ![w] = @ + schedule[season].seeds[seed_idx(n)]]
        /\ UNCHANGED <<schedule, contest, grant>>

\* The optional account: given, it must be the invitee's own and have entered.
InviteeAccountOK(invitee) == invitee \in Wallets /\ entries[invitee] > 0

\* Faulty variant: any kind of quest takes an invitee.
AnyKindInvites(kind, invitee, given) ==
    IF given THEN InviteeAccountOK(invitee) ELSE kind # INVITE_FRIEND

InviteeOK(kind, invitee, given) ==
    IF kind = INVITE_FRIEND
    THEN invitee # NoInvitee /\ given /\ InviteeAccountOK(invitee)
    ELSE invitee = NoInvitee /\ ~given

\* Faulty variant: init_if_needed instead of init.
AnyGuard(g) == g \in Guards

NewGuard(g) == grant[g] = 0

AmountOK(amount) == amount > 0 /\ amount =< MAX_GRANT_SEEDS

GrantSeeds(w, kind, invitee, given, amount) ==
    LET g == <<w, kind, invitee>>
    IN  /\ kind =< MAX_SEED_GRANT_KIND
        /\ InviteeOK(kind, invitee, given)
        /\ AmountOK(amount)
        /\ NewGuard(g)
        /\ seeds' = [seeds EXCEPT ![w] = @ + amount]
        /\ grant' = [grant EXCEPT ![g] = amount]
        /\ UNCHANGED <<schedule, contest, entered, boundTo, entries>>

Next ==
    \/ \E s \in Seasons, new \in Schedules : CreateSeason(s, new)
    \/ \E c \in Contests, s \in Seasons : CreateContest(c, s)
    \/ \E c \in Contests : EndContest(c) \/ CloseContest(c)
    \/ \E c \in Contests, w \in Wallets, n \in EntryNums : EnterContest(c, w, n)
    \/ \E w \in Wallets, kind \in Kinds, invitee \in Wallets \cup {NoInvitee},
          given \in BOOLEAN, amount \in Amounts :
           GrantSeeds(w, kind, invitee, given, amount)

Spec == Init /\ [][Next]_vars

-----------------------------------------------------------------------------
(* Safety *)

Granted(w) == {g \in Guards : g[1] = w /\ grant[g] > 0}
EntriesOf(w) == {e \in entered : e[2] = w}

\* What an entry is worth: what the season it was made under says, today.
Earned(e) == schedule[boundTo[e]].seeds[seed_idx(e[3])]

\* A balance is what the seasons of the wallet's entries say now plus its
\* grants: no season is rewritten under entries already made, no contest that
\* is closed and created again for another season re-prices the entries of the
\* first one, and nothing retried is credited twice (create_season.rs:39-48,
\* create_contest.rs:165, enter_contest.rs:201-211, grant_seeds.rs:166-178).
\* The season of an entry is history: after the contest account is closed only
\* the log of its creation tells.
SeedsReconcile ==
    \A w \in Wallets :
        seeds[w] = SumFunctionOnSet([e \in EntriesOf(w) |-> Earned(e)], EntriesOf(w))
                 + SumFunctionOnSet(grant, Granted(w))

\* The quests that are paid once.
Quests == (Kinds \cap 0..MAX_SEED_GRANT_KIND) \ {INVITE_FRIEND}

\* What single signatures can ever grant one user is bounded by the quests and
\* the friends that entered, not by how many numbers there are to call a friend
\* (grant_seeds.rs:59-84).
GrantsBounded ==
    \A w \in Wallets :
        Cardinality(Granted(w)) =< Cardinality(Quests)
                                   + Cardinality({f \in Wallets : EntriesOf(f) # {}})

\* Every invite grant names a friend that really entered, then and for good.
InviteesHaveEntered ==
    \A g \in Guards :
        (g[2] = INVITE_FRIEND /\ grant[g] > 0) => g[3] \in Wallets /\ EntriesOf(g[3]) # {}

\* A quest other than the invite pays a user once, under one guard.
OnceEver ==
    \A g \in Guards : (g[2] # INVITE_FRIEND /\ grant[g] > 0) =>
        g[2] \in Quests /\ g[3] = NoInvitee

(* Why: the counter that opens the guard counts the entry accounts. *)
EntriesCounted == \A w \in Wallets : entries[w] > 0 => EntriesOf(w) # {}

\* An open contest is bound to a season, and so is every entry, to one that
\* exists.
OpenAreBound == \A c \in Contests : contest[c].open => contest[c].season_id \in Seasons
EntriesAreBound ==
    \A e \in entered : boundTo[e] \in Seasons /\ SeasonExists(boundTo[e])

IInv == InviteesHaveEntered /\ OnceEver /\ EntriesCounted /\ OpenAreBound /\ EntriesAreBound
=============================================================================
