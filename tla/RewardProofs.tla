----------------------------- MODULE RewardProofs -----------------------------
(***************************************************************************)
(* Theorems about what players are given: seeds, for every number of       *)
(* wallets, seasons, contests and kinds (quests are paid once, invites     *)
(* name friends that entered, the balances reconcile), and entry tokens,   *)
(* for every set of references, policies and clocks (the mint cap, the     *)
(* record of each token and how it reads).  The two share no state.        *)
(***************************************************************************)
EXTENDS SeedGrants, EntryTokens, SumTheorems, FiniteSetTheorems, TLAPS

(***************************************************************************)
(* Seeds                                                                   *)
(***************************************************************************)

Inv == TypeOK /\ IInv

\* The slot of the schedule an entry number is rewarded by exists.
LEMMA SeedIndexInRange ==
    ASSUME NEW n \in EntryNums
    PROVE  seed_idx(n) \in 0..4
BY SeedsAssumption DEF seed_idx

\* At first nobody has entered and nothing was granted.
LEMMA InitInv == Init => Inv
BY SeedsAssumption DEF Init, Inv, IInv, TypeOK, Guards, InviteesHaveEntered, OnceEver,
   EntriesCounted, OpenAreBound, EntriesAreBound, NoContest, MAX_GRANT_SEEDS

\* A season that was created holds one of the schedules offered.
LEMMA CreatedSchedule ==
    ASSUME TypeOK, NEW s \in Seasons, SeasonExists(s), NEW i \in 0..4
    PROVE  schedule[s].seeds[i] \in Nat
    <1>1. schedule[s] \in Schedules
        BY DEF TypeOK, SeasonExists
    <1>. QED
        BY <1>1, SeedsAssumption

\* An entry keeps the invariant: it adds the account the counter counts.
LEMMA EnterStep ==
    ASSUME Inv, NEW c \in Contests, NEW w \in Wallets, NEW n \in EntryNums,
           EnterContest(c, w, n)
    PROVE  Inv'
    <1>. USE DEF Inv, IInv
    <1>. DEFINE e == <<c, w, n>>
                season == contest[c].season_id
    <1>1. /\ entered' = entered \cup {e}
          /\ boundTo' = [boundTo EXCEPT ![e] = season]
          /\ entries' = [entries EXCEPT ![w] = @ + 1]
          /\ seeds' = [seeds EXCEPT ![w] = @ + schedule[season].seeds[seed_idx(n)]]
          /\ UNCHANGED <<schedule, contest, grant>>
          /\ SeasonExists(season) /\ season \in Seasons
        BY DEF EnterContest, OpenAreBound
    <1>2. schedule[season].seeds[seed_idx(n)] \in Nat
        BY <1>1, SeedIndexInRange, CreatedSchedule
    <1>3. entries' \in [Wallets -> Nat] /\ seeds' \in [Wallets -> Nat]
        BY <1>1, <1>2 DEF TypeOK
    <1>4. entered' \subseteq EntryKeys /\ boundTo' \in [EntryKeys -> Seasons \cup {NoSeason}]
        BY <1>1 DEF TypeOK, EntryKeys
    <1>5. TypeOK'
        BY <1>1, <1>3, <1>4 DEF TypeOK
    <1>6. \A v \in Wallets : EntriesOf(v) \subseteq EntriesOf(v)'
        BY <1>1 DEF EntriesOf
    <1>7. <<c, w, n>> \in EntriesOf(w)'
        BY <1>1 DEF EntriesOf
    <1>8. EntriesCounted'
        <2>1. \A v \in Wallets \ {w} : entries'[v] = entries[v]
            BY <1>1 DEF TypeOK
        <2>. QED
            BY <1>6, <1>7, <2>1 DEF EntriesCounted
    <1>9. InviteesHaveEntered'
        BY <1>1, <1>6 DEF InviteesHaveEntered
    <1>10. OnceEver'
        BY <1>1 DEF OnceEver
    <1>11. OpenAreBound'
        BY <1>1 DEF OpenAreBound
    <1>12. EntriesAreBound'
        <2>1. e \in EntryKeys
            BY DEF EntryKeys
        <2>2. \A x \in EntryKeys : boundTo'[x] = IF x = e THEN season ELSE boundTo[x]
            BY <1>1 DEF TypeOK
        <2>. HIDE DEF e, season
        <2>3. \A x \in entered' : x \in EntryKeys /\ (x = e \/ x \in entered)
            BY <1>1, <1>4
        <2>. QED
            BY <1>1, <2>1, <2>2, <2>3 DEF EntriesAreBound, SeasonExists
    <1>. QED
        BY <1>5, <1>8, <1>9, <1>10, <1>11, <1>12

\* A grant keeps the invariant: its guard is new and its friend entered.
LEMMA GrantStep ==
    ASSUME Inv, NEW w \in Wallets, NEW kind \in Kinds,
           NEW invitee \in Wallets \cup {NoInvitee}, NEW given \in BOOLEAN,
           NEW amount \in Amounts, GrantSeeds(w, kind, invitee, given, amount)
    PROVE  Inv'
    <1>. USE DEF Inv, IInv
    <1>. DEFINE new == <<w, kind, invitee>>
    <1>1. /\ kind \in 0..MAX_SEED_GRANT_KIND
          /\ amount \in 0..MAX_GRANT_SEEDS /\ amount \in Nat
          /\ InviteeOK(kind, invitee, given)
          /\ seeds' = [seeds EXCEPT ![w] = @ + amount]
          /\ grant' = [grant EXCEPT ![new] = amount]
          /\ UNCHANGED <<schedule, contest, entered, boundTo, entries>>
        BY SeedsAssumption DEF GrantSeeds, AmountOK, MAX_SEED_GRANT_KIND, MAX_GRANT_SEEDS
    <1>2. new \in Guards
        BY <1>1 DEF Guards
    <1>3. TypeOK'
        <2>1. grant' \in [Guards -> 0..MAX_GRANT_SEEDS]
            BY <1>1, <1>2 DEF TypeOK
        <2>2. seeds' \in [Wallets -> Nat]
            BY <1>1 DEF TypeOK
        <2>. QED
            BY <1>1, <2>1, <2>2 DEF TypeOK
    <1>4. \A g \in Guards \ {new} : grant'[g] = grant[g]
        BY <1>1 DEF TypeOK
    <1>5. \A v \in Wallets : EntriesOf(v)' = EntriesOf(v)
        BY <1>1 DEF EntriesOf
    <1>6. EntriesCounted'
        BY <1>1, <1>5 DEF EntriesCounted
    <1>7. InviteesHaveEntered'
        <2>1. kind = INVITE_FRIEND => invitee \in Wallets /\ EntriesOf(invitee) # {}
            BY <1>1 DEF InviteeOK, InviteeAccountOK, EntriesCounted
        <2>2. new[2] = kind /\ new[3] = invitee
            OBVIOUS
        <2>. QED
            BY <1>4, <1>5, <2>1, <2>2 DEF InviteesHaveEntered
    <1>8. OnceEver'
        <2>1. kind # INVITE_FRIEND => kind \in Quests /\ invitee = NoInvitee
            BY <1>1 DEF InviteeOK, Quests
        <2>2. new[2] = kind /\ new[3] = invitee
            OBVIOUS
        <2>. QED
            BY <1>4, <2>1, <2>2 DEF OnceEver
    <1>9. OpenAreBound' /\ EntriesAreBound'
        BY <1>1 DEF OpenAreBound, EntriesAreBound, SeasonExists
    <1>. QED
        BY <1>3, <1>6, <1>7, <1>8, <1>9

\* A new season is one no entry waits for.
LEMMA SeasonStep ==
    ASSUME Inv, NEW s \in Seasons, NEW new \in Schedules, CreateSeason(s, new)
    PROVE  Inv'
    <1>. USE DEF Inv, IInv
    <1>1. /\ ~SeasonExists(s) /\ schedule' = [schedule EXCEPT ![s] = new]
          /\ UNCHANGED <<contest, entered, boundTo, entries, seeds, grant>>
        BY DEF CreateSeason, NewSeason
    <1>2. TypeOK'
        BY <1>1 DEF TypeOK
    <1>3. InviteesHaveEntered' /\ OnceEver' /\ EntriesCounted' /\ OpenAreBound'
        BY <1>1 DEF InviteesHaveEntered, OnceEver, EntriesCounted, EntriesOf, OpenAreBound
    <1>4. EntriesAreBound'
        <2>1. ASSUME NEW e \in entered PROVE boundTo[e] \in Seasons /\ SeasonExists(boundTo[e])'
            <3>1. boundTo[e] \in Seasons /\ SeasonExists(boundTo[e]) /\ boundTo[e] # s
                BY <1>1 DEF EntriesAreBound
            <3>2. schedule'[boundTo[e]] = schedule[boundTo[e]]
                BY <1>1, <3>1 DEF TypeOK
            <3>. QED
                BY <1>1, <3>1, <3>2 DEF SeasonExists
        <2>. QED
            BY <1>1, <2>1 DEF EntriesAreBound, SeasonExists
    <1>. QED
        BY <1>2, <1>3, <1>4

\* The life of a contest account touches nothing that was earned.
LEMMA ContestStep ==
    ASSUME Inv, NEW c \in Contests,
           EndContest(c) \/ CloseContest(c) \/ \E s \in Seasons : CreateContest(c, s)
    PROVE  Inv'
    <1>. USE DEF Inv, IInv
    <1>1. UNCHANGED <<schedule, entered, boundTo, entries, seeds, grant>>
        BY DEF EndContest, CloseContest, CreateContest
    <1>2. /\ contest' \in [Contests -> [season_id : Seasons \cup {NoSeason}, open : BOOLEAN]]
          /\ OpenAreBound'
        <2>1. CASE EndContest(c)
            BY <2>1 DEF EndContest, TypeOK, OpenAreBound
        <2>2. CASE CloseContest(c)
            BY <2>2 DEF CloseContest, NoContest, TypeOK, OpenAreBound
        <2>3. ASSUME NEW s \in Seasons, CreateContest(c, s)
              PROVE  /\ contest' \in [Contests -> [season_id : Seasons \cup {NoSeason}, open : BOOLEAN]]
                     /\ OpenAreBound'
            BY <2>3 DEF CreateContest, TypeOK, OpenAreBound
        <2>. QED
            BY <2>1, <2>2, <2>3
    <1>3. TypeOK'
        BY <1>1, <1>2 DEF TypeOK
    <1>4. InviteesHaveEntered' /\ OnceEver' /\ EntriesCounted' /\ EntriesAreBound'
        BY <1>1 DEF InviteesHaveEntered, OnceEver, EntriesCounted, EntriesOf, EntriesAreBound,
                    SeasonExists
    <1>. QED
        BY <1>2, <1>3, <1>4

\* Every instruction keeps the invariant.
LEMMA NextInv == Inv /\ [Next]_vars => Inv'
    <1>. SUFFICES ASSUME Inv, [Next]_vars PROVE Inv'
        OBVIOUS
    <1>1. ASSUME UNCHANGED vars PROVE Inv'
        BY <1>1 DEF vars, Inv, IInv, TypeOK, InviteesHaveEntered, OnceEver, EntriesCounted,
                    EntriesOf, OpenAreBound, EntriesAreBound, SeasonExists
    <1>. QED
        BY <1>1, SeasonStep, ContestStep, EnterStep, GrantStep DEF Next

\* The invariant holds at every reachable state.
THEOREM SeedsInductive == Spec => []Inv
    <1>. QED
        BY InitInv, NextInv, PTL DEF Spec

\* An invite grant names a friend with an entry.
THEOREM InviteesAlwaysEntered == Spec => []InviteesHaveEntered
    <1>1. Inv => InviteesHaveEntered
        BY DEF Inv, IInv
    <1>. QED
        BY <1>1, SeedsInductive, PTL

-----------------------------------------------------------------------------

\* The guards of a wallet map one to one to quests and to friends.
LEMMA BoundFromInv == Inv => GrantsBounded
    <1>. SUFFICES ASSUME Inv, NEW w \in Wallets
                  PROVE  Cardinality(Granted(w)) =< Cardinality(Quests)
                             + Cardinality({f \in Wallets : EntriesOf(f) # {}})
        BY DEF GrantsBounded
    <1>. DEFINE Friends == {f \in Wallets : EntriesOf(f) # {}}
                Q == {g \in Granted(w) : g[2] # INVITE_FRIEND}
                F == {g \in Granted(w) : g[2] = INVITE_FRIEND}
    <1>1. IsFiniteSet(Quests)
        <2>1. IsFiniteSet(0..MAX_SEED_GRANT_KIND)
            <3>1. 0 \in Int /\ MAX_SEED_GRANT_KIND \in Int
                BY DEF MAX_SEED_GRANT_KIND
            <3>. QED
                BY <3>1, FS_Interval, Zenon
        <2>2. Quests \in SUBSET (0..MAX_SEED_GRANT_KIND)
            BY DEF Quests
        <2>. QED
            BY <2>1, <2>2, FS_Subset
    <1>2. IsFiniteSet(Friends)
        BY SeedsAssumption, FS_Subset
    <1>3. IsFiniteSet(Q) /\ Cardinality(Q) =< Cardinality(Quests)
        <2>. DEFINE P == {q \in Quests : <<w, q, NoInvitee>> \in Q}
                    f == [q \in P |-> <<w, q, NoInvitee>>]
        <2>1. \A g \in Q : g = <<w, g[2], NoInvitee>> /\ g[2] \in Quests
            BY DEF Inv, IInv, OnceEver, Granted, Guards
        <2>2. \A g \in Q : g[2] \in P /\ f[g[2]] = g
            BY <2>1
        <2>3. f \in [P -> Q]
            OBVIOUS
        <2>4. IsFiniteSet(P) /\ Cardinality(P) =< Cardinality(Quests)
            BY <1>1, FS_Subset
        <2>. HIDE DEF Q, P, f
        <2>5. f \in Surjection(P, Q)
            BY <2>2, <2>3 DEF Surjection
        <2>6. IsFiniteSet(Q) /\ Cardinality(Q) =< Cardinality(P)
            BY <2>4, <2>5, FS_Surjection
        <2>. QED
            BY <1>1, <2>4, <2>6, FS_CardinalityType
    <1>4. IsFiniteSet(F) /\ Cardinality(F) =< Cardinality(Friends)
        <2>. DEFINE P == {v \in Friends : <<w, INVITE_FRIEND, v>> \in F}
                    f == [v \in P |-> <<w, INVITE_FRIEND, v>>]
        <2>1. \A g \in F : g = <<w, INVITE_FRIEND, g[3]>> /\ g[3] \in Friends
            BY DEF Inv, IInv, InviteesHaveEntered, Granted, Guards
        <2>2. \A g \in F : g[3] \in P /\ f[g[3]] = g
            BY <2>1
        <2>3. f \in [P -> F]
            OBVIOUS
        <2>4. IsFiniteSet(P) /\ Cardinality(P) =< Cardinality(Friends)
            BY <1>2, FS_Subset
        <2>. HIDE DEF F, P, f, Friends
        <2>5. f \in Surjection(P, F)
            BY <2>2, <2>3 DEF Surjection
        <2>6. IsFiniteSet(F) /\ Cardinality(F) =< Cardinality(P)
            BY <2>4, <2>5, FS_Surjection
        <2>. QED
            BY <1>2, <2>4, <2>6, FS_CardinalityType
    <1>5. Granted(w) = Q \cup F /\ Q \cap F = {}
        OBVIOUS
    <1>. HIDE DEF Q, F, Friends
    <1>6. Cardinality(Granted(w)) = Cardinality(Q) + Cardinality(F)
        <2>1. IsFiniteSet(Q) /\ IsFiniteSet(F) /\ Cardinality(Q \cap F) = 0
            BY <1>3, <1>4, <1>5, FS_EmptySet
        <2>2. Cardinality(Q \cup F) = Cardinality(Q) + Cardinality(F) - Cardinality(Q \cap F)
            BY <2>1, FS_Union
        <2>. QED
            BY <1>5, <2>1, <2>2, FS_CardinalityType
    <1>. QED
        BY <1>1, <1>2, <1>3, <1>4, <1>6, FS_CardinalityType DEF Friends

\* A user is granted at most every quest and every friend once.
THEOREM GrantsStayBounded == Spec => []GrantsBounded
    <1>. QED
        BY BoundFromInv, SeedsInductive, PTL

\* Balances and guards stay of their types.
THEOREM SeedsTypeCorrect == Spec => []TypeOK
    <1>1. Inv => TypeOK
        BY DEF Inv
    <1>. QED
        BY <1>1, SeedsInductive, PTL

-----------------------------------------------------------------------------
(* The audit of the balances                                                 *)

\* What the entry accounts earned a wallet, and what it was granted.
EarnedBy(w) == SumFunctionOnSet([e \in EntriesOf(w) |-> Earned(e)], EntriesOf(w))
GrantedTo(w) == SumFunctionOnSet(grant, Granted(w))

\* An address of an entry account and its parts.
LEMMA KeyParts ==
    ASSUME NEW e \in EntryKeys
    PROVE  /\ e[1] \in Contests /\ e[2] \in Wallets /\ e[3] \in EntryNums
           /\ e = <<e[1], e[2], e[3]>>
BY DEF EntryKeys

\* An address of a grant and its parts.
LEMMA GuardParts ==
    ASSUME NEW g \in Guards
    PROVE  /\ g[1] \in Wallets /\ g[2] \in 0..MAX_SEED_GRANT_KIND
           /\ g[3] \in Wallets \cup {NoInvitee} /\ g = <<g[1], g[2], g[3]>>
BY DEF Guards

\* Triples of members of finite sets are finitely many.
LEMMA FiniteTriples ==
    ASSUME NEW A, IsFiniteSet(A), NEW B, IsFiniteSet(B), NEW C, IsFiniteSet(C)
    PROVE  IsFiniteSet(A \X B \X C)
    <1>. DEFINE pairs == A \X (B \X C)
                flat == [p \in pairs |-> <<p[1], p[2][1], p[2][2]>>]
    <1>1. IsFiniteSet(B \X C)
        BY FS_Product
    <1>2. IsFiniteSet(pairs)
        BY <1>1, FS_Product
    <1>3. \A t \in A \X B \X C : <<t[1], <<t[2], t[3]>>>> \in pairs
                                  /\ t = <<t[1], t[2], t[3]>>
        OBVIOUS
    <1>4. \A p \in pairs : flat[p] \in A \X B \X C
        OBVIOUS
    <1>5. \A t \in A \X B \X C : flat[<<t[1], <<t[2], t[3]>>>>] = t
        BY <1>3
    <1>6. flat \in Surjection(pairs, A \X B \X C)
        BY <1>3, <1>4, <1>5 DEF Surjection
    <1>. HIDE DEF flat, pairs
    <1>. QED
        BY <1>2, <1>6, FS_Surjection

\* A wallet has finitely many entries and grants.
LEMMA FiniteAccounts ==
    ASSUME TypeOK, NEW w \in Wallets
    PROVE  IsFiniteSet(EntriesOf(w)) /\ IsFiniteSet(Granted(w))
    <1>1. IsFiniteSet(EntryKeys)
        BY SeedsAssumption, FiniteTriples DEF EntryKeys
    <1>2. IsFiniteSet(Guards)
        <2>1. IsFiniteSet(0..MAX_SEED_GRANT_KIND)
            <3>1. 0 \in Int /\ MAX_SEED_GRANT_KIND \in Int
                BY DEF MAX_SEED_GRANT_KIND
            <3>. QED
                BY <3>1, FS_Interval, Zenon
        <2>2. IsFiniteSet(Wallets \cup {NoInvitee})
            BY SeedsAssumption, FS_AddElement
        <2>. QED
            BY <2>1, <2>2, SeedsAssumption, FiniteTriples DEF Guards
    <1>3. EntriesOf(w) \in SUBSET EntryKeys /\ Granted(w) \in SUBSET Guards
        BY DEF TypeOK, EntriesOf, Granted
    <1>. QED
        BY <1>1, <1>2, <1>3, FS_Subset

\* What entries earn and grants grant is a number.
LEMMA AccountsTyped ==
    ASSUME TypeOK, EntriesAreBound, NEW w \in Wallets
    PROVE  /\ \A e \in EntriesOf(w) : Earned(e) \in Nat
           /\ \A g \in Granted(w) : grant[g] \in Nat
           /\ EarnedBy(w) \in Nat /\ GrantedTo(w) \in Nat
    <1>1. ASSUME NEW e \in EntriesOf(w) PROVE Earned(e) \in Nat
        <2>1. e \in entered /\ e \in EntryKeys
            BY DEF EntriesOf, TypeOK
        <2>2. e[3] \in EntryNums
            BY <2>1, KeyParts
        <2>3. boundTo[e] \in Seasons /\ SeasonExists(boundTo[e]) /\ seed_idx(e[3]) \in 0..4
            BY <2>1, <2>2, SeedIndexInRange DEF EntriesAreBound
        <2>. QED
            BY <2>3, CreatedSchedule DEF Earned
    <1>2. \A g \in Granted(w) : grant[g] \in Nat
        <2>1. \A g \in Guards : grant[g] \in 0..MAX_GRANT_SEEDS
            BY DEF TypeOK
        <2>2. Granted(w) \subseteq Guards
            BY DEF Granted
        <2>. QED
            BY <2>1, <2>2
    <1>. DEFINE earned == [e \in EntriesOf(w) |-> Earned(e)]
    <1>3. \A e \in EntriesOf(w) : earned[e] \in Nat
        BY <1>1
    <1>. HIDE DEF earned
    <1>4. SumFunctionOnSet(earned, EntriesOf(w)) \in Nat
        BY <1>3, FiniteAccounts, SumNatural
    <1>5. SumFunctionOnSet(grant, Granted(w)) \in Nat
        BY <1>2, FiniteAccounts, SumNatural
    <1>. QED
        BY <1>1, <1>2, <1>4, <1>5 DEF EarnedBy, GrantedTo, earned

\* The seeds of entries already made do not depend on what seasons come.
LEMMA EarnedKept ==
    ASSUME TypeOK, NEW w \in Wallets, EntriesOf(w)' = EntriesOf(w),
           \A e \in EntriesOf(w) : Earned(e)' = Earned(e)
    PROVE  EarnedBy(w)' = EarnedBy(w)
    <1>. DEFINE before == [e \in EntriesOf(w) |-> Earned(e)]
                after == [e \in EntriesOf(w) |-> Earned(e)']
    <1>1. before = after
        OBVIOUS
    <1>2. EarnedBy(w)' = SumFunctionOnSet(after, EntriesOf(w))
        BY DEF EarnedBy
    <1>. QED
        BY <1>1, <1>2 DEF EarnedBy

\* What is audited, with what makes it inductive.
Audited == \A w \in Wallets : seeds[w] = EarnedBy(w) + GrantedTo(w)

\* An entry is worth what its season says now and for good.
LEMMA EnterKeepsAudit ==
    ASSUME Inv, Audited, NEW c \in Contests, NEW w \in Wallets,
           NEW n \in EntryNums, EnterContest(c, w, n)
    PROVE  Audited'
    <1>. USE DEF Inv, IInv
    <1>. DEFINE e == <<c, w, n>>
                worth == schedule[contest[c].season_id].seeds[seed_idx(n)]
    <1>1. e \in EntryKeys /\ e[1] = c /\ e[2] = w /\ e[3] = n
        BY DEF EntryKeys
    <1>2. /\ e \notin entered
          /\ entered' = entered \cup {e}
          /\ boundTo' = [boundTo EXCEPT ![e] = contest[c].season_id]
          /\ seeds' = [seeds EXCEPT ![w] = @ + worth]
          /\ UNCHANGED <<schedule, grant>>
          /\ contest[c].season_id \in Seasons /\ SeasonExists(contest[c].season_id)
        BY DEF EnterContest, OpenAreBound
    <1>3. worth \in Nat
        BY <1>2, SeedIndexInRange, CreatedSchedule
    <1>4. /\ \A x \in entered : Earned(x)' = Earned(x)
          /\ Earned(e)' = worth
        <2>1. \A x \in entered : x \in EntryKeys /\ x # e
            BY <1>2 DEF TypeOK
        <2>2. \A x \in EntryKeys : boundTo'[x] = IF x = e THEN contest[c].season_id ELSE boundTo[x]
            BY <1>2 DEF TypeOK
        <2>. QED
            BY <1>1, <1>2, <2>1, <2>2 DEF Earned
    <1>. HIDE DEF e, worth
    <1>5. ASSUME NEW v \in Wallets PROVE seeds'[v] = EarnedBy(v)' + GrantedTo(v)'
        <2>1. GrantedTo(v)' = GrantedTo(v)
            BY <1>2 DEF GrantedTo, Granted
        <2>2. CASE v # w
            <3>1. EntriesOf(v)' = EntriesOf(v)
                BY <1>1, <1>2, <2>2 DEF EntriesOf
            <3>2. \A x \in EntriesOf(v) : Earned(x)' = Earned(x)
                BY <1>4 DEF EntriesOf
            <3>3. EarnedBy(v)' = EarnedBy(v)
                BY <3>1, <3>2, EarnedKept
            <3>. QED
                BY <1>2, <2>1, <2>2, <3>3 DEF Audited, TypeOK
        <2>3. CASE v = w
            <3>. DEFINE mine == EntriesOf(w)
                        before == [x \in mine |-> Earned(x)]
                        after == [x \in mine \cup {e} |-> Earned(x)']
            <3>1. EntriesOf(w)' = mine \cup {e} /\ e \notin mine
                BY <1>1, <1>2 DEF EntriesOf
            <3>2. EarnedBy(w)' = SumFunctionOnSet(after, mine \cup {e})
                BY <3>1 DEF EarnedBy
            <3>3. EarnedBy(w) = SumFunctionOnSet(before, mine)
                BY DEF EarnedBy
            <3>4. IsFiniteSet(mine) /\ \A x \in mine : Earned(x) \in Nat
                BY FiniteAccounts, AccountsTyped
            <3>5. /\ \A x \in mine : Earned(x)' = Earned(x)
                  /\ \A x \in mine \cup {e} : after[x] \in Int
                  /\ \A x \in mine : after[x] = before[x]
                  /\ after[e] = worth
                <4>1. \A x \in mine : Earned(x)' = Earned(x)
                    BY <1>4 DEF EntriesOf
                <4>. QED
                    BY <1>3, <1>4, <3>4, <4>1
            <3>. HIDE DEF mine, before, after
            <3>6. SumFunctionOnSet(after, mine \cup {e}) = after[e] + SumFunctionOnSet(after, mine)
                BY <3>1, <3>4, <3>5, SumAdd
            <3>7. SumFunctionOnSet(after, mine) = SumFunctionOnSet(before, mine)
                BY <3>4, <3>5, SumCongruence
            <3>8. EarnedBy(w) \in Nat /\ GrantedTo(w) \in Nat
                BY AccountsTyped
            <3>9. EarnedBy(w)' = EarnedBy(w) + worth
                BY <1>3, <3>2, <3>3, <3>5, <3>6, <3>7, <3>8
            <3>10. seeds'[w] = seeds[w] + worth
                BY <1>2 DEF TypeOK
            <3>11. seeds[w] = EarnedBy(w) + GrantedTo(w)
                BY DEF Audited
            <3>. QED
                BY <1>3, <2>1, <2>3, <3>8, <3>9, <3>10, <3>11
        <2>. QED
            BY <2>2, <2>3
    <1>. QED
        BY <1>5 DEF Audited

\* A grant adds the one account it is recorded in.
LEMMA GrantKeepsAudit ==
    ASSUME TypeOK, EntriesAreBound, Audited, NEW w \in Wallets, NEW kind \in Kinds,
           NEW invitee \in Wallets \cup {NoInvitee}, NEW given \in BOOLEAN,
           NEW amount \in Amounts, GrantSeeds(w, kind, invitee, given, amount)
    PROVE  Audited'
    <1>. DEFINE new == <<w, kind, invitee>>
    <1>1. /\ kind \in 0..MAX_SEED_GRANT_KIND /\ amount \in Nat /\ amount > 0
          /\ grant[new] = 0
          /\ seeds' = [seeds EXCEPT ![w] = @ + amount]
          /\ grant' = [grant EXCEPT ![new] = amount]
          /\ UNCHANGED <<schedule, entered, boundTo>>
        BY SeedsAssumption DEF GrantSeeds, AmountOK, NewGuard, MAX_SEED_GRANT_KIND
    <1>2. new \in Guards /\ new[1] = w
        BY <1>1 DEF Guards
    <1>. HIDE DEF new
    <1>4. /\ \A g \in Guards \ {new} : grant'[g] = grant[g]
          /\ grant'[new] = amount
        BY <1>1, <1>2 DEF TypeOK
    <1>5. ASSUME NEW v \in Wallets PROVE seeds'[v] = EarnedBy(v)' + GrantedTo(v)'
        <2>1. EarnedBy(v)' = EarnedBy(v)
            BY <1>1 DEF EarnedBy, EntriesOf, Earned
        <2>2. EarnedBy(v) \in Nat /\ GrantedTo(v) \in Nat /\ IsFiniteSet(Granted(v))
              /\ \A g \in Granted(v) : grant[g] \in Nat
            BY AccountsTyped, FiniteAccounts
        <2>3. seeds[v] = EarnedBy(v) + GrantedTo(v)
            BY DEF Audited
        <2>. DEFINE after == grant'
        <2>4. new \notin Granted(v) /\ \A g \in Granted(v) : after[g] = grant[g]
            BY <1>1, <1>4 DEF Granted
        <2>5. GrantedTo(v)' = SumFunctionOnSet(after, Granted(v)')
            BY DEF GrantedTo
        <2>6. after[new] = amount
            BY <1>4
        <2>. HIDE DEF after
        <2>7. SumFunctionOnSet(after, Granted(v)) = GrantedTo(v)
            BY <2>2, <2>4, SumCongruence DEF GrantedTo
        <2>8. CASE v # w
            <3>1. Granted(v)' = Granted(v)
                BY <1>2, <1>4, <2>8 DEF Granted, Guards
            <3>2. seeds'[v] = seeds[v]
                BY <1>1, <2>8 DEF TypeOK
            <3>. QED
                BY <2>1, <2>3, <2>5, <2>7, <3>1, <3>2
        <2>9. CASE v = w
            <3>1. Granted(v)' = Granted(v) \cup {new}
                BY <1>1, <1>2, <1>4, <2>9 DEF Granted, Guards
            <3>2. \A g \in Granted(v) \cup {new} : after[g] \in Int
                BY <1>1, <2>2, <2>4, <2>6
            <3>3. SumFunctionOnSet(after, Granted(v) \cup {new})
                    = after[new] + SumFunctionOnSet(after, Granted(v))
                BY <2>2, <2>4, <3>2, SumAdd
            <3>4. seeds'[v] = seeds[v] + amount
                BY <1>1, <2>9 DEF TypeOK
            <3>. QED
                BY <1>1, <2>1, <2>2, <2>3, <2>5, <2>6, <2>7, <3>1, <3>3, <3>4
        <2>. QED
            BY <2>8, <2>9
    <1>. QED
        BY <1>5 DEF Audited

\* A season created later changes no entry: entries wait for their season.
LEMMA SeasonKeepsAudit ==
    ASSUME Inv, Audited, NEW s \in Seasons, NEW new \in Schedules, CreateSeason(s, new)
    PROVE  Audited'
    <1>. USE DEF Inv, IInv
    <1>1. /\ ~SeasonExists(s) /\ schedule' = [schedule EXCEPT ![s] = new]
          /\ UNCHANGED <<entered, boundTo, seeds, grant>>
        BY DEF CreateSeason, NewSeason
    <1>2. ASSUME NEW e \in entered PROVE Earned(e)' = Earned(e)
        <2>1. boundTo[e] # s
            BY <1>1 DEF EntriesAreBound
        <2>2. schedule'[boundTo[e]] = schedule[boundTo[e]]
            BY <1>1, <2>1 DEF EntriesAreBound, TypeOK
        <2>. QED
            BY <1>1, <2>2 DEF Earned
    <1>3. ASSUME NEW v \in Wallets PROVE seeds'[v] = EarnedBy(v)' + GrantedTo(v)'
        <2>1. EntriesOf(v)' = EntriesOf(v) /\ \A e \in EntriesOf(v) : Earned(e)' = Earned(e)
            BY <1>1, <1>2 DEF EntriesOf
        <2>2. EarnedBy(v)' = EarnedBy(v)
            BY <2>1, EarnedKept
        <2>3. GrantedTo(v)' = GrantedTo(v)
            BY <1>1 DEF GrantedTo, Granted
        <2>. QED
            BY <1>1, <2>2, <2>3 DEF Audited
    <1>. QED
        BY <1>3 DEF Audited

\* Closing a contest and creating it again re-prices no entry.
LEMMA QuietKeepsAudit ==
    ASSUME Audited, UNCHANGED <<schedule, entered, boundTo, seeds, grant>>
    PROVE  Audited'
BY DEF Audited, EarnedBy, GrantedTo, Earned, EntriesOf, Granted

\* At first there is nothing to audit.
LEMMA InitAudit == Init => Audited
    <1>. SUFFICES ASSUME Init, NEW w \in Wallets
                  PROVE  seeds[w] = EarnedBy(w) + GrantedTo(w)
        BY DEF Audited
    <1>1. EntriesOf(w) = {} /\ Granted(w) = {}
        BY DEF Init, EntriesOf, Granted
    <1>2. EarnedBy(w) = 0 /\ GrantedTo(w) = 0
        BY <1>1, SumEmpty DEF EarnedBy, GrantedTo
    <1>. QED
        BY <1>2 DEF Init

\* A balance is always what the seasons its entries were made under say of them
\* plus what it was granted, whatever was retried, whenever a season came, and
\* however often a contest id was closed and created again for another season.
THEOREM SeedsAlwaysReconcile == Spec => []SeedsReconcile
    <1>1. Inv /\ Audited /\ [Next]_vars => Audited'
        <2>. SUFFICES ASSUME Inv, Audited, [Next]_vars PROVE Audited'
            OBVIOUS
        <2>. TypeOK /\ EntriesAreBound
            BY DEF Inv, IInv
        <2>1. ASSUME NEW c \in Contests,
                     EndContest(c) \/ CloseContest(c) \/ \E s \in Seasons : CreateContest(c, s)
              PROVE  Audited'
            BY <2>1, QuietKeepsAudit DEF EndContest, CloseContest, CreateContest
        <2>2. ASSUME UNCHANGED vars PROVE Audited'
            BY <2>2, QuietKeepsAudit DEF vars
        <2>. QED
            BY <2>1, <2>2, EnterKeepsAudit, GrantKeepsAudit, SeasonKeepsAudit DEF Next
    <1>2. Audited => SeedsReconcile
        BY DEF Audited, SeedsReconcile, EarnedBy, GrantedTo
    <1>. QED
        BY <1>1, <1>2, InitAudit, SeedsInductive, PTL DEF Spec

-----------------------------------------------------------------------------
(***************************************************************************)
(* Entry tokens                                                            *)
(***************************************************************************)

\* Time divided by a positive length is a time again: the index of a moment is
\* one of the counters.
LEMMA WindowIsATime ==
    ASSUME NEW t \in Times, NEW p \in (Nat \ {0}) \X (Nat \ {0})
    PROVE  window_index_for(p, t) \in Times
    <1>1. p[1] \in Nat \ {0} /\ t \in Nat /\ t =< MaxTime /\ MaxTime \in Nat
        BY TokensAssumption DEF Times
    <1>2. t \div p[1] \in Nat /\ t \div p[1] =< t
        BY <1>1
    <1>. QED
        BY <1>1, <1>2 DEF window_index_for, Times

\* Flagging a byte leaves a byte, of the same provenance.
LEMMA FlaggedByte ==
    ASSUME NEW s \in 0..255
    PROVE  flagged(s) \in 0..255 /\ Provenance(flagged(s)) = Provenance(s)
BY DEF flagged, Provenance, BURNED_FLAG

\* The state at deployment is of its type.
LEMMA TokensInitTypeOK == TokensInit => TokensTypeOK
BY TokensAssumption DEF TokensInit, TokensTypeOK, Times, PolicyAccepted

\* Every instruction keeps every type.
LEMMA TokensNextTypeOK == TokensTypeOK /\ [TokensNext]_tokensVars => TokensTypeOK'
    <1>. SUFFICES ASSUME TokensTypeOK, [TokensNext]_tokensVars PROVE TokensTypeOK'
        OBVIOUS
    <1>1. ASSUME NEW r \in Refs, NEW w \in Owners, NEW source \in Sources,
                 NEW window \in Times, MintEntryToken(r, w, source, window)
          PROVE  TokensTypeOK'
        <2>. DEFINE new == [exists |-> TRUE, owner |-> w, source |-> source,
                            consumed |-> FALSE, created_at |-> now, consumed_at |-> NEVER]
        <2>1. new \in TokenAccounts
            BY TokensAssumption DEF TokenAccounts, TokensTypeOK
        <2>2. token' \in [Refs -> {NoToken} \cup TokenAccounts]
            BY <1>1, <2>1 DEF MintEntryToken, TokensTypeOK
        <2>3. minted' \in [Times -> Nat] /\ cheap' \in Nat
            BY <1>1 DEF MintEntryToken, TokensTypeOK
        <2>. QED
            BY <1>1, <2>2, <2>3 DEF MintEntryToken, TokensTypeOK
    <1>2. ASSUME NEW r \in Refs, BurnEntryToken(r) PROVE TokensTypeOK'
        <2>1. token[r] \in TokenAccounts
            BY <1>2 DEF BurnEntryToken, Burnable, TokensTypeOK, NoToken
        <2>2. [token[r] EXCEPT !.consumed = TRUE, !.consumed_at = now,
                               !.source = flagged(token[r].source)] \in TokenAccounts
            <3>1. token[r].source \in 0..255
                BY <2>1 DEF TokenAccounts
            <3>. QED
                BY <2>1, <3>1, FlaggedByte DEF TokenAccounts, TokensTypeOK
        <2>3. token' \in [Refs -> {NoToken} \cup TokenAccounts]
            BY <1>2, <2>2 DEF BurnEntryToken, TokensTypeOK
        <2>. QED
            BY <1>2, <2>3 DEF BurnEntryToken, TokensTypeOK
    <1>3. ASSUME NEW r \in Refs, NEW w \in Owners, RedeemEntryToken(r, w) PROVE TokensTypeOK'
        <2>1. token[r] \in TokenAccounts
            BY <1>3 DEF RedeemEntryToken, TokensTypeOK, NoToken
        <2>2. [token[r] EXCEPT !.consumed = TRUE, !.consumed_at = now] \in TokenAccounts
            BY <2>1 DEF TokenAccounts, TokensTypeOK
        <2>3. token' \in [Refs -> {NoToken} \cup TokenAccounts]
            BY <1>3, <2>2 DEF RedeemEntryToken, TokensTypeOK
        <2>. QED
            BY <1>3, <2>3 DEF RedeemEntryToken, TokensTypeOK
    <1>4. ASSUME NEW p \in Policies, SetMintWindowPolicy(p) PROVE TokensTypeOK'
        BY <1>4, TokensAssumption DEF SetMintWindowPolicy, PolicyAccepted, TokensTypeOK
    <1>5. ASSUME Tick PROVE TokensTypeOK'
        BY <1>5, TokensAssumption DEF Tick, TokensTypeOK, Times
    <1>6. ASSUME UNCHANGED tokensVars PROVE TokensTypeOK'
        BY <1>6 DEF tokensVars, TokensTypeOK
    <1>. QED
        BY <1>1, <1>2, <1>3, <1>4, <1>5, <1>6 DEF TokensNext

\* Every reachable state is well typed: in particular the source stays a byte
\* when the burn flag is set on it.
THEOREM TokensTypeCorrect == TokensSpec => []TokensTypeOK
    <1>. QED
        BY TokensInitTypeOK, TokensNextTypeOK, PTL DEF TokensSpec

-----------------------------------------------------------------------------
(* The cap *)

CapInv == CheapMintsAreCounted /\ CheapMintsWithinCap /\ policy[2] =< ceiling

\* At first no window has minted anything.
LEMMA InitCap == TokensInit => CapInv
    <1>. SUFFICES ASSUME TokensInit PROVE CapInv
        OBVIOUS
    <1>1. TokensTypeOK
        BY TokensInitTypeOK
    <1>2. CurrentWindow \in Times
        BY <1>1, WindowIsATime DEF CurrentWindow, TokensTypeOK
    <1>. QED
        BY <1>1, <1>2 DEF TokensInit, CapInv, CheapMintsAreCounted, CheapMintsWithinCap, TokensTypeOK

\* No instruction mints past the cap, or mints cheaply without counting.
LEMMA NextCap == TokensTypeOK /\ CapInv /\ [TokensNext]_tokensVars => CapInv'
    <1>. SUFFICES ASSUME TokensTypeOK, CapInv, [TokensNext]_tokensVars PROVE CapInv'
        OBVIOUS
    <1>. USE DEF CapInv, CheapMintsAreCounted, CheapMintsWithinCap
    <1>1. TokensTypeOK' /\ CurrentWindow \in Times /\ CurrentWindow' \in Times
        <2>1. TokensTypeOK'
            BY TokensNextTypeOK
        <2>2. CurrentWindow \in Times
            BY WindowIsATime DEF CurrentWindow, TokensTypeOK
        <2>3. CurrentWindow' \in Times
            BY <2>1, WindowIsATime DEF CurrentWindow, TokensTypeOK
        <2>. QED
            BY <2>1, <2>2, <2>3
    <1>2. ASSUME NEW r \in Refs, NEW w \in Owners, NEW source \in Sources,
                 NEW window \in Times, MintEntryToken(r, w, source, window)
          PROVE  CapInv'
        <2>1. /\ window = CurrentWindow /\ CurrentWindow' = CurrentWindow
              /\ policy' = policy /\ ceiling' = ceiling
              /\ minted' = [minted EXCEPT ![window] = @ + 1]
              /\ cheap' = IF minted[window] < policy[2] THEN cheap + 1 ELSE cheap
            BY <1>2 DEF MintEntryToken, PinnedWindow, WithinCap, CurrentWindow
        <2>2. minted[window] \in Nat /\ minted'[window] = minted[window] + 1
              /\ cheap \in Nat /\ policy[2] \in Nat /\ ceiling \in Nat
            BY <2>1 DEF TokensTypeOK
        <2>3. cheap =< minted[window] /\ cheap =< ceiling /\ policy[2] =< ceiling
            BY <2>1
        <2>. QED
            BY <2>1, <2>2, <2>3
    <1>3. ASSUME now' = now, policy' = policy, minted' = minted, cheap' = cheap,
                 ceiling' = ceiling
          PROVE  CapInv'
        BY <1>3 DEF CurrentWindow
    <1>4. ASSUME NEW p \in Policies, SetMintWindowPolicy(p) PROVE CapInv'
        <2>1. /\ minted' = minted /\ now' = now /\ policy' = p
              /\ cheap' = IF p[1] = policy[1] THEN cheap ELSE 0
              /\ ceiling' = IF p[1] = policy[1] /\ p[2] < ceiling THEN ceiling ELSE p[2]
            BY <1>4 DEF SetMintWindowPolicy
        <2>2. /\ minted[CurrentWindow'] \in Nat /\ cheap \in Nat /\ ceiling \in Nat
              /\ p[2] \in Nat
            BY <1>1, <2>1 DEF TokensTypeOK
        <2>3. CASE p[1] = policy[1]
            <3>1. CurrentWindow' = CurrentWindow
                BY <2>1, <2>3 DEF CurrentWindow, window_index_for
            <3>. QED
                BY <2>1, <2>2, <2>3, <3>1
        <2>4. CASE p[1] # policy[1]
            BY <2>1, <2>2, <2>4
        <2>. QED
            BY <2>3, <2>4
    <1>5. ASSUME Tick PROVE CapInv'
        <2>1. /\ minted' = minted /\ policy' = policy
              /\ CurrentWindow' = window_index_for(policy, now + 1)
              /\ cheap' = IF CurrentWindow' = CurrentWindow THEN cheap ELSE 0
              /\ ceiling' = IF CurrentWindow' = CurrentWindow THEN ceiling ELSE policy[2]
            BY <1>5 DEF Tick, CurrentWindow
        <2>2. minted[CurrentWindow'] \in Nat /\ policy[2] \in Nat
            BY <1>1 DEF TokensTypeOK
        <2>. QED
            BY <2>1, <2>2
    <1>. QED
        BY <1>2, <1>3, <1>4, <1>5 DEF TokensNext, BurnEntryToken, RedeemEntryToken, tokensVars

\* Cheap mints are counted and within the cap, always.
LEMMA SpecCap == TokensSpec => []CapInv
    <1>. QED
        BY TokensInitTypeOK, TokensNextTypeOK, InitCap, NextCap, PTL DEF TokensSpec

\* One signature never mints more in one window than the highest cap in force,
\* whatever the policies, the clock and the number of references.
THEOREM CapHolds == TokensSpec => []CheapMintsWithinCap
    <1>1. CapInv => CheapMintsWithinCap
        BY DEF CapInv
    <1>. QED
        BY <1>1, SpecCap, PTL

-----------------------------------------------------------------------------
(* The record of a token *)

\* No step rewrites what a token's record already says.
LEMMA StepStands == TokensTypeOK /\ [TokensNext]_tokensVars => HistoryStandsStep
    <1>. SUFFICES ASSUME TokensTypeOK, [TokensNext]_tokensVars, NEW r \in Refs, token[r].exists
                  PROVE  /\ token'[r].exists
                         /\ token'[r].owner = token[r].owner
                         /\ token'[r].created_at = token[r].created_at
                         /\ Provenance(token'[r].source) = Provenance(token[r].source)
                         /\ token[r].consumed => token'[r] = token[r]
        BY DEF HistoryStandsStep
    <1>1. token[r] \in TokenAccounts
        BY DEF TokensTypeOK, NoToken
    <1>2. CASE token'[r] = token[r]
        BY <1>2
    <1>3. ASSUME BurnEntryToken(r)
          PROVE  /\ ~token[r].consumed
                 /\ token'[r] = [token[r] EXCEPT !.consumed = TRUE, !.consumed_at = now,
                                                 !.source = flagged(token[r].source)]
        BY <1>3 DEF BurnEntryToken, Burnable, TokensTypeOK
    <1>4. CASE BurnEntryToken(r)
        <2>1. Provenance(flagged(token[r].source)) = Provenance(token[r].source)
            BY <1>1, FlaggedByte DEF TokenAccounts
        <2>2. /\ token'[r].exists = token[r].exists /\ token'[r].owner = token[r].owner
              /\ token'[r].created_at = token[r].created_at
              /\ token'[r].source = flagged(token[r].source)
            <3>. DEFINE t == token[r]
                        u == token'[r]
            <3>1. u = [t EXCEPT !.consumed = TRUE, !.consumed_at = now,
                                !.source = flagged(t.source)]
                BY <1>3, <1>4
            <3>. HIDE DEF t, u
            <3>2. t \in TokenAccounts
                BY <1>1 DEF t
            <3>3. /\ u.exists = t.exists /\ u.owner = t.owner
                  /\ u.created_at = t.created_at /\ u.source = flagged(t.source)
                BY <3>1, <3>2 DEF TokenAccounts
            <3>. QED
                BY <3>3 DEF t, u
        <2>. QED
            BY <1>3, <1>4, <2>1, <2>2
    <1>5. ASSUME NEW w \in Owners, RedeemEntryToken(r, w)
          PROVE  /\ ~token[r].consumed
                 /\ token'[r] = [token[r] EXCEPT !.consumed = TRUE, !.consumed_at = now]
        BY <1>5 DEF RedeemEntryToken, TokensTypeOK
    <1>6. CASE \E w \in Owners : RedeemEntryToken(r, w)
        <2>. DEFINE t == token[r]
                    u == token'[r]
        <2>1. ~t.consumed /\ u = [t EXCEPT !.consumed = TRUE, !.consumed_at = now]
            BY <1>5, <1>6
        <2>. HIDE DEF t, u
        <2>2. t \in TokenAccounts
            BY <1>1 DEF t
        <2>3. /\ u.exists = t.exists /\ u.owner = t.owner
              /\ u.created_at = t.created_at /\ u.source = t.source
            BY <2>1, <2>2 DEF TokenAccounts
        <2>. QED
            BY <2>1, <2>3 DEF t, u
    <1>7. ASSUME ~BurnEntryToken(r), ~\E w \in Owners : RedeemEntryToken(r, w)
          PROVE  token'[r] = token[r]
        <2>1. ASSUME NEW q \in Refs, NEW w \in Owners, NEW source \in Sources,
                     NEW window \in Times, MintEntryToken(q, w, source, window)
              PROVE  token'[r] = token[r]
            BY <2>1 DEF MintEntryToken, Unminted, TokensTypeOK
        <2>2. ASSUME NEW q \in Refs,
                     BurnEntryToken(q) \/ \E w \in Owners : RedeemEntryToken(q, w)
              PROVE  token'[r] = token[r]
            <3>1. q # r
                BY <1>7, <2>2
            <3>. QED
                BY <2>2, <3>1 DEF BurnEntryToken, RedeemEntryToken, TokensTypeOK
        <2>3. ASSUME \/ \E p \in Policies : SetMintWindowPolicy(p)
                     \/ Tick \/ UNCHANGED tokensVars
              PROVE  token'[r] = token[r]
            BY <2>3 DEF SetMintWindowPolicy, Tick, tokensVars
        <2>. QED
            BY <2>1, <2>2, <2>3 DEF TokensNext
    <1>. QED
        BY <1>2, <1>4, <1>6, <1>7

\* The record of a token is written once, for every set of references: no
\* reference is minted twice and nothing spent or burned ever changes.
THEOREM TokenHistoryStands == TokensSpec => HistoryStands
    <1>. QED
        BY TokensInitTypeOK, TokensNextTypeOK, StepStands, PTL DEF TokensSpec, HistoryStands

-----------------------------------------------------------------------------
(* Reading a token's fate off its account *)

\* The program leaves the top bit of the provenance to the burn: the values it
\* names are far below it (state.rs:447-450), and no instruction checks that.
ProvenancesKnown == Sources \subseteq 0..(BURNED_FLAG - 1)

\* The account reads as its fate, and what carries the flag is consumed: a
\* burned token cannot be redeemed and turned into a spent one.
FateInv ==
    /\ FateIsReadable
    /\ \A r \in Refs : token[r].exists /\ Burned(r) => token[r].consumed

\* At first there is no token, and nothing has become of one.
LEMMA InitFate == TokensInit => FateInv
BY DEF TokensInit, FateInv, FateIsReadable, Reading, NoToken

\* Flagging a byte sets the flag.
LEMMA FlaggedIsBurned ==
    ASSUME NEW s \in 0..255
    PROVE  flagged(s) >= BURNED_FLAG
BY DEF flagged, BURNED_FLAG

\* A token another instruction is about reads as before.
LEMMA SameToken ==
    ASSUME NEW r \in Refs, token'[r] = token[r], fate'[r] = fate[r],
           Reading(r) = fate[r], token[r].exists /\ Burned(r) => token[r].consumed
    PROVE  /\ Reading(r)' = fate'[r]
           /\ (token[r].exists /\ Burned(r) => token[r].consumed)'
BY DEF Reading, Burned

\* Minting, redeeming and burning leave the account reading as what they did.
LEMMA NextFate ==
    ASSUME ProvenancesKnown, TokensTypeOK, FateInv, [TokensNext]_tokensVars
    PROVE  FateInv'
    <1>. DEFINE Reads(r) == /\ Reading(r) = fate[r]
                            /\ token[r].exists /\ Burned(r) => token[r].consumed
    <1>1. \A r \in Refs : Reads(r)
        BY DEF FateInv, FateIsReadable
    <1>2. SUFFICES ASSUME NEW r \in Refs PROVE Reads(r)'
        BY DEF FateInv, FateIsReadable
    <1>3. CASE token'[r] = token[r] /\ fate'[r] = fate[r]
        BY <1>1, <1>3, SameToken
    <1>4. ASSUME NEW w \in Owners, NEW source \in Sources, NEW window \in Times,
                 MintEntryToken(r, w, source, window)
          PROVE  Reads(r)'
        <2>1. /\ token'[r] = [exists |-> TRUE, owner |-> w, source |-> source,
                              consumed |-> FALSE, created_at |-> now,
                              consumed_at |-> NEVER]
              /\ fate'[r] = "minted"
            BY <1>4 DEF MintEntryToken, TokensTypeOK
        <2>2. ~(source >= BURNED_FLAG)
            BY DEF ProvenancesKnown, BURNED_FLAG
        <2>. QED
            BY <2>1, <2>2 DEF Reading, Burned
    <1>5. ASSUME BurnEntryToken(r) PROVE Reads(r)'
        <2>1. /\ token'[r] = [token[r] EXCEPT !.consumed = TRUE, !.consumed_at = now,
                                              !.source = flagged(token[r].source)]
              /\ fate'[r] = "burned" /\ token[r].exists
            BY <1>5 DEF BurnEntryToken, Burnable, TokensTypeOK
        <2>2. token[r] \in TokenAccounts
            BY <2>1 DEF TokensTypeOK, NoToken
        <2>3. /\ token'[r].exists /\ token'[r].consumed
              /\ token'[r].source = flagged(token[r].source)
            BY <2>1, <2>2 DEF TokenAccounts
        <2>4. flagged(token[r].source) >= BURNED_FLAG
            BY <2>2, FlaggedIsBurned DEF TokenAccounts
        <2>. QED
            BY <2>1, <2>3, <2>4 DEF Reading, Burned
    <1>6. ASSUME NEW w \in Owners, RedeemEntryToken(r, w) PROVE Reads(r)'
        <2>1. /\ token'[r] = [token[r] EXCEPT !.consumed = TRUE, !.consumed_at = now]
              /\ fate'[r] = "spent" /\ token[r].exists /\ ~token[r].consumed
            BY <1>6 DEF RedeemEntryToken, TokensTypeOK
        <2>2. token[r] \in TokenAccounts
            BY <2>1 DEF TokensTypeOK, NoToken
        <2>3. /\ token'[r].exists /\ token'[r].consumed
              /\ token'[r].source = token[r].source
            BY <2>1, <2>2 DEF TokenAccounts
        <2>4. ~(token[r].source >= BURNED_FLAG)
            BY <1>1, <2>1 DEF Burned
        <2>. QED
            BY <2>1, <2>3, <2>4 DEF Reading, Burned
    <1>7. ASSUME NEW q \in Refs, q # r,
                 \/ \E w \in Owners, source \in Sources, window \in Times :
                        MintEntryToken(q, w, source, window)
                 \/ BurnEntryToken(q)
                 \/ \E w \in Owners : RedeemEntryToken(q, w)
          PROVE  token'[r] = token[r] /\ fate'[r] = fate[r]
        BY <1>7 DEF MintEntryToken, BurnEntryToken, RedeemEntryToken, TokensTypeOK
    <1>8. ASSUME \/ \E p \in Policies : SetMintWindowPolicy(p)
                 \/ Tick \/ UNCHANGED tokensVars
          PROVE  token'[r] = token[r] /\ fate'[r] = fate[r]
        BY <1>8 DEF SetMintWindowPolicy, Tick, tokensVars
    <1>. QED
        BY <1>3, <1>4, <1>5, <1>6, <1>7, <1>8 DEF TokensNext

\* Burned, spent and unspent tokens can be told apart from the account alone,
\* for every set of references, as long as provenances stay below the flag.
THEOREM FateAlwaysReadable == ProvenancesKnown => (TokensSpec => []FateIsReadable)
    <1>. SUFFICES ASSUME ProvenancesKnown PROVE TokensSpec => []FateIsReadable
        OBVIOUS
    <1>1. TokensTypeOK /\ FateInv /\ [TokensNext]_tokensVars => FateInv'
        BY NextFate
    <1>2. FateInv => FateIsReadable
        BY DEF FateInv
    <1>. QED
        BY <1>1, <1>2, InitFate, TokensTypeCorrect, PTL DEF TokensSpec
=============================================================================
