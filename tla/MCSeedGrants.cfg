SPECIFICATION Spec
CONSTANTS
    alice = alice
    bob = bob
    s1 = s1
    s2 = s2
    c1 = c1
    NoInvitee = NoInvitee
    NoSeason = NoSeason
    Wallets <- MCWallets
    Seasons <- MCSeasons
    Schedules <- MCSchedules
    Contests <- MCContests
    EntryNums = {0, 5}
    Kinds = {0, 2, 16}
    Amounts = {0, 1000, 1001}
INVARIANTS
    SeedsReconcile
    GrantsBounded
CHECK_DEADLOCK FALSE
