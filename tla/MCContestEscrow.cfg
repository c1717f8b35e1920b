SPECIFICATION Spec
CONSTANTS
    c1 = c1
    alice = alice
    bob = bob
    usdc = usdc
    usdt = usdt
    tok = tok
    s1 = s1
    s2 = s2
    Contests <- MCContests
    Wallets <- MCWallets
    Creators <- MCCreators
    EntryNums = {0, 5}
    Currencies <- MCCurrencies
    PayoutMint <- usdc
    Tokens <- MCTokens
    TokenOwner <- MCTokenOwner
    Seasons <- MCSeasons
    SeedSchedule <- MCSeedSchedule
    Offers <- MCOffers
    Settlements <- MCSettlements
    Timestamps <- MCTimestamps
    SweepAmounts = {0, 2}
    Donors = {bob}
    Deactivable = {usdt}
    Endowment = 1
    MaxTime = 3
    MaxCreations = 2
CONSTRAINT Explored
INVARIANTS
    PoolBacksPrize
    CountersReconcile
    FeesAreRevenue
    TokensFundEntries
    NeverStranded
PROPERTIES
    ImplementsEscrow
    GradingStands
    DeadlinesStand
