SPECIFICATION CurrencySpec
CONSTANTS
    m1 = m1
    m2 = m2
    m3 = m3
    m4 = m4
    c1 = c1
    c2 = c2
    NoMint = NoMint
    Mints <- MCMints
    MAX_CURRENCIES = 3
    Contests <- MCContests
    FeeSlots <- MCFeeSlots
SYMMETRY Symmetric
INVARIANTS
    FeesPaidInTheirMint
CHECK_DEADLOCK FALSE
