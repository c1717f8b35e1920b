SPECIFICATION FairSpec
CONSTANTS
    r1 = r1
    sys = sys
    gov = gov
    gov2 = gov2
    op = op
    act = act
    Keys <- MCKeys
    Threshold = 2
    Acts <- MCActs
    Swaps <- MCSwaps
    Nothing = Nothing
    StaleVaultExecutes = FALSE
    MaxIndex = 2
    MaxFlight = 2
    System = sys
    Governances <- MCGovernances
    Operators = {op}
    Runs = {r1}
    Agents <- MCAgents
    Seated <- MCSeated
    Mainnet = TRUE
    Out = gov
    In = gov2
    ByHand <- MCByHand
INVARIANTS
    TypeOK
    LiveVotesAreExact
    NothingOpenBelow
PROPERTIES
    ExecutesTheSwap
    ProposedIsVoted
CHECK_DEADLOCK FALSE
