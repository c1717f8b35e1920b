SPECIFICATION FairSpec
CONSTANTS
    sys = sys
    gov = gov
    gov2 = gov2
    op = op
    guest = guest
    move = move
    other = other
    r1 = r1
    r2 = r2
    Keys <- MCKeys
    Threshold = 3
    Acts <- MCActs
    Swaps <- MCSwaps
    Nothing = Nothing
    StaleVaultExecutes = TRUE
    MaxIndex = 2
    Runs = {r1}
    System = sys
    Governances <- MCGovernances
    Agents <- MCAgents
    Operators = {op}
    Seated <- MCSeated
    Mainnet = TRUE
    Move = move
    ByHand <- MCByHand
    SettleTries = 1
INVARIANTS
    OneMove
    SignsOnlyTheMove
    OperatorApproved
    AdviceIsTrue
PROPERTIES
    SentIsVoted
    ApprovedIsExecuted
