SPECIFICATION FairSpec
CONSTANTS
    r1 = r1
    sys = sys
    seatA = seatA
    op = op
    guest = guest
    vault = vault
    seat = seat
    upVault = upVault
    upSeat = upSeat
    other = other
    Keys <- MCKeys
    Threshold = 2
    Acts <- MCActs
    Swaps <- MCSwaps
    Nothing = Nothing
    StaleVaultExecutes = TRUE
    MaxIndex = 2
    System = sys
    Governances = {}
    Operators = {op}
    Runs = {r1}
    Clusters <- MCClusters
    Spills <- MCSpills
    Vault = vault
    Upgrade <- MCUpgrade
    ByHand <- MCByHand
INVARIANTS
    SignsOnlyTheUpgrade
    SignedIsReviewed
    SignedFits
PROPERTIES
    MadeIsVoted
CHECK_DEADLOCK FALSE
