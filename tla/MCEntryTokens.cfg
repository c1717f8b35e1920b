SPECIFICATION TokensSpec
CONSTANTS
    r1 = r1
    r2 = r2
    r3 = r3
    alice = alice
    bob = bob
    Refs <- MCRefs
    Owners <- MCOwners
    Sources = {1}
    Policies <- MCPolicies
    StartTime = 4
    MaxTime = 6
SYMMETRY Symmetric
INVARIANTS
    CheapMintsWithinCap
    FateIsReadable
PROPERTIES
    HistoryStands
