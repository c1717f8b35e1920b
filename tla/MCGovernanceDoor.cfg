SPECIFICATION Spec
CONSTANTS
    k1 = k1
    k2 = k2
    k3 = k3
    k4 = k4
    k5 = k5
    typo = typo
    NoKey = NoKey
    Keys <- MCKeys
    Held <- MCHeld
    GenesisKeys <- MCGenesisKeys
    Proposals <- MCProposals
    Retunes <- MCRetunes
    Policies <- MCPolicies
    OtherOps <- MCOtherOps
PROPERTIES
    NoOneWayDoor
