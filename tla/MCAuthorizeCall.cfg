SPECIFICATION CallSpec
CONSTANTS
    k1 = k1
    k2 = k2
    k3 = k3
    k4 = k4
    NoKey = NoKey
    Keys <- MCKeys
    SignerSets <- MCSignerSets
    StoredValues <- MCStoredValues
    CallActions <- MCCallActions
    MaxRemaining = 2
INVARIANTS
    AcceptedOnlyByAQuorum
    CollectedKeysAreCosigned
    EveryQuorumHasAnArrangement
CHECK_DEADLOCK FALSE
