SPECIFICATION Spec
CONSTANTS
    alice = alice
    bob = bob
    carol = carol
    Vault = Vault
    Free = Free
    NoRecord = NoRecord
    Wallets <- MCWallets
    Usernames <- MCUsernames
    InvalidTexts = {"x"}
    PrefixedTexts = {"turf"}
SYMMETRY Symmetric
INVARIANTS
    RegisteredHoldsItsName
    NobodyHoldsTwoNames
PROPERTIES
    ImplementsNameLock
