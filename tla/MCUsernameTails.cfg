SPECIFICATION Spec
CONSTANTS
    alice = alice
    bob = bob
    carol = carol
    Vault = Vault
    Free = Free
    NoRecord = NoRecord
    Wallets <- MCWallets
    Usernames <- MCTailedUsernames
    InvalidTexts = {"x"}
    PrefixedTexts = {"turf"}
INVARIANTS
    ShownTextsUnique
