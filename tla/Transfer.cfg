CONSTANTS
    RootKey = RootKey
    VaultId = VaultId
    Object = {o1, o2}
    Version <- MCVersion
    NoVersion = NoVersion
    ChunkSize = 2
    MaxChunks = 2
    Plain <- MCPlain
    ItemSize = 2
    Buffer = 1
    MaxDamage = 1
    Faults = {"crash", "abort", "timeout", "Storage"}
SPECIFICATION FairSpec
INVARIANTS
    TTypeOK
    StoredWhole
    OutputWhole
    SentVerified
    TransferInv
PROPERTIES
    PutAcknowledged
    VaultReleased
