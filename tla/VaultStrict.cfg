CONSTANTS
    Object = {o1, o2}
    Version = {v1, v2, v3}
    Key = {k1, k2}
    NoObject = NoObject
    NoVersion = NoVersion
    NoKey = NoKey
    MaxEpoch = 8
    Profiles = {"strict"}
    Requests = {"unlock", "lock", "put", "get", "get_stream", "verify"}
    Faults = {"crash", "lost", "Storage", "signer"}
SPECIFICATION Spec
SYMMETRY Symmetry
INVARIANTS
    TypeOK
    Reconcilable
    HeadHeldLocally
    ServesReconciled
    AckedNotLost
    FinalizeCommits
    ReceiptsComplete
    CommitInv
PROPERTY
    CommitsInOrder
