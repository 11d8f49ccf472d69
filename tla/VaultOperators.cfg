CONSTANTS
    Object = {o1, o2}
    Version = {v1, v2}
    Key = {k1, k2}
    NoObject = NoObject
    NoVersion = NoVersion
    NoKey = NoKey
    MaxEpoch = 8
    Profiles = {"strict", "local"}
    Requests = {"unlock", "lock", "put", "put_stream", "get", "get_stream", "verify", "backup"}
    Faults = {"crash", "lost", "Storage", "InvalidInput", "restore", "signer"}
SPECIFICATION Spec
SYMMETRY Symmetry
INVARIANT
    CheckedInv
PROPERTY
    VerifiedNotRolledBack
