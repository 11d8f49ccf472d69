CONSTANTS
    Object = {o1}
    Version = {v1}
    Key = {k1}
    NoObject = NoObject
    NoVersion = NoVersion
    NoKey = NoKey
    MaxEpoch = 8
    Profiles = {"strict"}
    Requests = {"unlock", "put"}
    Faults = {"crash", "restore"}
SPECIFICATION Spec
PROPERTY
    RollbackDetected
