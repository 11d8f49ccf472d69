CONSTANTS
    Object = {o1, o2}
    Version = {v1, v2}
    Key = {k1}
    NoObject = NoObject
    NoVersion = NoVersion
    NoKey = NoKey
    MaxEpoch = 8
    Profiles = {"strict"}
    Requests = {"unlock", "lock", "put"}
    Faults = {"crash", "lost", "Storage"}
SPECIFICATION FairSpec
PROPERTY
    EventuallyReconciled
