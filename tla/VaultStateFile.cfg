CONSTANTS
    Object = {o1}
    Version = {v1, v2}
    Key = {k1}
    NoObject = NoObject
    NoVersion = NoVersion
    NoKey = NoKey
    MaxEpoch = 8
    Profiles = {"strict"}
    Requests = {"unlock", "put"}
    Faults = {"InvalidInput"}
SPECIFICATION Spec
INVARIANT
    Reconcilable
