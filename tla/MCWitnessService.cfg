CONSTANTS
    Object = {o1, o2}
    Version = {v1, v2}
    Key = {k1, k2}
    NoVersion = NoVersion
    NoKey = NoKey
    MaxEpoch = 5
SPECIFICATION WSpec
INVARIANTS
    WTypeOK
    EpochsUnique
PROPERTY
    HeadsMonotonic
