CONSTANTS
    Object = {o1}
    Version = {v1}
    Key = {k1, k2}
    NoVersion = NoVersion
    NoKey = NoKey
    MaxEpoch = 5
SPECIFICATION WSpec
INVARIANT
    HeadsServable
