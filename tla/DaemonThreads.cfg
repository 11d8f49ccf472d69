CONSTANTS
    Conn = {c1, c2, c3}
    NoConn = NoConn
    MaxConnections = 2
    Strict = TRUE
    AllowShutdown = TRUE
    Kinds = {"status", "get", "verify", "put_stream", "shutdown"}
SPECIFICATION FairSpec
INVARIANTS
    DTypeOK
    PermitsExact
    LongExclusive
    LockOrder
    NoLateWait
    ThreadInv
PROPERTIES
    RecoveryMonotone
    EveryConnectionEnds
CHECK_DEADLOCK FALSE
