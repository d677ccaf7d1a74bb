SPECIFICATION Spec
CONSTANTS
    s1 = s1
    s2 = s2
    None = None
    Session <- MCSession
    Key <- MCKey
    LockId <- MCLockId
    Shard <- MCShard
    Limit <- MCLimit
    Window <- MCWindow
    MaxRows <- MCMaxRows
    HardMax = 3
    MaxBatchSize = 2
    Operation <- MCOperation
    CleanupLimit = 1
    MaxTime = 2
INVARIANTS
    TypeOK
    LedgerExact
    RowsBounded
    NoWaitCycle
    ProtocolHolds
PROPERTIES
    ImplementsSharedWindow
