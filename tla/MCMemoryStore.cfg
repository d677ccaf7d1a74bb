SPECIFICATION Spec
CONSTANTS
    t1 = t1
    t2 = t2
    t3 = t3
    NoCaller = NoCaller
    Caller <- MCCaller
    Key <- MCKey
    Hash <- MCHash
    Limit <- MCLimit
    Window <- MCWindow
    Operation <- MCOperation
    Time <- MCTime
    MaxKeys = 3
    ShardCount = 2
    MaxRemovals = 1
    MaxBatchSize = 2
    MaxCalls = 4
SYMMETRY CallerSymmetry
INVARIANTS
    TypeOK
    IndexesAgree
    HardBound
    CapacityDenialHonest
    RecoveryAllOrNothing
PROPERTIES
    PoisonFailsClosed
    ImplementsAnchoredWindow
