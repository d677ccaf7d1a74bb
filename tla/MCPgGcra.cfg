SPECIFICATION Spec
CONSTANTS
    s1 = s1
    s2 = s2
    None = None
    Session <- MCSession
    Key <- MCKey
    Shard <- MCShard
    Policy <- MCPolicy
    MaxRows <- MCMaxRows
    MaxBatchSize = 2
    Operation <- MCOperation
    CleanupLimit = 1
    BigintMax = 5
    Time <- MCTime
    WideMax = 11
    DelayMax = 20
SYMMETRY SessionSymmetry
INVARIANTS
    LedgerExact
    NoWaitCycle
PROPERTIES
    ImplementsSharedBucket
