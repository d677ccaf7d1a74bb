SPECIFICATION Spec
CONSTANTS
    Key <- MCKey
    Hash <- MCHash
    Policy <- MCPolicy
    Singles <- MCSingles
    Batches <- MCBatches
    Time <- MCTime
    MaxKeys = 3
    ShardCount = 2
    MaxRemovals = 1
    MaxBatchSize = 2
    WideMax = 40
    DelayMax = 20
INVARIANTS
    ShardsConsistent
    ExpiryLosesNothing
    RateBound
    
PROPERTIES
    ImplementsTokenBucket
