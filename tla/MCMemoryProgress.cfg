SPECIFICATION FairSpec
CONSTANTS
    t1 = t1
    t2 = t2
    t3 = t3
    NoCaller = NoCaller
    Caller <- ProgressCaller
    Key <- MCKey
    Hash <- MCHash
    Limit <- MCLimit
    Window <- MCWindow
    Operation <- ProgressOperation
    Time <- ProgressTime
    MaxKeys = 3
    ShardCount = 2
    MaxRemovals = 1
    MaxBatchSize = 2
    MaxCalls = 3
PROPERTIES
    EveryCallReturns
