SPECIFICATION ScheduledSpec
CONSTANTS
    s1 = s1
    s2 = s2
    None = None
    Session <- MCSingle
    Key <- MCKey
    Shard <- MCShard
    Policy <- MCPolicy
    MaxRows <- MCSingleRows
    MaxBatchSize = 2
    Operation <- MCOperation
    CleanupLimit = 1
    BigintMax = 5
    Time <- MCTime
    WideMax = 11
    DelayMax = 20
PROPERTIES
    GarbageReclaimed
