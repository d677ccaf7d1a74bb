SPECIFICATION FairSpec
CONSTANTS
    Key <- MCKey
    InitialDelay <- MCInitialDelay
    MaximumDelay <- MCMaximumDelay
    QuietPeriod <- MCQuietPeriod
    LeasePeriod <- MCLeasePeriod
    Time <- MCTime
    Foreign <- MCForeign
    NoKey = NoKey
    Capacity = 2
    CleanupBatch = 1
    MaxGeneration = 3
INVARIANTS
    HardBound
    SingleFlight
PROPERTIES
    ImplementsAttemptThrottle
    GarbageReclaimed
