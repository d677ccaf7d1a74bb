SPECIFICATION Spec
CONSTANTS
    l1 = l1
    l2 = l2
    h1 = h1
    h2 = h2
    None = None
    Library <- HostLibrary
    Host <- HostHost
    Key <- HostKey
    Shard <- HostShard
    InitialDelay <- MCOne
    MaximumDelay <- HostTwo
    QuietPeriod <- HostTwo
    LeasePeriod <- MCOne
    MaxRows <- HostMaxRows
    CleanupBatch = 1
    MaxToken = 4
    MaxTime = 4
SYMMETRY HostSymmetry
PROPERTIES
    ImplementsSharedThrottle
