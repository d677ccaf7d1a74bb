SPECIFICATION InheritedSpec
CONSTANTS
    l1 = l1
    l2 = l2
    h1 = h1
    h2 = h2
    None = None
    Library <- MCLibrary
    Host <- MCHost
    Key <- MCKey
    Shard <- MCShard
    InitialDelay <- MCOne
    MaximumDelay <- MCOne
    QuietPeriod <- MCOne
    LeasePeriod <- MCOne
    MaxRows <- DrainMaxRows
    CleanupBatch = 1
    MaxToken = 3
    MaxTime = 2
PROPERTIES
    ExpiredShardShrinks
