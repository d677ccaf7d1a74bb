SPECIFICATION Spec
CONSTANTS
    Call = {"c1", "c2"}
    Session = {"s1", "s2"}
    None = "nobody"
    MaxConnections = 1
    RawConfig <- MCRawConfig
    HardMaxRows = 3
    MaxTimeout = 2
    Defaults <- MCDefaults
    Operation <- MCOperation
CHECK_DEADLOCK FALSE
INVARIANTS
    PoolStaysClean
    ObservationsHonest
PROPERTIES
    CallsAnswered
