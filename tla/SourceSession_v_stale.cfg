\* An old handler's cleanup against the source that reconnected.
SPECIFICATION Spec
CONSTANTS
    Session <- TwoSessions
    Mount <- OneMount
    IpOf <- StationIps
    MountOf <- PairOnOne
    LocalIp = "local"
    NoEntry = NoEntry
    Initialized = Initialized
    MaxChunks = 2
    MaxAdmin = 0
PROPERTIES StaleCleanupSparesSource
CHECK_DEADLOCK FALSE
