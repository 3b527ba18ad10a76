\* Two sources of one mount point behind one address, a second mount point, the administration.
SPECIFICATION FairSpec
CONSTANTS
    Session <- TwoSessions
    Mount <- TwoMounts
    IpOf <- StationIps
    MountOf <- PairOnOne
    LocalIp = "local"
    NoEntry = NoEntry
    Initialized = Initialized
    MaxChunks = 1
    MaxAdmin = 1
INVARIANTS LiveSourceOwnsMount NoLeakedMount NoLeakedBuffer
PROPERTIES LiveSourceClosedOnlyBy DepartedSourceReleasesMount ShutdownDrains
CHECK_DEADLOCK FALSE
