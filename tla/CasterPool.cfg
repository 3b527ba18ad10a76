\* Four connections: the queue, the pool and the limit are all reached.
SPECIFICATION PoolFairSpec
CONSTANTS
    Session <- FourSessions
    NoOne = NoOne
    MaxConnections = 1
    MaxWorkers = 1
    QueueSize = 1
INVARIANTS CountDoesNotDrift OpenSocketIsRegistered ActiveIsBounded
PROPERTIES StopEnds
CHECK_DEADLOCK FALSE
