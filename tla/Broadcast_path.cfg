\* Two clients while the source reconnects; the ring holds two items.
SPECIFICATION FairSpec
CONSTANTS
    Client <- TwoClients
    NoOne = NoOne
    RingSize = 2
    MaxGens = 2
    MaxItems = 3
PROPERTIES NothingSkippedInRing RefinesDelivery UploadsReachClients
CHECK_DEADLOCK FALSE
