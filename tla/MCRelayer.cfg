SPECIFICATION FairSpec
CONSTANTS
    Closers = {k1, k2}
    PeerCap = 2
    MaxFound = 4
CHECK_DEADLOCK FALSE
INVARIANTS
    FailedConstructionReleases
    ReleasedInOrder
PROPERTIES
    CancelReleasesClose
    DiscoveryEnds
