SPECIFICATION FairSpec
CONSTANTS
    Clients = {c1}
    SubscriberID <- OwnID
    Stoppers = {s1}
    Closers = {k1, k2}
    InternalCap = 1
    ExternalCap = 1
    MaxCapsules = 3
CHECK_DEADLOCK FALSE
PROPERTIES
    CallsReturn
    DesertedBoxReleasesWorker
    FailedJoinLeavesNothing
