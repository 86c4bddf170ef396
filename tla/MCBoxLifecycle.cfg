SPECIFICATION Spec
CONSTANTS
    Clients = {c1, c2}
    SubscriberID <- SharedID
    Stoppers = {s1}
    Closers = {k1, k2}
    InternalCap = 1
    ExternalCap = 1
    MaxCapsules = 0
CHECK_DEADLOCK FALSE
SYMMETRY ClientSymmetry
INVARIANTS
    OneWorker
    StateShape
    RepliesFitTheirChannels
    JoinedIsServed
    NoOrphans
    OnlyOwnCancellation
