SPECIFICATION Spec
CONSTANTS
    Clients = {c1, c2}
    SubscriberID <- OwnID
    Stoppers = {}
    Closers = {k1}
    InternalCap = 1
    ExternalCap = 1
    MaxCapsules = 3
CHECK_DEADLOCK FALSE
SYMMETRY ClientSymmetry
INVARIANTS
    GaplessFanOut
PROPERTIES
    ImplementsGroup
