SPECIFICATION NodeFairSpec
CONSTANTS
    Timeout = 1
    MaxStart = 0
    MaxRpcs = 1
    PeerCap = 1
    MaxFound = 0
CHECK_DEADLOCK FALSE
INVARIANTS
    NilMeansReleased
    TopicsCloseOnLivePubsub
PROPERTY
    SignalReleasesRelayer
