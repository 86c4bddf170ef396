SPECIFICATION FairSpec
CONSTANTS
    Streams = {h1}
    Publishers = {p1}
    Closers = {k1}
    QueueCap = 2
    MaxCapsules = 4
CHECK_DEADLOCK FALSE
INVARIANTS
    AckThenRun
    QuietRelayer
PROPERTIES
    QuietEndHasCause
    HandlersEnd
    CloseReturns
