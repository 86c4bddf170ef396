SPECIFICATION FairSpec
CONSTANTS
    Topics = {t1}
    Getters = {g1, g2}
    Leavers = {l1, l2}
    Closers = {k1}
    TopicOf <- OneTopic
    None = None
CHECK_DEADLOCK FALSE
INVARIANTS
    OneIncarnation
    ClosedForGood
    FreshBox
PROPERTIES
    ImplementsDirectory
    CallsReturn
