SPECIFICATION Spec
CONSTANTS
    k1 = k1
    k2 = k2
    t1 = t1
    t2 = t2
    d1 = d1
    Keys = {k1, k2}
    Topics = {t1, t2, long}
    LongTopics = {long}
    Payloads = {d1}
    Encode <- encoding
    Agents = {a1}
    MaxSteps = 3
SYMMETRY keySymmetry
CHECK_DEADLOCK FALSE
INVARIANTS
    OnlySignedIsDelivered
    AcceptedIsDeliverable
