SPECIFICATION FairSpec
CONSTANTS
    Timeout = 2
    MaxStart = 2
    MaxRpcs = 2
CHECK_DEADLOCK FALSE
INVARIANTS
    CleanExit
    BudgetRunsFromSignal
PROPERTIES
    SignalEndsAgent
    LeftoversAreClosed
