SPECIFICATION FairSpec
CONSTANT
    MaxRetries = 8
CHECK_DEADLOCK FALSE
INVARIANTS
    HonestResult
    AckedStreamLives
    BackoffRamps
PROPERTY
    StopsWhenTold
