SPECIFICATION CommandSpec
CONSTANT
    MaxRetries = 1
CHECK_DEADLOCK FALSE
PROPERTY
    CommandEnds
