SPECIFICATION FairSpec
CONSTANTS
    LoadCounts = {0, 1, 2, 3}
    MaxLoad = 3
CHECK_DEADLOCK FALSE
PROPERTY
    LoaderEnds
