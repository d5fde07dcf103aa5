SPECIFICATION PoolFairSpec
CONSTANTS
    N = 3
    Limit = 2
    MaxVersion = 1
    Failed = Failed
    Stuck = {}
INVARIANTS
    PoolIsFull
PROPERTIES
    ImplementsBatch
    Returns
CHECK_DEADLOCK FALSE
