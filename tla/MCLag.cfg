SPECIFICATION ChainSpec
CONSTANTS
    Pcs = {1, 2}
    Variables = {}
    Values = {1}
    Ranges <- MCCounters
    Had = {1}
    OptimizeFrom = 3
    OptimizeCheck = 2
    MaxBudget = 3
    MaxRuns = 3
    MaxObjects = 0
    MaxCount = 0
    None = none
CHECK_DEADLOCK FALSE
INVARIANT BackByWhenDue
