SPECIFICATION Spec
CONSTANTS
    BlockCount = 17
    MaxOrder = 15
    Counts <- TailCounts
    Garbage <- MCGarbage
INVARIANT NoDoubleAllocation
