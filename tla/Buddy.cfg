SPECIFICATION Spec
CONSTANTS
    BlockCount = 10
    MaxOrder = 2
    Counts <- MCCounts
    Garbage <- MCGarbage
INVARIANT Inv
INVARIANT NothingLost
PROPERTY WritesStayInBitmaps
PROPERTY ImplementsPageAllocator
PROPERTY FreeCompletes
