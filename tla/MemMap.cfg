SPECIFICATION Spec
CONSTANTS
    Top = 6
    free = free
    bios = bios
    Types <- MCTypes
    None = None
    Swallowing = FALSE
INVARIANT SortedDisjoint
INVARIANT Agregated
PROPERTY ImplementsMemPaint
PROPERTY AgregateEnds
CHECK_DEADLOCK FALSE
