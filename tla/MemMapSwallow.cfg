SPECIFICATION Spec
CONSTANTS
    Top = 6
    free = free
    bios = bios
    Types <- MCTypes
    None = None
    Swallowing = TRUE
INVARIANT SortedDisjoint
CHECK_DEADLOCK FALSE
