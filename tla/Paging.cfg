SPECIFICATION Spec
CONSTANTS
  Idx = {0, 1}
  Virts <- MCVirts
  Phys = {1, 2}
  Frames = {1, 2, 3, 4, 5, 6}
INVARIANT SubcountExact
INVARIANT TablesOwned
INVARIANT TablesReturned
PROPERTY ImplementsAddressSpace
CHECK_DEADLOCK FALSE
