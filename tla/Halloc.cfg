SPECIFICATION Spec
CONSTANTS
  BlockBytes = 21
  AllocHeader = 2
  BlockHeader = 2
  Workloads <- MCWorkloads
  FollowStale = FALSE
  DropFirst = FALSE
INVARIANT LiveDisjoint
INVARIANT Tiled
INVARIANT FreeListExact
INVARIANT BlocksHeld
