SPECIFICATION Spec
CONSTANTS
  BlockBytes = 14
  AllocHeader = 2
  BlockHeader = 2
  Workloads <- MCSplitting
  FollowStale = TRUE
  DropFirst = FALSE
INVARIANT LiveDisjoint
CHECK_DEADLOCK FALSE
