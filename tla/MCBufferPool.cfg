SPECIFICATION FairPoolSpec
CONSTANTS
  Count = 3
  BufSize = 2
INVARIANTS
  PoolInv
PROPERTIES
  StarvationEnds
CHECK_DEADLOCK FALSE
