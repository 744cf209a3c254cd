CONSTANTS
  numThreads_ = 3
  MaxUses = 2
SPECIFICATION FairSpec
INVARIANT LoopsExist
PROPERTIES PoolStarts PoolEnds
CHECK_DEADLOCK FALSE
