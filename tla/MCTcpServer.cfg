CONSTANTS
  Conns = {c1, c2}
  MaxThreads = 1
  idleTimeout_ = 2
  MaxDescriptors = 2
SPECIFICATION FairSpec
INVARIANTS PollersForgetFreed WatchedOnBaseLoop NothingLeftBehind
PROPERTIES ClosedAreReclaimed NobodyWaitsForEver DestructorReturns
CHECK_DEADLOCK FALSE
