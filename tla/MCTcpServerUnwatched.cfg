CONSTANTS
  Conns = {c1}
  MaxThreads = 1
  idleTimeout_ = 2
  MaxDescriptors = 1
SPECIFICATION Spec
INVARIANT EstablishedIsWatched
CHECK_DEADLOCK FALSE
