CONSTANTS
  Conns = {c1, c2}
  idleSeconds_ = 3
  ContextSets = 1
SPECIFICATION Spec
INVARIANT ShutWithinTimeout
PROPERTIES ActivityResetsTimeout ImplementsCountdown
