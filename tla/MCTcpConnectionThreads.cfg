CONSTANTS
  Messages = {m1, m2}
  MessageLen = 2
  SendRoom = 1
  PeerData = 2
  Workers = {w1}
  Callbacks = {"highWater"}
  HighWaterMark = 3
  Expiries = 1
  Resets = TRUE
  ServerDies = TRUE
SPECIFICATION Spec
INVARIANT StreamInOrder
PROPERTY OnlyQueuedSendsWriteLate
CHECK_DEADLOCK FALSE
