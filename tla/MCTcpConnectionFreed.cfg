CONSTANTS
  Messages = {m1}
  MessageLen = 2
  SendRoom = 1
  PeerData = 1
  Workers = {}
  Callbacks = {}
  HighWaterMark = 3
  Expiries = 1
  Resets = FALSE
  ServerDies = TRUE
SPECIFICATION Spec
INVARIANT ShutdownFindsConnection
CHECK_DEADLOCK FALSE
