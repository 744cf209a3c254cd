CONSTANTS
  Messages = {m1}
  MessageLen = 2
  SendRoom = 1
  PeerData = 1
  Workers = {}
  Callbacks = {}
  HighWaterMark = 3
  Expiries = 1
  Resets = FALSE
  ServerDies = FALSE
SPECIFICATION FairSpec
PROPERTY OutputDrains
CHECK_DEADLOCK FALSE
