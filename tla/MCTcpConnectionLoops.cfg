CONSTANTS
  Messages = {m1, m2}
  MessageLen = 2
  SendRoom = 2
  PeerData = 2
  Workers = {}
  Callbacks = {"complete", "highWater"}
  HighWaterMark = 3
  Expiries = 2
  Resets = TRUE
  ServerDies = TRUE
SPECIFICATION FairSpec
INVARIANTS StreamInOrder NoUseAfterFree EventsFindConnection RegisteredIsManaged DownCallbackOnce NoMessageAfterDown
PROPERTY ClosedIsReclaimed
CHECK_DEADLOCK FALSE
