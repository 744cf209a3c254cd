CONSTANTS
  short = short
  error = error
  fatal = fatal
  huge = huge
  Lines = {short, error, fatal, huge}
  LineLen <- MCLineLen
  LevelOf <- MCLevelOf
  kBufferSize = 3
  Null = Null
  Threads = 2
SPECIFICATION LoggerSpec
INVARIANTS TypeOK CurrentBufferExists RefillHasBuffers NoLostNotify LogInOrder StopFlushes LastWordsAreKept
PROPERTIES EveryLineWritten StopEnds LevelIsCurrent
CHECK_DEADLOCK FALSE
