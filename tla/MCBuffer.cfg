CONSTANTS
  Byte = {0, 1}
  Zero = 0
  kCheapPrepend = 1
  kInitialSize = 2
  ExtraSize = 2
  MaxLen = 3
  MaxHeld = 4
SPECIFICATION Spec
INVARIANT TypeOK
PROPERTY ImplementsByteQueue
