SPECIFICATION FairSpec
CONSTANTS
  a = a  b = b  None = None  Broken = Broken
  Paths = {a, b}
  QueueSize = 8
  MaxEdits = 1  MaxSyncs = 1  MaxDrops = 1
INVARIANT Inv
PROPERTY ReconnectHeals
CHECK_DEADLOCK FALSE
