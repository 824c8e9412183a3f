SPECIFICATION FairSpec
CONSTANTS
  o1 = o1  None = None
  Observers = {o1}
  QueueSize = 1
  MaxSaves = 1  MaxAsks = 1  MaxFaults = 1
INVARIANTS Inv StatusIsTrue ObservationIsCurrent
PROPERTY AskedIsBuilt
CHECK_DEADLOCK FALSE
