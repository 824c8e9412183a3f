SPECIFICATION FairSpec
CONSTANTS
  a1 = a1  a2 = a2  k1 = k1  k2 = k2  c1 = c1  c2 = c2
  Actions = {a1}
  Controls = {k1}
  Conns = {c1, c2}
  Heart = Heart  Live = Live  None = None
  MaxActive = 1  QueueSize = 1  MaxCancels = 1
PROPERTY EverythingEnds
CHECK_DEADLOCK FALSE
