SPECIFICATION Spec
CONSTANTS
  a1 = a1  a2 = a2  k1 = k1  k2 = k2  c1 = c1  c2 = c2
  Actions = {a1, a2}
  Controls = {k1, k2}
  Conns = {c1}
  Heart = Heart  Live = Live  None = None
  MaxActive = 1  QueueSize = 1  MaxCancels = 1
SYMMETRY Alike
INVARIANT TypeOK
PROPERTY KeepsPromise
CHECK_DEADLOCK FALSE
