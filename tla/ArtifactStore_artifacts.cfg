SPECIFICATION Spec
CONSTANTS
  s1 = s1  s2 = s2  a = a  b = b  None = None
  Sessions = {s1, s2}
  Ids = {a, b}
  Bytes <- Sizes
  SessionQuota = 2  ProjectQuota = 3  MaxActive = 1
  MaxReaders = 1  MaxAges = 1  MaxFaults = 1  MaxCrashes = 1
INVARIANTS Inv QuotaHolds
PROPERTIES PublishedIsKept
SYMMETRY Symmetry
