SPECIFICATION Spec
CONSTANTS
  f1 = f1  f2 = f2  d = d  v1 = v1  v2 = v2
  Files = {f1, f2}
  Paths = {f1, f2, d}
  Under <- Tree
  Contents = {v1, v2}
  Absent = Absent  None = None
  MaxDirty = 1
  MaxRescans = 1
  MaxChanges = 3  MaxFaults = 2
INVARIANT Inv
PROPERTY PublishedTogether
SYMMETRY Symmetry
