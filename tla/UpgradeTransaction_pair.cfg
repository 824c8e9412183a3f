SPECIFICATION Spec
CONSTANTS
  v1 = v1
  v2 = v2
  one = one
  two = two
  three = three
  mine = mine
  Absent = Absent
  a1 = a1
  a2 = a2
  r1 = r1
  Versions = {v1, v2}
  Template <- OneFile
  NumFiles = 1
  Edits = {mine}
  Appliers = {a1, a2}
  Recoverers = {r1}
  Windows = TRUE
  MaxEdits = 0
  MaxCrashes = 1
  MaxFaults = 1
INVARIANTS MutualExclusion RollbackRestores
CHECK_DEADLOCK FALSE
