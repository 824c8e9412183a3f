SPECIFICATION FairSpec
CONSTANTS
  v1 = v1
  v2 = v2
  one = one
  two = two
  three = three
  mine = mine
  Absent = Absent
  a1 = a1
  r1 = r1
  Versions = {v1, v2}
  Template <- TwoFiles
  NumFiles = 2
  Edits = {mine}
  Appliers = {a1}
  Recoverers = {r1}
  Windows = FALSE
  MaxEdits = 1
  MaxCrashes = 1
  MaxFaults = 1
INVARIANTS TypeOK BackupCoversReplaced VerdictIsTrue
PROPERTIES EditsPreserved RecoveryEnds
CHECK_DEADLOCK FALSE
