SPECIFICATION FairSpec
CONSTANTS
  s1 = s1  s2 = s2  s3 = s3
  Sessions = {s1, s2, s3}
  Nobody = Nobody
  MaxCrashes = 2  MaxFaults = 1
INVARIANTS TypeOK LeaseFenced NoOwnerAfterRelease
PROPERTIES OverlapIsDetected ReleaseEnds
CHECK_DEADLOCK FALSE
