SPECIFICATION FairSpec
CONSTANTS
  p1 = p1  p2 = p2  p3 = p3  c1 = c1  build = build  preview = preview
  Callers = {p1, p2, p3}
  Cleaners = {c1}
  Kinds = {build, preview}
  KindOf <- Mixed
  Controlled = {preview}
  Nobody = Nobody
  MaxCrashes = 1  MaxFailures = 1  MaxCancels = 1
INVARIANTS Inv OutcomeIsOwn
PROPERTIES OutputIsVerified AbandonedMeansDead EveryCallReturns
CHECK_DEADLOCK FALSE
