SPECIFICATION FairSpec
CONSTANTS
  build = build  device = device
  NumCells = 3
  Resources = {build, device}
  Needs <- ThreeCells
  Required = {1, 2}
  MaxParallel = 2
  Runs = {"passed", "failed", "inconclusive"}
INVARIANTS TypeOK ResourcesExclusive TerminalAfterCleanup ParallelBounded ReportIsEarned
PROPERTY EndsWithReport
CHECK_DEADLOCK FALSE
