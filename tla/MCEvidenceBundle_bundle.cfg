SPECIFICATION Spec
CONSTANTS
  None = None
  Folds = 10
  MaxCommits = 3
  RevisionOf <- MCRevisionOf
  EmitsOsName <- MCEmitsOsName
  MaxRuns = 5
  MaxMishaps = 2
INVARIANTS
  MeasuredAtItsCommit
  TokenRunsAreIndependent
  OnlyCompletedRuns
  DownloadColdIsGenuine
CHECK_DEADLOCK FALSE
