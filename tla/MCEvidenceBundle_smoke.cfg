SPECIFICATION Spec
CONSTANTS
  None = None
  Folds = 10
  MaxCommits = 1
  RevisionOf <- MCRevisionOf
  EmitsOsName <- EveryCommitEmits
  MaxRuns = 5
  MaxMishaps = 0
INVARIANTS
  SuccessIsValid
CHECK_DEADLOCK FALSE
