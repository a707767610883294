\* The docstring of _lifecycle_is_stale, with rejected inputs.
CONSTANTS
  u = u
  v = v
  w = w
  NoRun = NoRun
  Run <- Two
  MaxAge = 3
  ValidationMayFail = TRUE
  UserMayInterrupt = FALSE
SPECIFICATION Spec
SYMMETRY Interchangeable
INVARIANTS
  NeverMisclassified
