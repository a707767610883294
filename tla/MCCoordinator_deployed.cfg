\* The deployed configuration: one permit, threads that fail to start; the
\* log holds every call.
CONSTANTS
  a = a
  b = b
  c = c
  d = d
  NoRequest = NoRequest
  Request <- Three
  Capacity = 1
  MaxHistory = 3
  ThreadStartMayFail = TRUE
  LogMayBeCleared = FALSE
SPECIFICATION FairSpec
INVARIANTS
  BackendExclusion
  AnsweredIsLogged
  BusyIsShown
PROPERTIES
  EveryCallEnds
  PermitComesBackOrPoisoned
  NoEntryWhilePoisoned
CHECK_DEADLOCK FALSE
