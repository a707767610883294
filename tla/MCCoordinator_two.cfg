\* Two permits, a log that evicts and is cleared, threads that fail to start.
CONSTANTS
  a = a
  b = b
  c = c
  d = d
  NoRequest = NoRequest
  Request <- Four
  Capacity = 2
  MaxHistory = 2
  ThreadStartMayFail = TRUE
  LogMayBeCleared = TRUE
SPECIFICATION Spec
SYMMETRY Interchangeable
INVARIANTS
  TypeOK
  PermitAccounting
  PoisonedIffUnresponsive
  ActiveOwnsPermit
  QueueDepthExact
  LogIsTruthful
PROPERTIES
  ImplementsGate
CHECK_DEADLOCK FALSE
