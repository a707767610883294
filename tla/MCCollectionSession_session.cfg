\* Two browsers, their requests overlapping, a second collection begun at any
\* time; or one browser over a reboot between the two token paths with a bundle
\* carried over, or with enough requests for the third warm run.
CONSTANTS
  p = p
  q = q
  Nobody = Nobody
  None = None
  Browser <- Both
  MaxRequests = 4
  MaxBegins = 1
  MaxReboots = 1
  MaxRecords = 3
SPECIFICATION Spec
SYMMETRY Interchangeable
CONSTRAINT Scope
INVARIANTS
  SessionIsCoherent
  RecoveryIsGenuine
  ConcurrencyIsOfTwoSessions
  InvalidOnlyIfExplained
  RepeatedMeansThree
