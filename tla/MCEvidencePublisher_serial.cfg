\* One publication after another, with crashes and failing writes in between.
CONSTANTS
  LocalKey <- Local
  CloudKey <- Cloud
  StrayKey <- Stray
  Candidate <- Documents
  MaxFiles = 6
  RenameMayFail = TRUE
  Absent = Absent
  Partial = Partial
VIEW Relevant
SPECIFICATION Spec
INVARIANTS
  VerifierAgrees
  ReceiptsFollowTheirEvidence
  SanitisedAndStillBound
PROPERTIES
  NothingIsForgotten
