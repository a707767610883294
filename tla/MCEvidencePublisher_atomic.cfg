\* What the publisher's docstring says of the manifest, on Windows.
CONSTANTS
  LocalKey <- Local
  CloudKey <- Cloud
  StrayKey <- Stray
  Candidate <- Documents
  MaxFiles = 4
  RenameMayFail = TRUE
  Absent = Absent
  Partial = Partial
SPECIFICATION Spec
INVARIANTS
  ManifestIsWhole
