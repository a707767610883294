\* What the publisher's docstring says of receipts, against what is published.
CONSTANTS
  LocalKey <- Local
  CloudKey <- Cloud
  StrayKey <- Stray
  Candidate <- Documents
  MaxFiles = 4
  RenameMayFail = TRUE
  Absent = Absent
  Partial = Partial
SPECIFICATION Spec
INVARIANTS
  PublishedReceiptsVerify
