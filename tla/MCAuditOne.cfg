SPECIFICATION Spec
CONSTANTS
  a1 = a1
  a2 = a2
  Archivers = {a1}
  Jobs = {"archive", "purge", "seal"}
  AllowPurge = TRUE
  RunsAsRoot = FALSE
  MaxTime = 1
  MaxRows = 3
  MaxSegments = 2
  MaxFaults = 2
\* Nothing runs until an operator, cron or a caller starts it: the system may stop.
CHECK_DEADLOCK FALSE
INVARIANTS HotChain NoEvidenceLost SegmentsIntact
PROPERTIES FreshRowsStay ImplementsEvidenceTrail
