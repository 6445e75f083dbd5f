SPECIFICATION Spec
CONSTANTS
  a1 = a1
  a2 = a2
  Archivers = {a1, a2}
  Jobs = {"archive"}
  AllowPurge = FALSE
  RunsAsRoot = FALSE
  MaxTime = 1
  MaxRows = 2
  MaxSegments = 1
  MaxFaults = 0
\* Nothing runs until an operator, cron or a caller starts it: the system may stop.
CHECK_DEADLOCK FALSE
SYMMETRY Interchangeable
INVARIANT NoEvidenceLost
