SPECIFICATION FairSpec
CONSTANTS
  a1 = a1
  a2 = a2
  Archivers = {a1}
  Jobs = {"archive"}
  AllowPurge = FALSE
  RunsAsRoot = FALSE
  MaxTime = 0
  MaxRows = 1
  MaxSegments = 2
  MaxFaults = 1
\* Nothing runs until an operator, cron or a caller starts it: the system may stop.
CHECK_DEADLOCK FALSE
PROPERTY AgedRowsLeave
