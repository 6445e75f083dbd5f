SPECIFICATION FairSpec
CONSTANTS
  a1 = a1
  a2 = a2
  Archivers = {a1}
  Jobs = {"archive"}
  AllowPurge = FALSE
  RunsAsRoot = FALSE
  MaxTime = 1
  MaxRows = 4
  MaxSegments = 4
  MaxFaults = 0
\* Nothing runs until an operator, cron or a caller starts it: the system may stop.
CHECK_DEADLOCK FALSE
PROPERTY AgedRowsLeave
