SPECIFICATION FairSpec
CONSTANTS
  tick = tick
  cron = cron
  None = None
  Jobs = {tick, cron}
  KindOf <- MCKindOf
  Interval = 2
  Minute = 2
  Matching <- MCMatching
  Horizon = 3
  Loops = 2
  MaxTime = 4
\* The clock is bounded, and a scheduler without jobs or a loop is idle.
CHECK_DEADLOCK FALSE
INVARIANT CancelledFadesOut
PROPERTIES SpacedRuns DueRuns
