CONSTANTS
  t1 = t1
  t2 = t2
  t3 = t3
  p1 = p1
  p2 = p2
  NoThread = NoThread
  Pushers <- MCPushers
  Flushers <- MCFlushers
  Processes <- MCProcesses
  ProcessOf <- MCProcessOf
  MaxBodies = 2
  MaxAttempts = 2
  MaxRows = 2
  MaxItems = 1
  MaxFlushes = 4
  MaxFaults = 1
\* Every push, flush and fault is used up: nothing is left to do.
CHECK_DEADLOCK FALSE
SPECIFICATION QueueSpec
INVARIANTS NothingForgotten TwiceOnlyUnsure
