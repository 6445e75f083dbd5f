SPECIFICATION FairSpec

CONSTANTS
  a = a
  b = b
  c = c
  d = d
  w1 = w1
  w2 = w2
  cli = cli
  daemon = daemon
  Engines = {daemon}
  Workers = {w1}
  EngineOf <- AllInDaemon
  Submitted <- OnlyDiamond
  MaxFaults = 4
  MaxReloads = 0

CHECK_DEADLOCK FALSE   \* a completed run is over

INVARIANTS
  NothingLeft
PROPERTIES
  CompletedStepsAreSkipped
  ImplementsContract
  RunCompletes
