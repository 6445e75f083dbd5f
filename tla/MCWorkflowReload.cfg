SPECIFICATION Spec

CONSTANTS
  a = a
  b = b
  c = c
  d = d
  w1 = w1
  w2 = w2
  cli = cli
  daemon = daemon
  Engines = {daemon}
  Workers = {w1}
  EngineOf <- AllInDaemon
  Submitted <- PairOrEdited
  MaxFaults = 1
  MaxReloads = 1

CHECK_DEADLOCK FALSE   \* a completed run is over

INVARIANTS
  NothingLeft
