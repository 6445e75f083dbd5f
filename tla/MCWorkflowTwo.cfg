SPECIFICATION Spec

CONSTANTS
  a = a
  b = b
  c = c
  d = d
  w1 = w1
  w2 = w2
  cli = cli
  daemon = daemon
  Engines = {daemon, cli}
  Workers = {w1, w2}
  EngineOf <- OneEach
  Submitted <- DiamondOrEdited
  MaxFaults = 2
  MaxReloads = 1

CHECK_DEADLOCK FALSE   \* a completed run is over

INVARIANTS
  CheckpointTruthful
  NeverDeadlocks
PROPERTIES
  DependenciesFirst
