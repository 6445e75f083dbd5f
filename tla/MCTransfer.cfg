CONSTANTS
  t1 = t1
  e1 = e1
  e2 = e2
  None = None
  Transfers <- MCTransfers
  Executors <- MCExecutors
  MaxSegment = 2
  MaxRuns = 3
SPECIFICATION Spec
SYMMETRY MCSymmetry
INVARIANTS ShippedIsWhole ExecutedIsComplete
\* Every segment is sealed and every run is used up: nothing is left to do.
CHECK_DEADLOCK FALSE
