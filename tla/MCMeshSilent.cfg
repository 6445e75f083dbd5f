SPECIFICATION Spec

CONSTANTS
  n1 = n1
  n2 = n2
  p1 = p1
  p2 = p2
  i1 = i1
  i2 = i2
  i3 = i3
  Nodes = {n1, n2}
  Publishers = {p1, p2}
  Ingesters = {i1, i2, i3}
  NodeOf <- TwoOnFirst
  Limit = 1
  SeenLimit = 2
  MaxEvents = 2
  MaxFaults = 0

CHECK_DEADLOCK FALSE   \* everything published and acked: nothing left to do

INVARIANT PublishedIsForwarded
