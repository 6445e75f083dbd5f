SPECIFICATION FairSpec
CONSTANTS
  n1 = n1
  n2 = n2
  c1 = c1
  l1 = l1
  l2 = l2
  relay = relay
  echo = echo
  None = None
  Nodes = {n1, n2}
  Callers = {c1}
  HomeOf <- MCHomeOf
  Actors = {relay, echo}
  HostOf <- MCHostOf
  Calls <- MCCalls
  Links = {l1, l2}
  Ends <- MCEnds
  MaxIds = 2
  MaxFaults = 1
\* Nobody has to call, and a detached node is over.
CHECK_DEADLOCK FALSE
INVARIANTS OwnReply PendingIsAwaited OnceUnlessForgotten NestedNeverAnswered
PROPERTY RequestsEnd
