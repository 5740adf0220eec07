SPECIFICATION Spec
CONSTANTS
  r1 = r1
  r2 = r2
  w1 = w1
  w2 = w2
  w3 = w3
  Requests <- MCRequests
  WithHandler <- MCHandled
  Watchers <- MCWatchers
  Fds = {7, 8}
SYMMETRY MCSymmetry
INVARIANTS
  TypeOK
  WatchersMatchCurl
  AnswersHandled
CHECK_DEADLOCK FALSE
