\* Three calls on two AS400 objects, which share one host queue.
SPECIFICATION FairSpec
CONSTANTS
  Calls = {1, 2, 3}
  SystemOf <- MCSystemOf
  Requests <- MCRequests
  Ready = 1
  Keys = {1, 2}
  MaxConns = 2
INVARIANTS TypeOK EntriesAccounted WritesKeepOrder
PROPERTY StuckBehindRead
CHECK_DEADLOCK FALSE
