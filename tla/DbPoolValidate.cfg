\* Three requests compete for a pool of one that validates on checkout.
CONSTANTS
  Requests = {r1, r2, r3}
  Conns = {k1, k2, k3}
  MinSize = 1
  MaxSize = 1
  Validate = TRUE
  NoConn = NoConn
SPECIFICATION AheadSpec
INVARIANTS TypeOK NoSharing UsableUntilClosed ActiveIsCheckedOut ExcessIsOverlap
PROPERTIES CloseReachesAll RequestsSettle
CHECK_DEADLOCK FALSE
