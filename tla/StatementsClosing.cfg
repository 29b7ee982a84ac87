\* Query timeouts, and the end of the connection while statements are executed,
\* closed and prepared again.
CONSTANTS
  Stmts = {s1, s2}
  Uncached = {}
  Sqls = {q1, q2}
  Clashing = {}
  Capacity = 1
  RpbIds = 2
  CloseEarly = FALSE
  LeaveOpen = FALSE
  Timeouts = TRUE
  ConnEnds = TRUE
  Conn = Conn
  None = None
SPECIFICATION FairSpec
PROPERTIES CloseCompletes ImplementsLease
CHECK_DEADLOCK FALSE
