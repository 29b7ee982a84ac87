\* A query timeout leaves a cursor open, and the handle is cached with it.
CONSTANTS
  Stmts = {s1, s2}
  Uncached = {}
  Sqls = {q1, q2}
  Clashing = {}
  Capacity = 1
  RpbIds = 2
  CloseEarly = FALSE
  LeaveOpen = FALSE
  Timeouts = TRUE
  ConnEnds = FALSE
  Conn = Conn
  None = None
SPECIFICATION Spec
INVARIANTS CachedHandlesAreReady
CHECK_DEADLOCK FALSE
