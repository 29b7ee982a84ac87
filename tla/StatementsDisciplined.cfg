\* Clients that close a statement only when it is at rest.
CONSTANTS
  Stmts = {s1, s2, s3, s4}
  Uncached = {s4}
  Sqls = {q1, q2}
  Clashing = {}
  Capacity = 1
  RpbIds = 4
  CloseEarly = FALSE
  LeaveOpen = FALSE
  Timeouts = FALSE
  ConnEnds = FALSE
  Conn = Conn
  None = None
SPECIFICATION Spec
INVARIANTS TypeOK OpenStatementsKeepTheirRpb CachedHandlesAreReady HandleRunsOwnSql NoRpbLeaks BooksMatchHost
SYMMETRY Symmetry
CHECK_DEADLOCK FALSE
