\* Two callers on a command, a file and a record-level service.
SPECIFICATION FairSpec
CONSTANTS
  Callers = {p1, p2}
  Cached = {command}
  Plain = {}
  Files = {file}
  Records = {record}
  MaxConns = 2
INVARIANTS TypeOK TrackedUnlessOverlapped NoEarlyRequest StaleOnlyWhenCrossed
PROPERTY CallsSettle
