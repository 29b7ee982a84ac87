\* One locked call and two raw ones, with the history of overlaps.
CONSTANTS
  LockedCalls = {c1}
  RawCalls = {c2, c3}
SPECIFICATION OverlapSpec
INVARIANTS DesyncNeedsOverlap
CHECK_DEADLOCK FALSE
