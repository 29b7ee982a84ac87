\* Three calls of any kind on one statement.
CONSTANTS
  Calls = {c1, c2, c3}
  None = None
SPECIFICATION Spec
INVARIANTS HandlesAccounted ResultsUsableUnlessStale
CHECK_DEADLOCK FALSE
SYMMETRY CallSymmetry
