\* Two callers and two changes; the host may commit by itself or not.
SPECIFICATION Spec
CONSTANTS
  Callers = {c1, c2}
  Names = {sp}
  Changes = {x1, x2}
INVARIANT ModeHonoured
CHECK_DEADLOCK FALSE
