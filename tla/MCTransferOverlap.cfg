SPECIFICATION Spec
CONSTANTS
  Callers = {network, key}
  Overlap = TRUE
INVARIANT
  OneThread
CHECK_DEADLOCK FALSE
