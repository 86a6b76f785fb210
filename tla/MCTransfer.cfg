SPECIFICATION FairSpec
CONSTANTS
  Callers = {network, key}
  Overlap = FALSE
INVARIANTS
  OneThread
  RunsApart
  FlagMatchesThread
PROPERTIES
  CallReturns
CHECK_DEADLOCK FALSE
