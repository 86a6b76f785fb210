CONSTANTS
  Pool = 3
  Frames = {f1, f2, f3, f4, f5}
  Users <- Threads
  Steals = TRUE
  CloseMayFail = TRUE
SPECIFICATION FairSpec
INVARIANTS
  PoolKept
  TaskEndsFirst
PROPERTIES
  VideoFlows
