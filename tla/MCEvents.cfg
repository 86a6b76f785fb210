SPECIFICATION EventSpec
CONSTANT
  QueueLimit = 1
INVARIANTS
  SleepIsTimed
  StandbyAgrees
  SettledIsCurrent
