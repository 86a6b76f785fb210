CONSTANTS
  Frames = 1
  Parts = 2
  MaxSpans = 2
  MaxGeneration = 2
SPECIFICATION Spec
INVARIANTS
  AudioBelongs
  RingsOutliveUsers
  ReferenceNeverRefused
  WaitsForNoDevice
CHECK_DEADLOCK FALSE
