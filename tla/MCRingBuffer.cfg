CONSTANTS
  Capacity = 3
  MaxChunk = 3
  MaxBytes = 8
SPECIFICATION Spec
INVARIANTS
  RingSafe
PROPERTIES
  FifoSpec
