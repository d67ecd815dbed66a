SPECIFICATION Spec
CONSTANTS
  Capacity = 3
  MaxBlocks = 4
  MaxReserve = 4
  MaxBytes = 8
  None = None
INVARIANTS
  BufferInv
  PendingPlacesStay
PROPERTY RefinesByteQueue
CHECK_DEADLOCK FALSE
