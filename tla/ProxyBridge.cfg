SPECIFICATION LiveSpec
CONSTANTS
  MaxBufferSize = 2
  MaxRead = 2
  MaxSent = 4
INVARIANTS
  NoWriteAfterShutdown
  EndComesLast
PROPERTIES
  EndIsPassedOn
  SessionIsReleased
CHECK_DEADLOCK FALSE
