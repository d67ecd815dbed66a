SPECIFICATION LiveSpec
CONSTANTS
  MaxMethods = 3
  MaxExtra = 2
INVARIANTS
  HandshakeIsExact
  RepliesInOrder
PROPERTY ClosedIsReleased
CHECK_DEADLOCK FALSE
