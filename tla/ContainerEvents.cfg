SPECIFICATION EventsFairSpec
CONSTANTS
  Strangers = {s1, s2, s3}
  Kinds <- AllKinds
  Box = Box
  None = None
  Backlog = 1
INVARIANTS NoSleeper RefusedForCause
PROPERTIES EventIsRecorded CommandEnds
CHECK_DEADLOCK FALSE
