SPECIFICATION ToolsSpec
CONSTANTS
  Jobs <- SmallCoverage
  Pending = Pending
INVARIANT NothingNamedIsCovered
CHECK_DEADLOCK FALSE
