SPECIFICATION ToolsSpec
CONSTANTS
  Jobs <- MCJobs
  Pending = Pending
INVARIANTS VerdictIsExact GapsAreNamed MountsAreExact WantedIsMounted SuccessIsWhole
CHECK_DEADLOCK FALSE
