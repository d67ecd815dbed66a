SPECIFICATION FairSpec
CONSTANTS
  c1 = c1
  c2 = c2
  w1 = w1
  w2 = w2
  Commands = {c1, c2}
  Worktrees = {w1, w2}
  Images = {"base", "app", "tool"}
  Allowed = {"base", "app"}
  Trees <- MCTrees
  Edits <- MCEdits
  Starts <- MCStarts
  Target = "app"
  Absent = Absent
  BatchSize = 1
  MaxEdits = 2
INVARIANTS KeepsNeeded PureImages LateRemovals
PROPERTIES RemovesOnlyStale ComesToRest
CHECK_DEADLOCK FALSE
