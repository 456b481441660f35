CONSTANTS
  MaxCommits = 2
  MaxEdits = 1
  MaxImportKills = 1
SPECIFICATION ImportSpec
INVARIANT FailedLeavesNothing
CHECK_DEADLOCK FALSE
