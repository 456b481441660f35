CONSTANTS
  Passes = {"poller"}
  IncludeEnc = TRUE
  Local = Local
  Reset = Reset
  MaxGens = 2
  MaxCrashes = 0
  MaxEdits = 0
SPECIFICATION Spec
INVARIANT FailedSyncRollsBack
