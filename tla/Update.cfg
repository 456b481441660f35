CONSTANTS
  MaxVersion = 2
  MaxJobs = 2
  MaxKills = 1
  MaxShell = 1
  MaxChanges = 2
  MaxCommandKills = 1
  MaxReboots = 1
  Timers = {"filter", "backup"}
  Savers = {s1, s2}
  MaxSaves = 2
  MaxRuns = 1
  MaxScheduleKills = 1
SPECIFICATION MCSpec
CHECK_DEADLOCK FALSE
INVARIANT SafeToRetryIsSafe
INVARIANT ConfirmedOrGuarded
 
PROPERTY GateReopens
PROPERTY PendingEnds
