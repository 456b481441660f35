CONSTANTS
  MaxChanges = 2
  MaxCommandKills = 1
  MaxReboots = 1
SPECIFICATION NetworkFairSpec
CHECK_DEADLOCK FALSE
PROPERTY OwnWatchdog
