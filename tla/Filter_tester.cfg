CONSTANTS
  Threads = {t1, t2, t3}
  Interval = 2
  WaitTimeout = 1
  Names = {"p", "c", "g"}
  Above <- MCAbove
  RegexMatches = {"c", "g"}
  Sources = {s1, s2}
  Editions <- MCEditions
  MaxRules = 2
  QueueSize = 2
  MaxEvents = 4
  WriterMaxConsecutiveFailures = 2
  MaxClears = 1
  MaxCollectorStarts = 2
  MaxCount = 3
  MaxCounterClears = 1
SPECIFICATION MCSpec
INVARIANT TesterAgrees
