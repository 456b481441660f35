CONSTANTS
  Threads = {t1, t2}
  Interval = 0
  WaitTimeout = 2
SPECIFICATION Spec
PROPERTY WaiterSeesItsChange
