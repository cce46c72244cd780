SPECIFICATION Spec
CONSTANTS
  Tasks = {s1}
  Timers = {}
  Ticks = {t1}
  Requests = {r1}
  Periods <- EveryUnit
  Interval = 1
  MaxTime = 4
  MaxRunNow = 1
  MaxPatches = 0
  MaxFaults = 0
INVARIANT SingleFlight
CHECK_DEADLOCK FALSE
