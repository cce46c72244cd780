SPECIFICATION Spec
CONSTANTS
  Tasks = {s1}
  Timers = {}
  Ticks = {t1}
  Requests = {r1}
  Periods <- EveryThree
  Interval = 1
  MaxTime = 8
  MaxRunNow = 0
  MaxPatches = 0
  MaxFaults = 0
INVARIANT OncePerSlot
CHECK_DEADLOCK FALSE
