SPECIFICATION FairSpec
CONSTANTS
  Tasks = {s1}
  Timers = {system}
  Ticks = {t1}
  Requests = {r1}
  Periods <- EveryUnit
  Interval = 1
  MaxTime = 4
  MaxRunNow = 0
  MaxPatches = 0
  MaxFaults = 0
PROPERTY TimersRun
CHECK_DEADLOCK FALSE
