SPECIFICATION FairSpec
CONSTANTS
  Tasks = {s1}
  Timers = {system}
  Ticks = {t1}
  Requests = {r1}
  Periods <- UnitOrTwo
  Interval = 1
  MaxTime = 3
  MaxRunNow = 1
  MaxPatches = 1
  MaxFaults = 1
INVARIANTS TypeOK OwnJobsWithinTicks NeverPutOff NextIsFirst NeverMeansNever
PROPERTIES OutcomesInOrder DueIsServed OutcomesRecorded
CHECK_DEADLOCK FALSE
