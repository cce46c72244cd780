SPECIFICATION Spec
CONSTANTS
  Jobs = {j1, j2}
  Callers = {c1}
  PoolSize = 1
  MaxFaults = 0
  NoJob = NoJob
INVARIANT CancelWhileStartingIsHonoured
CHECK_DEADLOCK FALSE
