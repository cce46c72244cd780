SPECIFICATION Spec
CONSTANTS
  Jobs = {j1, j2}
  Callers = {c1}
  PoolSize = 1
  MaxFaults = 0
  NoJob = NoJob
PROPERTY RefusedOnlyWhenOver
CHECK_DEADLOCK FALSE
