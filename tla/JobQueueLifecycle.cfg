SPECIFICATION FairSpec
CONSTANTS
  Jobs = {j1, j2}
  Callers = {c1}
  PoolSize = 1
  MaxFaults = 1
  NoJob = NoJob
PROPERTIES PreemptedNeverRuns ImplementsLifecycle
CHECK_DEADLOCK FALSE
