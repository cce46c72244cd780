SPECIFICATION Spec
CONSTANTS
  Jobs = {j1, j2, j3}
  Callers = {c1}
  PoolSize = 2
  MaxFaults = 2
  NoJob = NoJob
SYMMETRY Symmetry
INVARIANTS
  TypeOK
  PoolBound
  UnfinishedCounts
  NoLostWakeup
  OneHome
  WithdrawnNeverRuns
  NoOrphan
  RowTellsTheEnd
CHECK_DEADLOCK FALSE
