SPECIFICATION FairSpec
CONSTANTS
  MaxRequests = 2
  Targets = 2
  PoolSize = 2
  MaxRuns = 5
  MaxChains = 2
  MaxFaults = 1
INVARIANTS TypeOK ParentAgrees NoRunForgotten 
PROPERTIES  AnsweredRunsEnd
CHECK_DEADLOCK FALSE
