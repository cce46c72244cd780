SPECIFICATION Spec
CONSTANTS
  MaxRequests = 3
  Actions = 2
  Selections = {{1, 2}, {2}}
  Gated = {{2}, {1, 2}}
  Keys = {k1, k2}
  PoolSize = 2
  MaxRestarts = 1
SYMMETRY KeySymmetry
INVARIANTS TypeOK OneApplyPerKey AppliedMeansDone OnlyWhatWasAsked SucceededIsRecorded LatestWins
CHECK_DEADLOCK FALSE
