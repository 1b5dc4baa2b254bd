CONSTANTS
  Baselines <- MCBaselines
  Candidates <- MCCandidates
  Columns <- MCColumns
  Direction <- MCDirection
  MetricLists <- MCMetricLists
  Jobs <- MCJobs
  Settings <- MCSettings
  Unit = 6912
  Alpha = 2000
  Bound = 8
  MaxExecutions = 2
SPECIFICATION GateSpec
INVARIANTS
  VerdictHasAWitness
  VerdictsMirror
  ThinScopesWeakenNoOne
  StoredCellsAreOfOneGate
  StatusIsOnRecord
CHECK_DEADLOCK FALSE
