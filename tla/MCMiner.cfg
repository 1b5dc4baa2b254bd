CONSTANTS
  NBins = 3
  IntSupportMax = 3
  MinCategoryCount = 2
  MaxCategories = 2
  Features <- MCFeatures
  Metrics <- MCMetrics
  Excluded = {"id"}
  BeamWidths = {1, 20}
  Qualities = {"wracc", "lift"}
  MaxDepth = 3
  MinCoverage = 1
  Unit = 60
  Alpha = 30
  Threshold = 70
  MaxPruneCandidates = 8
  MaxClasses = 1
  TopK = 1
  MaxExecutions = 2
SPECIFICATION MineSpec
INVARIANTS
  SearchLosesNoHypothesis
  EveryDropIsRepresented
  SurvivorsAreTheFamilys
  ClassesHaveTheirJob
CHECK_DEADLOCK FALSE
