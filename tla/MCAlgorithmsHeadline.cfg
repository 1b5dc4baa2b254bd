CONSTANTS
  NBins = 3
  IntSupportMax = 2
  MinCategoryCount = 1
  MaxCategories = 2
  Unit = 20
  Alpha = 6
  PValues <- MCPValues
  Clusterings <- MCClusterings
  Bags <- MCBags
  NumericColumns <- MCNumericColumns
  AgentRows <- MCAgentRows
  ManeuverRows <- MCManeuverRows
  Means <- MCMeans
  ComfortRows <- MCComfortRows
  LatencyRows <- MCLatencyRows
  Assigned <- MCAssigned
  Stored <- MCStored
  Incoming <- MCIncoming
SPECIFICATION CallSpec
INVARIANT
  StatedIntervalExcludesOne
CHECK_DEADLOCK FALSE
