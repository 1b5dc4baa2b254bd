SPECIFICATION Spec
CONSTANTS
  r1 = r1
  r2 = r2
  s1 = s1
  s2 = s2
  RunOrder <- TwoRuns
  WithFeatures = {r1}
  Scenarios = {s1, s2}
  Routed = {s1}
  MaxInvocations = 2
INVARIANT AllRunsComplete
