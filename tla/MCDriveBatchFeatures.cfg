SPECIFICATION Spec
CONSTANTS
  w1 = w1
  w2 = w2
  Workers <- TwoWorkers
  NumWork = 2
  FlushEvery = 2
  Kinds <- RouteKinds
INVARIANT FeaturesDescribeOwnScenario
