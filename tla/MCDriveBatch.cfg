SPECIFICATION Spec
CONSTANTS
  w1 = w1
  w2 = w2
  Workers <- TwoWorkers
  NumWork = 3
  FlushEvery = 2
  Kinds <- CountedKinds
INVARIANTS
  RowsAccountedFor
  SummaryAgreesWithRows
PROPERTIES
  KeepsTheLedger
  BatchEnds
