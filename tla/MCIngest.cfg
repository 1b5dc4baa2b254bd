SPECIFICATION Spec
CONSTANTS
  t1 = t1
  t2 = t2
  NumScenarios = 4
  Limits = {1, 4}
  Earlier <- SomeFiles
  Threads = {t1, t2}
  Retries = 1
  Valid = {1, 2, 4}
  ShardSize = 2
  MaxStarts = 2
INVARIANTS
  ReportIsHonest
  ManifestTrue
  DeliversWhatIsReady
PROPERTY IngestEnds
CHECK_DEADLOCK FALSE
