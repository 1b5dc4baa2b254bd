SPECIFICATION Spec
CONSTANTS
  a1 = a1
  a2 = a2
  nobody = nobody
  Nobody = nobody
  NumSteps = 4
  Recordings <- AllRecordings
  MaxAdvance = 1
  Lookahead = 1
  Agents = {a1, a2}
  Shifts <- BothWays
INVARIANTS
  ReplayIsFaithful
  NoGhosts
  ArcLengthIsOwn
