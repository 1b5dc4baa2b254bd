SPECIFICATION Spec
CONSTANTS
  NumAgents = 3
  MaxAgents = 1
  CandidateCounts <- NoneOrThree
  Horizon = 1
  MaxCost = 1
  Backends <- AllBackends
  NoAnswer = NoAnswer
INVARIANTS
  DrivesClearIfPossible
  ChoiceIsBest
  NobodyDroppedUnseen
PROPERTY AnswersEveryCall
