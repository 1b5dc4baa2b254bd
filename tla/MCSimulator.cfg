SPECIFICATION Spec
CONSTANTS
  NumAgents = 2
  Scenery <- TheFirst
  MaxSteps = 4
  TopSpeed = 1
  MinAccel <- HardestBrake
  MaxAccel = 1
  MaxJerk = 1
  MaxSteer = 1
  MaxSteerRate = 1
INVARIANTS
  RowAccountsForRun
  NoCollisionMissed
  JerkWithinController
