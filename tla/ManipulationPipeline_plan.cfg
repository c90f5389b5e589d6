SPECIFICATION FairSpec
CONSTANTS
  w1 = w1
  w2 = w2
  w3 = w3
  g1 = g1
  g2 = g2
  Workers = {w1, w2, w3}
  Plans = {g1, g2}
  LastStage = 2
INVARIANTS
  PlanIsInOnePlace
  FailureMeansAllTried
PROPERTIES
  WaitEnds
  StopReturns
CHECK_DEADLOCK FALSE
