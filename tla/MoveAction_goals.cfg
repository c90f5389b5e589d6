SPECIFICATION FairSpec
CONSTANTS
  MaxParts = 2
  MaxAttempts = 2
  MaxChanges = 1
  Monitored = TRUE
  Failures = {"plan", "push", "start", "part", "effect"}
  Foreigners = {"stop", "clear"}
  MaxGoals = 2
  MaxCancels = 1
INVARIANTS
  NothingRunsUnwatched
  ObstacleIsNoticed
  SuccessIsWhole
  OwnPreemptionOnly
PROPERTIES
  RequestIsFinal
  GoalIsAnswered
  CanceledGoalIsAnswered
CHECK_DEADLOCK FALSE
