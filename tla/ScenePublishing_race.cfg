SPECIFICATION FairSpec
CONSTANTS
  cup = cup
  c1 = c1
  c2 = c2
  NoScene = NoScene
  Objects <- MCObjects
  Callers <- MCCallers
  PublishChoices <- MCPublishChoices
  RobotStates <- MCRobotStates
  MaxEdits = 2
  MaxStarts = 2
INVARIANTS
  MaintainedIsExpected
  SubscriberFollows
PROPERTIES
  AnnouncedIsTakenUp
  StopReturns
CHECK_DEADLOCK FALSE
