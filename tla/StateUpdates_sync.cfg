SPECIFICATION FairSpec
CONSTANTS
  arm = arm
  gripper = gripper
  Joints <- MCJoints
  Messages <- MCMessages
  MaxStamp = 2
  MaxMessages = 2
  MaxRequests = 1
  MaxCommands = 2
INVARIANTS
  NoReadingIsForgotten
  SceneCoversItsTime
PROPERTIES
  SyncIsFreshOrInFlight
  SceneCatchesUp
CHECK_DEADLOCK FALSE
