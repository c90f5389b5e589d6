SPECIFICATION Spec
CONSTANTS
  box = box
  cup = cup
  Objects <- MCObjects
  MaxEdits = 5
INVARIANTS
  ChangesAreRecorded
  ReplicaFollows
PROPERTIES
  PublishingKeepsScene
