SPECIFICATION Spec
CONSTANTS
  box = box
  cup = cup
  Objects <- MCObjects
  MaxEdits = 5
PROPERTIES
  AttachedKeepsColor
