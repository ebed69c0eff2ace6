SPECIFICATION Spec
CONSTANTS
  InPlace = TRUE
  NumSlots = 3
  Tasks <- MCTasks
PROPERTY Implements
