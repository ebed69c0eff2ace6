SPECIFICATION Spec
CONSTANTS
  InPlace = FALSE
  NumSlots = 3
  Tasks <- MCTasks
INVARIANT
  OneSlotEach
PROPERTY Implements
