SPECIFICATION Spec
CONSTANTS
  MaxSlot = 2
  MaxFork = 0
  MaxStarts = 1
  BatchSize = 2
  Emits = {1}
  GraphOn = FALSE
PROPERTY FinalCheckpointAtLastSlot
CHECK_DEADLOCK FALSE
