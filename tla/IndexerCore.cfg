SPECIFICATION Spec
CONSTANTS
  MaxSlot = 2
  MaxFork = 1
  MaxStarts = 2
  BatchSize = 2
  Emits = {1, 2}
  GraphOn = FALSE
INVARIANTS CheckpointCovered NoOrphanedRows NothingDropped
PROPERTY ImplementsStore
CHECK_DEADLOCK FALSE
