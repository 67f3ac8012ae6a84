SPECIFICATION LiveSpec
CONSTANTS
  MaxSlot = 2
  MaxFork = 1
  MaxStarts = 1
  BatchSize = 2
  Emits = {3}
  GraphOn = TRUE
INVARIANT NoOrphanedGraph
PROPERTIES HookSeesEdges ShutdownEnds AgedBufferFlushed
CHECK_DEADLOCK FALSE
