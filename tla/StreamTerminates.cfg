\* Every task may have ended: no step is left then.
CHECK_DEADLOCK FALSE
SPECIFICATION FairSpec
CONSTANTS
  Capacity = 1
  MaxHeads = 1
  OtherCalls = 0
  SubCap = 1
  StreamCap = 1
  MaxAttempts = 1
PROPERTY StreamTerminates
