SPECIFICATION MCSpec
CONSTANTS
  Capacity = 2
  MaxHeads = 4
  OtherCalls = 1
  SubCap = 1
  StreamCap = 1
  MaxAttempts = 1
  MaxEvents = 2
  MaxTime = 2
  Tokens = {"a", "b"}
  Limit = 2
  ReplayLimit = 2
  SendBuffer = 2
  Threshold = 2
  MaxReconnects = 3
  ChannelSize = 2
  Ids = {1}
  Subs = 2
  Owners = {2}
  NoteCap = 2
  SlotCap = 1
  MaxErrors = 2
  MaxNotes = 3
  Slots = 2
  FillEvents = 2
  MaxStarts = 2
INVARIANTS KeptOnTipChain WaitersFlushed DropsAccounted ConsumerTold FanInKeeps CheckpointResumes
PROPERTIES NoAncestorReverted GivesUp QueueDrains ReconnectsSettle ChannelsDrain
CHECK_DEADLOCK FALSE
