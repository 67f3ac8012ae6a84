SPECIFICATION MCSpec
CONSTANTS
  MaxEvents = 5
  MaxTime = 2
  Tokens = {"a"}
  Limit = 2
  Interval = 3
  Timeout = 6
  MaxDue = 3
  Watched = {"a", "b"}
  Cap = 1
  MaxVerdicts = 3
  MaxFilters = 1
  Clients = {"c1", "c2"}
  Asked = {"a", "b"}
  MaxAttempts = 2
  NumAdapters = 2
  ChannelCap = 1
  MaxYields = 3
INVARIANTS WalkExact AnsweringClientKept VerdictsAccounted InFlightExact DrainHonest
PROPERTIES CallsEnd AdaptersJoin
CHECK_DEADLOCK FALSE
