SPECIFICATION FairSpec
CONSTANTS
  Mints = 2
  MaxTime = 2
  MaxEvents = 2
  Backlog = 1
  QueueCap = 1
  Workers = {"w1", "w2"}
  MaxTokens = 1
  MaxScore = 1
  Delta = 1
INVARIANTS NotForgotten ReportsBacked
PROPERTIES LatestNeverGoesBack Evaluated ShutsDown
CHECK_DEADLOCK FALSE
