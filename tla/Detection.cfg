SPECIFICATION MCSpec
CONSTANTS
  Samples <- MCSamples
  Unit = 4
  MaxEvents = 3
  MaxAge = 2
  Hazard = 3
  MaxSlots = 4
  MinHistory = 2
  Good = 3
  Fair = 2
  Bad = 1
  MaxScores = 8
  Tokens = {"a", "b"}
  Workers = {"w1"}
  MaxHeight = 2
  MaxFork = 1
  MaxI64 = 7
  MaxErrors = 1
  Wallets = 4
  Configs <- MCConfigs
  TradeKinds <- MCTradeKinds
  MaxTrades = 4
  LabelKinds <- MCLabelKinds
  MaxSwaps = 3
  MaxTime = 4
  Lookback = 3
  MaxRows = 3
  MinTrips = 1
  StrongPnl = 2
  Holding = {1}
  Ttl = 2
INVARIANTS OrderIndependent AnswerIsHazard HookStateCanonical  CyclesExact RoundTripsExact EarnedIsLabelled
PROPERTIES EvidenceNeverLowers FadesToState
\* The history of launches and events is bounded: no step is left then.
CHECK_DEADLOCK FALSE
