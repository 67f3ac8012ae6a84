SPECIFICATION MCSpec
CONSTANTS
  Samples <- NoisySamples
  Unit = 4
  MaxEvents = 2
  MaxAge = 1
  Hazard = 3
  MaxSlots = 4
  MinHistory = 2
  Good = 3
  Fair = 2
  Bad = 1
  MaxScores = 8
  Tokens = {"a"}
  Workers = {}
  MaxHeight = 1
  MaxI64 = 7
  MaxFork = 0
  MaxErrors = 0
  Wallets = 1
  Configs <- DefaultConfigs
  TradeKinds <- MCTradeKinds
  MaxTrades = 0
  LabelKinds <- MCLabelKinds
  MaxSwaps = 0
  MaxTime = 0
  Lookback = 2
  MaxRows = 2
  MinTrips = 1
  StrongPnl = 2
  Holding = {1}
  Ttl = 2
INVARIANT NoiseDoesNotEscalate
CHECK_DEADLOCK FALSE
