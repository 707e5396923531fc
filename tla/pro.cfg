SPECIFICATION FairSpec
CONSTANTS
  Plan <- TwoAnalysts
  DebateRounds = 1
  RiskRounds = 1
  Decisions <- Buys
  Holding = 1
  MaxLessons = 1
  NSame = 1
  NCross = 1
  Slots = {"lib", "app", "cli"}
  Kind <- AllThree
  Tickers = {"T"}
  Dates = {1}
  FirstDay = 1
  MaxDay = 2
  Histories <- OnDayOne
  MaxRuns = 2
  Limit = 14
  Cap = 2
  MaxTokens = 1
  SharedLog = FALSE
  Faults = {"node", "crash", "leave"}
CHECK_DEADLOCK FALSE
INVARIANTS TypeOK DebateShape CapBackstop OnePending NoLookAhead
PROPERTIES RunFinishes WireOrder ViewForward PendingKept CheckpointKept
