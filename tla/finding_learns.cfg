SPECIFICATION Spec
CONSTANTS
  Plan <- OneAnalyst
  DebateRounds = 1
  RiskRounds = 1
  Decisions <- Buys
  Holding = 1
  MaxLessons = 1
  NSame = 1
  NCross = 1
  Slots = {"app"}
  Kind <- AllThree
  Tickers = {"T"}
  Dates = {1, 2}
  FirstDay = 1
  MaxDay = 2
  Histories <- NoHistory
  MaxRuns = 2
  Limit = 14
  Cap = 20
  MaxTokens = 1
  SharedLog = FALSE
  Faults = {}
CHECK_DEADLOCK FALSE
PROPERTIES NextRunReflects
