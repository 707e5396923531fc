SPECIFICATION Spec
CONSTANTS
  Plan <- OneAnalyst
  DebateRounds = 1
  RiskRounds = 1
  Decisions <- Buys
  Holding = 1
  MaxLessons = 1
  NSame = 1
  NCross = 1
  Slots = {"cli"}
  Kind <- AllThree
  Tickers = {"T"}
  Dates = {1}
  FirstDay = 1
  MaxDay = 2
  Histories <- NoHistory
  MaxRuns = 2
  Limit = 14
  Cap = 2
  MaxTokens = 1
  SharedLog = FALSE
  Faults = {"node"}
CHECK_DEADLOCK FALSE
PROPERTIES RunResumes
