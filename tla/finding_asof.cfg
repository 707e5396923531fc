SPECIFICATION Spec
CONSTANTS
  Requests <- AlpacaFrame
  Hooks <- Nobody
  Phases <- FiveAgents
  MaxAttempts = 3
  Faults = {"leave", "crash", "open", "disk"}
  Today = 2
  Lookback = 1
  StaleDays = 1
CHECK_DEADLOCK FALSE
INVARIANTS QuoteAsOf
