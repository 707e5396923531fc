SPECIFICATION Spec
CONSTANTS
  Requests <- AllFrames
  Hooks <- SomeHooks
  Phases <- FiveAgents
  MaxAttempts = 3
  Faults = {"leave", "crash", "open", "disk"}
  Today = 2
  Lookback = 1
  StaleDays = 1
CHECK_DEADLOCK FALSE
INVARIANTS TypeOK 
PROPERTIES KeepsProtocol
