SPECIFICATION FairSpec
CONSTANTS
  MaxSpawns = 2
  Calls = {a, b}
  Platforms <- Everywhere
  Faults = {"spawn", "garbled", "unwritten", "crash", "kill"}
CHECK_DEADLOCK FALSE
INVARIANTS TypeOK PromiseIsLive ServingIsRecorded
PROPERTIES OneAtATime CallAnswered StaleDropped
