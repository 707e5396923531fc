SPECIFICATION FairSpec
CONSTANTS
  Runs = {r1, r2}
  Start <- ShortDays
  TTL = 1
  Configs <- OnOrOff
  MaxTime = 3
  Requests <- PaidPro
  Overrun = 0
  UserActions = {"override"}
  Faults = {"crash", "leave", "db"}
PROPERTIES HoldReleased RunEnds
