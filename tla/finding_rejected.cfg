SPECIFICATION Spec
CONSTANTS
  Runs = {r1, r2}
  Start <- ShortDays
  TTL = 2
  Configs <- DailyCap
  MaxTime = 5
  Requests <- PaidPro
  Overrun = 0
  UserActions = {}
  Faults = {}
PROPERTIES RejectedHoldsNothing
