SPECIFICATION Spec
CONSTANTS
  Runs = {r1, r2}
  Start <- ShortDays
  TTL = 1
  Configs <- OneOrOther
  MaxTime = 3
  Requests <- AnyUse
  Overrun = 1
  UserActions = {"override", "config", "delete"}
  Faults = {"crash", "leave", "db"}
SYMMETRY Symmetry
INVARIANTS TypeOK HeldWhileRunning NoDoubleCount SpentRunReleases CapRespected RateRespected
PROPERTIES KeepsPromise
