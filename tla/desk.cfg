SPECIFICATION FairSpec
CONSTANTS
  Names <- Secrets
  Absent = Absent
  Key = Key
  Logins = {l1}
  Overlap = FALSE
  Life = 2
  Vaults <- CorruptNewerKeyed
  Lead = 1
  MaxTime = 1
  MaxMinted = 2
  Keyrings = {TRUE, FALSE}
  Faults = {"answer"}
  Visits = {1, 2}
  Queue = 2
  Manual = Absent
CHECK_DEADLOCK FALSE
INVARIANTS TypeOK TokenPresentedOnce LoginNotWedged StopLeavesOne
PROPERTIES BatchEnds
