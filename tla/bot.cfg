SPECIFICATION FairSpec
CONSTANTS
  Chats = {a}
  Cap = 1
  MaxCost = 2
  Faults = {"crash", "disk"}
  MaxCalls = 3
  MaxPosted = 2
  MaxEvents = 4
  MaxCopies = 2
  MaxDay = 1
CHECK_DEADLOCK FALSE
INVARIANTS TypeOK TallyCovers PollersReachable RedeliveredByRestart DayWithinBudget
PROPERTIES BusyClears MessageHandled
