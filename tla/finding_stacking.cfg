SPECIFICATION Spec
CONSTANTS
  MaxCalls = 2
  Chats = {a}
  Cap = 2
  MaxCost = 1
  Faults = {}
  MaxPosted = 2
  MaxEvents = 4
  MaxCopies = 2
  MaxDay = 0
CHECK_DEADLOCK FALSE
INVARIANTS NoStacking
