CONSTANTS
  Customers = {v}
  NoCustomer = NoCustomer
  StaffSlots = {a1}
  ReplySlot = reply
  ActionSlot = action
  Calls <- AllCalls
  Bodies = {"reply"}
  Started = 2
  RowLimit = 1
  PageSize = 1
  MaxThreadPages = 1
  MaxDrops = 1
  MaxSelections = 3
  MaxConvs = 3
  MaxMessages = 4
  MaxWrites = 2
  MaxChanges = 2
  Faults = {"touchFails", "insertLost", "statusLost"}
  NetFaults = {"restFails"}
SPECIFICATION InboxSpec
ACTION_CONSTRAINT OneTrouble
CHECK_DEADLOCK FALSE
INVARIANTS InboxTypeOK LastMessageAtBehindOnly ThreadComplete RowsCurrent ListComplete
PROPERTIES ImplementsFeed
