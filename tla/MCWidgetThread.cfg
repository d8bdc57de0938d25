CONSTANTS
  Customers = {v}
  NoCustomer = NoCustomer
  Visitor = v
  StaffSlots = {a1}
  SendSlots = {k1, k2}
  BootSlot = boot
  Calls <- AllCalls
  Bodies <- AllBodies
  Walkers = {w1}
  Texts = {t1, t2}
  NoText = NoText
  PageSize = 1
  MaxPages = 2
  MaxDrops = 1
  MaxConvs = 2
  MaxMessages = 2
  MaxChanges = 1
  Faults = {"insertFails", "insertLost"}
  NetFaults = {"restFails", "timeout", "refused", "restart"}
SPECIFICATION WidgetSpec
ACTION_CONSTRAINT OneTrouble
SYMMETRY Symmetry
CHECK_DEADLOCK FALSE
INVARIANTS WidgetTypeOK ClosedHoldsOnlyAdmitted ResolveFailsOnlyByClosing NothingMissing TextKept StoredTwiceOnlyUnanswered
PROPERTIES ImplementsFeed
