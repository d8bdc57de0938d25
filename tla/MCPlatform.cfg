CONSTANTS
  Requests = {r1, r2}
  MaxTokens = 2
  MaxGuesses = 3
  MaxAttempts = 2
  MaxFailures = 2
  CodeLife = 1
  LockTime = 1
  MaxTime = 1
  AccountFaults = {"dbFails", "mailFails", "dies"}
  Orgs = {o1, o2}
  Admins = {a1, a2}
  MaxSlugAttempts = 3
  Reserved = {0}
  MaxKeys = 4
  MaxSettings = 2
  TenantFaults = {"ownerFails", "ownerLost", "writeFails", "writeLost", "undoFails", "saveFails", "crashes"}
  Tabs = {t1}
  MaxCustomers = 2
  MaxVisits = 2
  VisitFaults = {"lost", "expires", "noStorage"}
  MaxSettingsDuringVisits = 1
  AuthTabIds = {b1, b2}
  MaxSecrets = 3
  MaxAsked = 2
  TabFaults = {"lost", "expires", "replay"}
  Workspaces = {w1, w2}
  NoWorkspace = NoWorkspace
  MaxActs = 2
  PageFaults = {"fails"}
SPECIFICATION Spec
SYMMETRY Symmetry
CHECK_DEADLOCK FALSE
INVARIANTS TypesOK GuessesCounted OneCodeUnlessRaced OwnerAndTenantTogether NotExhaustedFalsely KeyStandsUntilRotated CustomersHeld ActsInChosen ShowsOwnChanges
PROPERTIES LockLiftedOnlyByOverlap SessionAsAsked
