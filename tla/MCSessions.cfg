CONSTANTS
  u1 = u1
  Users = {u1}
  Browsers = {b1}
  UserOf <- TheirUser
  Sids = {s1, s2}
  Requests = {r1, r2}
  NoCookie = NoCookie
  NoBrowser = NoBrowser
  NoUser = NoUser
  HistoryBound = 2
  Grace = 0
  Ttl = 2
  MaxRotations = 3
  MaxTime = 2
  Faults = {"vanish", "revokeError", "crash", "disable"}
SPECIFICATION Spec
ACTION_CONSTRAINT OneEnd
SYMMETRY Symmetry
CHECK_DEADLOCK FALSE
INVARIANTS TypeOK RotationNeverOrphans EndedSessionRotatesOnce
PROPERTIES RefusalSparesLiveCookie
