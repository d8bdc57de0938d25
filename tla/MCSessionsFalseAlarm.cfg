CONSTANTS
  u1 = u1
  Users = {u1}
  Browsers = {b1}
  UserOf <- TheirUser
  Sids = {s1}
  Requests = {r1, r2}
  NoCookie = NoCookie
  NoBrowser = NoBrowser
  NoUser = NoUser
  HistoryBound = 2
  Grace = 1
  Ttl = 2
  MaxRotations = 3
  MaxTime = 0
  Faults = {}
SPECIFICATION Spec
CHECK_DEADLOCK FALSE
INVARIANTS FirstPartyNeverAlarms
