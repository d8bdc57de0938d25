CONSTANTS
  Users = {u1, u2}
  NoUser = NoUser
  Docs = {d1, d2, d3}
  NoDoc = NoDoc
  Eligible = {u1, u2}
  Convs = {}
  Requests = {r1, r2}
  Founder = u1
  FounderDoc = d1
  Ops = {"addMember", "changeStatus", "removeMember"}
  RoleInputs = {"agent"}
  Faults = {}
  Sockets = {s1, s2}
  Listeners = {u2}
  GatewayFaults = {}
SPECIFICATION GatewaySpec
SYMMETRY Symmetry
CHECK_DEADLOCK FALSE
INVARIANTS OnlyMembersListen
