CONSTANTS
  Users = {u1, u2}
  NoUser = NoUser
  Docs = {d1, d2}
  NoDoc = NoDoc
  Eligible = {u1, u2}
  Convs = {c1}
  Requests = {r1, r2}
  Founder = u1
  FounderDoc = d1
  Ops = {"addMember", "changeRole", "changeStatus", "removeMember", "transferOwnership", "claim", "release"}
  RoleInputs = {"admin", "agent"}
  Faults = {"promoteError"}
SPECIFICATION FairSpec
CHECK_DEADLOCK FALSE
PROPERTIES NoAssignmentTheft OwnershipLostOnlyBy WindowCloses RevocationReleases
