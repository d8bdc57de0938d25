CONSTANTS
  Users = {u1, u2, u3}
  NoUser = NoUser
  Docs = {d1, d2, d3}
  NoDoc = NoDoc
  Eligible = {u1, u2, u3}
  Convs = {}
  Requests = {r1, r2}
  Founder = u1
  FounderDoc = d1
  Ops = {"addMember", "changeRole", "changeStatus", "removeMember", "transferOwnership"}
  RoleInputs = {"admin", "agent"}
  Faults = {"abort", "promoteError", "lostReply"}
SPECIFICATION Spec
SYMMETRY Symmetry
CHECK_DEADLOCK FALSE
INVARIANTS TypeOK AtMostOneOwner OneMembershipPerUser TransferWindowExclusive
PROPERTIES SuspendedOwnerOnlyByRestore
