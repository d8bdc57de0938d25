-------------------------------- MODULE Team --------------------------------
(***************************************************************************)
(* Team administration and conversation assignment in one organization:    *)
(* members are added, given roles, suspended, reactivated and removed      *)
(* (members/member.service.ts), ownership is handed over                   *)
(* (organizations/ownershipTransfer.service.ts), and agents claim and      *)
(* release conversations (conversations/conversation.service.ts).          *)
(*                                                                         *)
(* Each HTTP request is a process.  Its handler awaits the database        *)
(* several times, and between two awaits any other request may run; there  *)
(* is no transaction and no lock.  One action is therefore one database    *)
(* operation together with the synchronous code up to the next await.      *)
(*                                                                         *)
(*   idle -> admitted -> checked -> (the write)                            *)
(*                                    transfer:  promote -> compensate     *)
(*                                    revoking:  announce -> find -> sweep *)
(*                                                                         *)
(* Accounts are fixed: nothing in the server suspends a user, and Eligible *)
(* is the set of accounts that are active and verified.                    *)
(***************************************************************************)
EXTENDS MembershipStore, FiniteSets

CONSTANTS
  Eligible,    \* users whose account is active and whose email is verified
  Convs,       \* conversations of the organization
  Requests,    \* request handlers that may be running at once
  Ops,         \* the operations callers perform
  RoleInputs,  \* the roles their requests name
  FounderDoc,  \* the membership onboarding created for the founder
  Founder,     \* the user who onboarded the organization
  NoDoc,       \* "no document": where an operation has no target
  Faults       \* the failures that may happen

\* abort: a handler ends early, its process killed or its driver throwing;
\* promoteError: the promotion throws and was not applied; lostReply: it
\* throws although it was applied (once in a behaviour).
AllFaults == {"abort", "promoteError", "lostReply"}

AllOps == {"addMember", "changeRole", "changeStatus", "removeMember",
           "transferOwnership", "claim", "release"}

ASSUME TeamAssumption ==
  /\ Eligible \subseteq Users
  /\ Ops \subseteq AllOps
  /\ RoleInputs \subseteq AssignableRoles
  /\ FounderDoc \in Docs
  /\ Founder \in Users
  /\ NoDoc \notin Docs
  /\ Faults \subseteq AllFaults

VARIABLES
  members,   \* the memberships collection
  assignee,  \* Conversation.assignedTo, NoUser when unassigned
  req,       \* the state of each request handler
  replyLost  \* history: a promotion was applied but reported as failed

vars == <<members, assignee, req, replyLost>>

----------------------------------------------------------------------------
(* Requests.                                                               *)

\* The permission each route requires (member.routes.ts,
\* organization.routes.ts, agentInbox.routes.ts).
Needs ==
  [ addMember         |-> "member.manage",
    changeRole        |-> "member.manage",
    changeStatus      |-> "member.manage",
    removeMember      |-> "member.manage",
    transferOwnership |-> "organization.transfer_ownership",
    claim             |-> "conversation.assign",
    release           |-> "conversation.assign" ]

TargetedOps == {"changeRole", "changeStatus", "removeMember", "transferOwnership"}

\* What the validated path and body of a request say.
Inputs ==
  [op : {"addMember"}, target : {NoDoc}, subject : Users,
   arg : RoleInputs, convs : {{}}]
  \cup [op : {"changeRole"}, target : Docs, subject : {NoUser},
        arg : RoleInputs, convs : {{}}]
  \cup [op : {"changeStatus"}, target : Docs, subject : {NoUser},
        arg : Statuses, convs : {{}}]
  \cup [op : {"removeMember", "transferOwnership"}, target : Docs,
        subject : {NoUser}, arg : {"none"}, convs : {{}}]
  \cup [op : {"claim", "release"}, target : {NoDoc}, subject : {NoUser},
        arg : {"none"}, convs : {{c} : c \in Convs}]

\* A handler: where it is, who acts through which membership, its inputs,
\* the status it read, and the conversations it is to act on.
Idle == [pc |-> "idle", op |-> "none", actor |-> NoDoc, user |-> NoUser,
         target |-> NoDoc, subject |-> NoUser, arg |-> "none",
         seen |-> "none", convs |-> {}]

Pcs == {"idle", "admitted", "checked", "promote", "compensate",
        "announce", "find", "sweep"}

Handlers ==
  [ pc : Pcs, op : AllOps \cup {"none"}, actor : Docs \cup {NoDoc},
    user : Users \cup {NoUser}, target : Docs \cup {NoDoc},
    subject : Users \cup {NoUser},
    arg : Roles \cup Statuses \cup {"none"},
    seen : Statuses \cup {"none"}, convs : SUBSET Convs ]

At(r, pc) == req[r].pc = pc

Is(r, op) == req[r].op = op

Finish(r) == req' = [req EXCEPT ![r] = Idle]

Goto(r, pc) == req' = [req EXCEPT ![r].pc = pc]

\* Admission: requireAccessToken, requireOrganization and requirePermission.
\* The caller's membership d is read once, here; a refused request changes
\* nothing and is not modelled.  A claim or a release has no read of its own
\* before its write.
Admit(r, d, in) ==
  /\ At(r, "idle")
  /\ Active(members, d)
  /\ in.op \in Ops
  /\ Can(members[d].role, Needs[in.op])
  /\ in.op \in TargetedOps => Live(members, in.target)
  /\ req' = [req EXCEPT ![r] =
       [ pc      |-> IF in.op \in {"claim", "release"} THEN "checked" ELSE "admitted",
         op      |-> in.op,      actor   |-> d,
         user    |-> members[d].user,
         target  |-> in.target,  subject |-> in.subject,
         arg     |-> in.arg,     seen    |-> "none",
         convs   |-> in.convs ]]
  /\ UNCHANGED <<members, assignee, replyLost>>

----------------------------------------------------------------------------
(* The reads: each service loads what it is about to change and refuses.   *)

\* addMember: the account is serviceable and not yet a member.
AddAllowed(r) ==
  /\ req[r].subject \in Eligible
  /\ ~HasMembership(members, req[r].subject)

\* requireMembership and assertWriteable: found, not the owner, not oneself.
Writeable(r) ==
  LET d == req[r].target
  IN  /\ Live(members, d)
      /\ members[d].role # "owner"
      /\ members[d].user # req[r].user

\* The two transitions changeStatus performs.
Transitions == {<<"active", "suspended">>, <<"suspended", "active">>}

\* Gates 1 to 4 of a transfer.
TransferAllowed(r) ==
  /\ Writeable(r)
  /\ req[r].target # req[r].actor
  /\ Active(members, req[r].target)
  /\ members[req[r].target].user \in Eligible

Allowed(r) ==
  \/ Is(r, "addMember") /\ AddAllowed(r)
  \/ req[r].op \in {"changeRole", "removeMember"} /\ Writeable(r)
  \/ /\ Is(r, "changeStatus") /\ Writeable(r)
     /\ <<members[req[r].target].status, req[r].arg>> \in Transitions
  \/ Is(r, "transferOwnership") /\ TransferAllowed(r)

Check(r) ==
  /\ At(r, "admitted")
  /\ Allowed(r)
  /\ req' = [req EXCEPT ![r] =
       IF Is(r, "addMember") THEN [@ EXCEPT !.pc = "checked"]
       ELSE [@ EXCEPT !.pc = "checked",
                      !.subject = members[req[r].target].user,
                      !.seen = members[req[r].target].status]]
  /\ UNCHANGED <<members, assignee, replyLost>>

Refuse(r) ==
  /\ At(r, "admitted")
  /\ ~Allowed(r)
  /\ Finish(r)
  /\ UNCHANGED <<members, assignee, replyLost>>

----------------------------------------------------------------------------
(* Member writes.                                                          *)

\* addMember: the insert, which index A refuses when a concurrent add won.
Add(r) ==
  /\ At(r, "checked") /\ Is(r, "addMember")
  /\ \/ /\ UserIndexAdmits(members, req[r].subject)
        /\ \E d \in Docs :
             /\ members[d] = Unissued
             /\ members' = Created(members, d, req[r].subject, req[r].arg)
     \/ /\ ~UserIndexAdmits(members, req[r].subject)
        /\ UNCHANGED members
  /\ Finish(r)
  /\ UNCHANGED <<assignee, replyLost>>

\* changeRole: the write lands on whatever the document has become.  The
\* release of assignments follows only when the new role may not hold them.
ChangeRole(r) ==
  /\ At(r, "checked") /\ Is(r, "changeRole")
  /\ IF UpdateRoleMatches(members, req[r].target)
     THEN /\ members' = WithRole(members, req[r].target, req[r].arg)
          /\ IF Can(req[r].arg, "conversation.assign")
             THEN Finish(r) ELSE Goto(r, "find")
     ELSE Finish(r) /\ UNCHANGED members
  /\ UNCHANGED <<assignee, replyLost>>

\* changeStatus: guarded on the status that was read and on not being the
\* owner; a suspension goes on to announce the revocation.
ChangeStatus(r) ==
  /\ At(r, "checked") /\ Is(r, "changeStatus")
  /\ IF UpdateStatusMatches(members, req[r].target, req[r].seen)
     THEN /\ members' = WithStatus(members, req[r].target, req[r].arg)
          /\ IF req[r].arg = "suspended" THEN Goto(r, "announce") ELSE Finish(r)
     ELSE Finish(r) /\ UNCHANGED members
  /\ UNCHANGED <<assignee, replyLost>>

\* removeMember: the delete comes before everything else.
Remove(r) ==
  /\ At(r, "checked") /\ Is(r, "removeMember")
  /\ IF DeleteMatches(members, req[r].target)
     THEN members' = Without(members, req[r].target) /\ Goto(r, "announce")
     ELSE Finish(r) /\ UNCHANGED members
  /\ UNCHANGED <<assignee, replyLost>>

\* announceRevocation: the event is published; only sockets listen to it.
Announce(r) ==
  /\ At(r, "announce")
  /\ Goto(r, "find")
  /\ UNCHANGED <<members, assignee, replyLost>>

----------------------------------------------------------------------------
(* releaseAllForUser: find the ids, then clear those still held.           *)

HeldBy(u) == {c \in Convs : assignee[c] = u}

SweepFind(r) ==
  /\ At(r, "find")
  /\ IF HeldBy(req[r].subject) = {}
     THEN Finish(r)
     ELSE req' = [req EXCEPT ![r].pc = "sweep",
                             ![r].convs = HeldBy(req[r].subject)]
  /\ UNCHANGED <<members, assignee, replyLost>>

\* Mutant: the sweep is given the id of whoever revokes.
SweepOfTheCaller(r) ==
  /\ At(r, "sweep")
  /\ \E c \in req[r].convs :
       /\ assignee' = [assignee EXCEPT ![c] = IF @ = req[r].user THEN NoUser ELSE @]
       /\ IF req[r].convs = {c} THEN Finish(r)
          ELSE req' = [req EXCEPT ![r].convs = @ \ {c}]
  /\ UNCHANGED <<members, replyLost>>

\* updateMany clears one document at a time, each under its own filter.
Sweep(r) ==
  /\ At(r, "sweep")
  /\ \E c \in req[r].convs :
       /\ assignee' = [assignee EXCEPT ![c] = IF @ = req[r].subject THEN NoUser ELSE @]
       /\ IF req[r].convs = {c} THEN Finish(r)
          ELSE req' = [req EXCEPT ![r].convs = @ \ {c}]
  /\ UNCHANGED <<members, replyLost>>

----------------------------------------------------------------------------
(* transferOwnership, after its four gates.                                *)

PreviousOwnerRole == "admin"

\* demoteOwner.  Releasing the former owner's assignments, which follows the
\* promotion, does nothing: an admin may hold conversations.  The count of
\* owners after the transfer is only logged.
Demote(r) ==
  /\ At(r, "checked") /\ Is(r, "transferOwnership")
  /\ IF DemoteMatches(members, req[r].actor)
     THEN /\ members' = WithRole(members, req[r].actor, PreviousOwnerRole)
          /\ Goto(r, "promote")
     ELSE Finish(r) /\ UNCHANGED members
  /\ UNCHANGED <<assignee, replyLost>>

\* Mutant: a promotion that did not apply ends the request.
PromoteWithoutCompensation(r) ==
  /\ At(r, "promote")
  /\ IF /\ PromoteMatches(members, req[r].target)
        /\ OwnerIndexAdmits(members, req[r].target)
     THEN members' = WithRole(members, req[r].target, "owner") /\ Finish(r)
     ELSE Finish(r) /\ UNCHANGED members
  /\ UNCHANGED <<assignee, replyLost>>

\* A filter that matches nothing and a duplicate-key refusal by index B mean
\* the same to the service: compensate.
Promote(r) ==
  /\ At(r, "promote")
  /\ IF /\ PromoteMatches(members, req[r].target)
        /\ OwnerIndexAdmits(members, req[r].target)
     THEN members' = WithRole(members, req[r].target, "owner") /\ Finish(r)
     ELSE Goto(r, "compensate") /\ UNCHANGED members
  /\ UNCHANGED <<assignee, replyLost>>

\* The driver throws without the write having been applied.
PromoteFails(r) ==
  /\ "promoteError" \in Faults
  /\ At(r, "promote")
  /\ Goto(r, "compensate")
  /\ UNCHANGED <<members, assignee, replyLost>>

\* The driver throws after the write was applied.  Once in a behaviour.
PromoteReplyLost(r) ==
  /\ "lostReply" \in Faults /\ ~replyLost
  /\ At(r, "promote")
  /\ PromoteMatches(members, req[r].target)
  /\ OwnerIndexAdmits(members, req[r].target)
  /\ members' = WithRole(members, req[r].target, "owner")
  /\ Goto(r, "compensate")
  /\ replyLost' = TRUE
  /\ UNCHANGED assignee

\* Mutant: compensation retries for as long as it fails.
CompensateUntilRestored(r) ==
  /\ At(r, "compensate")
  /\ IF /\ RestoreMatches(members, req[r].actor, PreviousOwnerRole)
        /\ OwnerIndexAdmits(members, req[r].actor)
     THEN members' = WithRole(members, req[r].actor, "owner") /\ Finish(r)
     ELSE UNCHANGED <<members, req>>
  /\ UNCHANGED <<assignee, replyLost>>

\* compensate: never throws.  Whether it restored anything only decides which
\* line is logged.
Compensate(r) ==
  /\ At(r, "compensate")
  /\ IF /\ RestoreMatches(members, req[r].actor, PreviousOwnerRole)
        /\ OwnerIndexAdmits(members, req[r].actor)
     THEN members' = WithRole(members, req[r].actor, "owner")
     ELSE UNCHANGED members
  /\ Finish(r)
  /\ UNCHANGED <<assignee, replyLost>>

----------------------------------------------------------------------------
(* Assignment.                                                             *)

\* Mutant: the filter without assignedTo.
ClaimUnguarded(r) ==
  /\ At(r, "checked") /\ Is(r, "claim")
  /\ \E c \in req[r].convs : assignee' = [assignee EXCEPT ![c] = req[r].user]
  /\ Finish(r)
  /\ UNCHANGED <<members, replyLost>>

\* claimForUser and releaseForUser share one filter: assignedTo is null or me.
Claim(r) ==
  /\ At(r, "checked") /\ Is(r, "claim")
  /\ \E c \in req[r].convs :
       assignee' = IF assignee[c] \in {NoUser, req[r].user}
                   THEN [assignee EXCEPT ![c] = req[r].user] ELSE assignee
  /\ Finish(r)
  /\ UNCHANGED <<members, replyLost>>

Release(r) ==
  /\ At(r, "checked") /\ Is(r, "release")
  /\ \E c \in req[r].convs :
       assignee' = IF assignee[c] \in {NoUser, req[r].user}
                   THEN [assignee EXCEPT ![c] = NoUser] ELSE assignee
  /\ Finish(r)
  /\ UNCHANGED <<members, replyLost>>

----------------------------------------------------------------------------
(* The specification.                                                      *)

\* The handler ends where it stands: the process dies, or the driver throws
\* at an await whose exception ends the request.
Abort(r) ==
  /\ "abort" \in Faults
  /\ ~At(r, "idle")
  /\ Finish(r)
  /\ UNCHANGED <<members, assignee, replyLost>>

Init ==
  /\ members = [d \in Docs |->
       IF d = FounderDoc
       THEN [user |-> Founder, role |-> "owner", status |-> "active"]
       ELSE Unissued]
  /\ assignee = [c \in Convs |-> NoUser]
  /\ req = [r \in Requests |-> Idle]
  /\ replyLost = FALSE

Arrive(r) == \E d \in Docs, in \in Inputs : Admit(r, d, in)

\* What the server does for a request it has admitted.
Serve(r) ==
  \/ Check(r) \/ Refuse(r)
  \/ Add(r) \/ ChangeRole(r) \/ ChangeStatus(r) \/ Remove(r)
  \/ Announce(r) \/ SweepFind(r) \/ Sweep(r)
  \/ Demote(r) \/ Promote(r) \/ Compensate(r)
  \/ Claim(r) \/ Release(r)

Fail(r) == PromoteFails(r) \/ PromoteReplyLost(r) \/ Abort(r)

Next == \E r \in Requests : Arrive(r) \/ Serve(r) \/ Fail(r)

Spec == Init /\ [][Next]_vars

\* Callers owe nothing; a handler that was admitted is resumed by the event
\* loop whenever its database call settles.
FairSpec == Spec /\ \A r \in Requests : WF_vars(Serve(r))

----------------------------------------------------------------------------
(* Properties.                                                             *)

\* What a handler holds fits its operation: the rest of the specification
\* relies on it where it uses the fields.
HandlerOK(h) ==
  /\ h.pc # "idle" => h.op # "none" /\ h.actor \in Docs /\ h.user \in Users
  /\ h.op = "addMember" => h.subject \in Users
  /\ h.op \in {"addMember", "changeRole"} => h.arg \in AssignableRoles
  /\ h.op = "changeStatus" => h.arg \in Statuses
  /\ h.op \in TargetedOps => h.target \in Docs
  /\ h.op \in TargetedOps /\ h.pc \notin {"idle", "admitted"} =>
       h.seen \in Statuses /\ h.subject \in Users
  /\ h.pc \in {"promote", "compensate"} => h.op = "transferOwnership"

\* Every variable has its type.
TypeOK ==
  /\ members \in Collection
  /\ assignee \in [Convs -> Users \cup {NoUser}]
  /\ req \in [Requests -> Handlers]
  /\ \A r \in Requests : HandlerOK(req[r])
  /\ replyLost \in BOOLEAN

\* A transfer between its demote and its last write: the organization's
\* ownership is in its hands.
InWindow(r) == req[r].pc \in {"promote", "compensate"}

OwnerExists == \E d \in Docs : IsOwner(members, d)

\* Never two owners (ADR-028, section 10), whatever transfers race, fail
\* half-way or compensate a promotion that did land.
AtMostOneOwner ==
  \A d, e \in Docs : IsOwner(members, d) /\ IsOwner(members, e) => d = e

\* One membership per user, however many adds of the same person race with
\* each other and with a removal.
OneMembershipPerUser ==
  \A d, e \in Docs :
    /\ Live(members, d) /\ Live(members, e)
    /\ members[d].user = members[e].user
    => d = e

\* Never two concurrent transfers (ADR-028, section 8b and 8c): while one is
\* between its demote and its last write nobody is the owner and no other
\* transfer has got past its demote.  It takes a promotion that was applied
\* but reported as failed to break this.
TransferWindowExclusive ==
  replyLost \/ \A r \in Requests : InWindow(r) =>
                 /\ ~OwnerExists
                 /\ \A s \in Requests : InWindow(s) => s = r

SuspendedOwner(d) == IsOwner(members, d) /\ ~Active(members, d)

\* A suspension never lands on an owner and a suspended member is never
\* promoted, although both services decided on an older read: the one way to
\* a suspended owner is a compensation, which restores the role of a
\* membership that was suspended while the transfer was under way.
SuspendedOwnerOnlyByRestore ==
  [][ \A d \in Docs : SuspendedOwner(d)' =>
        \/ SuspendedOwner(d)
        \/ \E r \in Requests : At(r, "compensate") /\ req[r].actor = d ]_vars

\* An agent never takes a conversation from another (ADR-026, section 4): it
\* goes from one holder to the next only through being unassigned.
NoAssignmentTheft ==
  [][ \A c \in Convs :
        assignee'[c] \in {assignee[c], NoUser} \/ assignee[c] = NoUser ]_vars

\* Ownership is in somebody's hands: an owner's, or a transfer's.
OwnershipKept == OwnerExists \/ \E r \in Requests : InWindow(r)

MayLoseOwnership(r) ==
  \/ /\ At(r, "checked")
     /\ req[r].op \in {"changeRole", "removeMember"}
     /\ IsOwner(members, req[r].target)
  \/ /\ At(r, "compensate")
     /\ ~RestoreMatches(members, req[r].actor, PreviousOwnerRole)
  \/ InWindow(r) /\ Abort(r)

\* The ways ownership can be lost are these and no others: a role change or a
\* removal that read its target before a transfer promoted it; a
\* compensation that finds the former owner's membership deleted or no
\* longer an admin's; and, in runs with that fault, a handler killed inside
\* the window.
OwnershipLostOnlyBy ==
  [][ OwnershipKept /\ ~OwnershipKept' => \E r \in Requests : MayLoseOwnership(r) ]_vars

\* Every transfer that demoted the owner reaches its last write: the window
\* closes unless the handler is killed inside it.
WindowCloses ==
  \A r \in Requests : InWindow(r) ~> ~InWindow(r)

\* The revocation is written and its sweep has not looked yet.
Revoking(r) == req[r].pc \in {"announce", "find"}

\* What a suspended or removed member holds when the sweep looks is taken off
\* them, whoever else claims and releases meanwhile.
RevocationReleases ==
  \A r \in Requests, c \in Convs, u \in Users :
    (Revoking(r) /\ req[r].subject = u /\ assignee[c] = u) ~> assignee[c] # u

\* ADR-028, section 10, "the residual failure window, in full": with no
\* process dying, the organization has an owner or a transfer is moving it.
OwnerlessOnlyInWindow == OwnershipKept

\* ADR-027, section 10: a colleague who has left does not strand their queue.
NoStrandedAssignment ==
  (\A r \in Requests : At(r, "idle")) =>
    \A c \in Convs : assignee[c] # NoUser => ActiveMember(members, assignee[c])
=============================================================================
