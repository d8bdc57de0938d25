----------------------------- MODULE TeamProofs -----------------------------
(***************************************************************************)
(* Theorems about team administration, for every number of users,          *)
(* documents, conversations and concurrent requests, and every combination *)
(* of operations and faults.                                               *)
(***************************************************************************)
EXTENDS Team, MembershipStoreProofs

USE DEF Roles, Statuses, AssignableRoles

\* A role named by a request is assignable, so never "owner".
LEMMA InputShape ==
  ASSUME NEW in \in Inputs
  PROVE  /\ in.op \in AllOps
         /\ in.target \in Docs \cup {NoDoc}
         /\ in.subject \in Users \cup {NoUser}
         /\ in.arg \in Roles \cup Statuses \cup {"none"}
         /\ in.convs \in SUBSET Convs
         /\ in.op = "addMember" => in.subject \in Users
         /\ in.op \in {"addMember", "changeRole"} => in.arg \in AssignableRoles
         /\ in.op = "changeStatus" => in.arg \in Statuses
         /\ in.op \in TargetedOps => in.target \in Docs
<1>1. CASE in \in [op : {"addMember"}, target : {NoDoc}, subject : Users,
                   arg : RoleInputs, convs : {{}}]
  BY <1>1, TeamAssumption DEF AllOps, TargetedOps
<1>2. CASE in \in [op : {"changeRole"}, target : Docs, subject : {NoUser},
                   arg : RoleInputs, convs : {{}}]
  BY <1>2, TeamAssumption DEF AllOps, TargetedOps
<1>3. CASE in \in [op : {"changeStatus"}, target : Docs, subject : {NoUser},
                   arg : Statuses, convs : {{}}]
  BY <1>3 DEF AllOps, TargetedOps
<1>4. CASE in \in [op : {"removeMember", "transferOwnership"}, target : Docs,
                   subject : {NoUser}, arg : {"none"}, convs : {{}}]
  BY <1>4 DEF AllOps, TargetedOps
<1>5. CASE in \in [op : {"claim", "release"}, target : {NoDoc}, subject : {NoUser},
                   arg : {"none"}, convs : {{c} : c \in Convs}]
  <2>1. in.convs \in SUBSET Convs
    BY <1>5
  <2>2. QED
    BY <1>5, <2>1 DEF AllOps, TargetedOps
<1>6. QED
  BY <1>1, <1>2, <1>3, <1>4, <1>5 DEF Inputs

LEMMA IdleHandler == Idle \in Handlers /\ HandlerOK(Idle)
BY DEF Idle, Handlers, HandlerOK, Pcs, TargetedOps

\* A handler that ends leaves well-typed handlers behind.
LEMMA FinishTyped ==
  ASSUME TypeOK, NEW r \in Requests, Finish(r)
  PROVE  /\ req' \in [Requests -> Handlers]
         /\ \A s \in Requests : HandlerOK(req'[s])
BY IdleHandler DEF TypeOK, Finish

\* So does one that moves on to a later point of the same operation.
LEMMA GotoTyped ==
  ASSUME TypeOK, NEW r \in Requests, NEW pc \in Pcs,
         req[r].pc \notin {"idle", "admitted"},
         pc \in {"promote", "compensate"} => Is(r, "transferOwnership"),
         Goto(r, pc)
  PROVE  /\ req' \in [Requests -> Handlers]
         /\ \A s \in Requests : HandlerOK(req'[s])
<1>1. req[r] \in Handlers /\ HandlerOK(req[r])
  BY DEF TypeOK
<1>2. DEFINE h == [req[r] EXCEPT !.pc = pc]
<1>3. h \in Handlers
  BY <1>1 DEF Handlers
<1>4. HandlerOK(h)
  BY <1>1 DEF Handlers, HandlerOK, Is, TargetedOps
<1>5. req' = [req EXCEPT ![r] = h]
  BY DEF Goto
<1>6. QED
  BY <1>3, <1>4, <1>5 DEF TypeOK

----------------------------------------------------------------------------
(* Type correctness.                                                       *)

LEMMA InitTyped == Init => TypeOK
<1>1. SUFFICES ASSUME Init PROVE TypeOK
  OBVIOUS
<1>2. members \in Collection
  BY <1>1, TeamAssumption DEF Init, Collection, Membership
<1>3. QED
  BY <1>1, <1>2, IdleHandler DEF Init, TypeOK

LEMMA AdmitTyped ==
  ASSUME TypeOK, NEW r \in Requests, NEW d \in Docs, NEW in \in Inputs,
         Admit(r, d, in)
  PROVE  TypeOK'
<1>1. members[d].user \in Users
  BY LiveIsMembership DEF TypeOK, Admit, Active, Live, Membership
<1>2. DEFINE h ==
        [ pc      |-> IF in.op \in {"claim", "release"} THEN "checked" ELSE "admitted",
          op      |-> in.op,      actor   |-> d,
          user    |-> members[d].user,
          target  |-> in.target,  subject |-> in.subject,
          arg     |-> in.arg,     seen    |-> "none",
          convs   |-> in.convs ]
<1>3. h \in Handlers
  BY <1>1, InputShape DEF Handlers, Pcs
<1>4. HandlerOK(h)
  BY <1>1, InputShape DEF HandlerOK, TargetedOps, AllOps
<1>5. req' = [req EXCEPT ![r] = h]
  BY DEF Admit
<1>6. QED
  BY <1>3, <1>4, <1>5 DEF TypeOK, Admit

LEMMA CheckTyped ==
  ASSUME TypeOK, NEW r \in Requests, Check(r)
  PROVE  TypeOK'
<1>1. req[r] \in Handlers /\ HandlerOK(req[r])
  BY DEF TypeOK
<1>2. CASE Is(r, "addMember")
  <2>1. DEFINE h == [req[r] EXCEPT !.pc = "checked"]
  <2>2. h \in Handlers
    BY <1>1 DEF Handlers, Pcs
  <2>3. HandlerOK(h)
    BY <1>1, <1>2 DEF Handlers, HandlerOK, Is, TargetedOps, Check, At
  <2>4. req' = [req EXCEPT ![r] = h]
    BY <1>2 DEF Check
  <2>5. QED
    BY <2>2, <2>3, <2>4 DEF TypeOK, Check
<1>3. CASE ~Is(r, "addMember")
  <2>1. DEFINE t == members[req[r].target]
               h == [req[r] EXCEPT !.pc = "checked", !.subject = t.user,
                                   !.seen = t.status]
  <2>2. req[r].op \in TargetedOps /\ Live(members, req[r].target)
    BY <1>3 DEF Check, Allowed, Is, TransferAllowed, Writeable, TargetedOps
  <2>3. t \in Membership
    BY <1>1, <2>2, LiveIsMembership DEF HandlerOK, TypeOK
  <2>4. h \in Handlers
    BY <1>1, <2>3 DEF Handlers, Pcs, Membership
  <2>5. HandlerOK(h)
    BY <1>1, <2>2, <2>3 DEF Handlers, HandlerOK, TargetedOps, Check, At, Membership
  <2>6. req' = [req EXCEPT ![r] = h]
    BY <1>3 DEF Check
  <2>7. QED
    BY <2>4, <2>5, <2>6 DEF TypeOK, Check
<1>4. QED
  BY <1>2, <1>3

LEMMA RefuseTyped ==
  ASSUME TypeOK, NEW r \in Requests, Refuse(r)
  PROVE  TypeOK'
BY FinishTyped DEF Refuse, TypeOK

LEMMA AddTyped ==
  ASSUME TypeOK, NEW r \in Requests, Add(r)
  PROVE  TypeOK'
<1>1. req[r].subject \in Users /\ req[r].arg \in Roles
  BY DEF TypeOK, HandlerOK, Add, Is
<1>2. members' \in Collection
  <2>1. members \in Collection
    BY DEF TypeOK
  <2>2. CASE UNCHANGED members
    BY <2>1, <2>2
  <2>3. CASE \E d \in Docs :
               members' = Created(members, d, req[r].subject, req[r].arg)
    <3>1. PICK d \in Docs :
                 members' = Created(members, d, req[r].subject, req[r].arg)
      BY <2>3
    <3>2. Created(members, d, req[r].subject, req[r].arg) \in Collection
      BY <1>1, <2>1, CreatedCollection
    <3>3. QED
      BY <3>1, <3>2
  <2>4. QED
    BY <2>2, <2>3 DEF Add
<1>3. QED
  BY <1>2, FinishTyped DEF TypeOK, Add

LEMMA ChangeRoleTyped ==
  ASSUME TypeOK, NEW r \in Requests, ChangeRole(r)
  PROVE  TypeOK'
<1>1. req[r].arg \in Roles /\ req[r].target \in Docs
  BY DEF TypeOK, HandlerOK, ChangeRole, Is, TargetedOps
<1>2. members' \in Collection
  <2>1. members \in Collection
    BY DEF TypeOK
  <2>2. CASE UNCHANGED members
    BY <2>1, <2>2
  <2>3. CASE Live(members, req[r].target)
    <3>1. WithRole(members, req[r].target, req[r].arg) \in Collection
      BY <1>1, <2>1, <2>3, WithRoleCollection
    <3>2. QED
      BY <2>3, <3>1 DEF ChangeRole, UpdateRoleMatches
  <2>4. QED
    BY <2>2, <2>3 DEF ChangeRole, UpdateRoleMatches
<1>3. Finish(r) \/ Goto(r, "find")
  BY DEF ChangeRole
<1>4. QED
  BY <1>2, <1>3, FinishTyped, GotoTyped DEF TypeOK, ChangeRole, At, Pcs

LEMMA ChangeStatusTyped ==
  ASSUME TypeOK, NEW r \in Requests, ChangeStatus(r)
  PROVE  TypeOK'
<1>1. /\ req[r].arg \in Statuses /\ req[r].target \in Docs
      /\ req[r].seen \in Statuses
  BY DEF TypeOK, HandlerOK, ChangeStatus, At, Is, TargetedOps
<1>2. members' \in Collection
  <2>1. members \in Collection
    BY DEF TypeOK
  <2>2. CASE UNCHANGED members
    BY <2>1, <2>2
  <2>3. CASE UpdateStatusMatches(members, req[r].target, req[r].seen)
    <3>1. Live(members, req[r].target)
      BY <1>1, <2>3 DEF UpdateStatusMatches, Live
    <3>2. QED
      <4>1. WithStatus(members, req[r].target, req[r].arg) \in Collection
        BY <1>1, <2>1, <3>1, WithStatusCollection
      <4>2. QED
        BY <2>3, <4>1 DEF ChangeStatus
  <2>4. QED
    BY <2>2, <2>3 DEF ChangeStatus
<1>3. Finish(r) \/ Goto(r, "announce")
  BY DEF ChangeStatus
<1>4. QED
  BY <1>2, <1>3, FinishTyped, GotoTyped DEF TypeOK, ChangeStatus, At, Pcs

LEMMA RemoveTyped ==
  ASSUME TypeOK, NEW r \in Requests, Remove(r)
  PROVE  TypeOK'
<1>1. req[r].target \in Docs
  BY DEF TypeOK, HandlerOK, Remove, Is, TargetedOps
<1>2. members' \in Collection
  BY <1>1, WithoutCollection DEF TypeOK, Remove
<1>3. Finish(r) \/ Goto(r, "announce")
  BY DEF Remove
<1>4. QED
  BY <1>2, <1>3, FinishTyped, GotoTyped DEF TypeOK, Remove, At, Pcs

LEMMA AnnounceTyped ==
  ASSUME TypeOK, NEW r \in Requests, Announce(r)
  PROVE  TypeOK'
BY GotoTyped DEF TypeOK, Announce, At, Pcs

LEMMA SweepFindTyped ==
  ASSUME TypeOK, NEW r \in Requests, SweepFind(r)
  PROVE  TypeOK'
<1>1. req[r] \in Handlers /\ HandlerOK(req[r])
  BY DEF TypeOK
<1>2. CASE Finish(r)
  BY <1>2, FinishTyped DEF TypeOK, SweepFind
<1>3. CASE ~Finish(r)
  <2>1. DEFINE h == [req[r] EXCEPT !.pc = "sweep",
                                   !.convs = HeldBy(req[r].subject)]
  <2>2. h \in Handlers
    BY <1>1 DEF Handlers, Pcs, HeldBy
  <2>3. HandlerOK(h)
    BY <1>1 DEF Handlers, HandlerOK, TargetedOps, SweepFind, At
  <2>4. req' = [req EXCEPT ![r] = h]
    BY <1>3 DEF SweepFind
  <2>5. QED
    BY <2>2, <2>3, <2>4 DEF TypeOK, SweepFind
<1>4. QED
  BY <1>2, <1>3

LEMMA SweepTyped ==
  ASSUME TypeOK, NEW r \in Requests, Sweep(r)
  PROVE  TypeOK'
<1>1. req[r] \in Handlers /\ HandlerOK(req[r])
  BY DEF TypeOK
<1>2. PICK c \in req[r].convs :
        /\ assignee' = [assignee EXCEPT ![c] = IF @ = req[r].subject THEN NoUser ELSE @]
        /\ IF req[r].convs = {c} THEN Finish(r)
           ELSE req' = [req EXCEPT ![r].convs = @ \ {c}]
  BY DEF Sweep
<1>3. assignee' \in [Convs -> Users \cup {NoUser}]
  BY <1>1, <1>2 DEF TypeOK, Handlers
<1>4. CASE Finish(r)
  BY <1>3, <1>4, FinishTyped DEF TypeOK, Sweep
<1>5. CASE ~Finish(r)
  <2>1. DEFINE h == [req[r] EXCEPT !.convs = req[r].convs \ {c}]
  <2>2. h \in Handlers
    BY <1>1 DEF Handlers
  <2>3. HandlerOK(h)
    BY <1>1 DEF Handlers, HandlerOK, TargetedOps
  <2>4. req' = [req EXCEPT ![r] = h]
    BY <1>2, <1>5
  <2>5. QED
    BY <1>3, <2>2, <2>3, <2>4 DEF TypeOK, Sweep
<1>6. QED
  BY <1>4, <1>5

\* A handler past its checks that transfers: whose documents it holds.
LEMMA TransferDocs ==
  ASSUME TypeOK, NEW r \in Requests, ~At(r, "idle"),
         \/ Is(r, "transferOwnership")
         \/ req[r].pc \in {"promote", "compensate"}
  PROVE  /\ Is(r, "transferOwnership")
         /\ req[r].actor \in Docs
         /\ req[r].target \in Docs
BY DEF TypeOK, HandlerOK, At, Is, TargetedOps

\* A role write on a document its filter found.
LEMMA RoleWriteTyped ==
  ASSUME TypeOK, NEW d \in Docs, NEW role \in Roles, Live(members, d)
  PROVE  WithRole(members, d, role) \in Collection
BY WithRoleCollection DEF TypeOK

LEMMA DemoteTyped ==
  ASSUME TypeOK, NEW r \in Requests, Demote(r)
  PROVE  TypeOK'
<1>1. Is(r, "transferOwnership") /\ req[r].actor \in Docs /\ At(r, "checked")
  BY TransferDocs DEF Demote, At
<1>2. CASE DemoteMatches(members, req[r].actor)
  <2>1. WithRole(members, req[r].actor, "admin") \in Collection
    BY <1>1, <1>2, RoleWriteTyped DEF DemoteMatches, IsOwner
  <2>2. QED
    BY <1>1, <1>2, <2>1, GotoTyped
       DEF TypeOK, Demote, PreviousOwnerRole, At, Pcs
<1>3. CASE ~DemoteMatches(members, req[r].actor)
  BY <1>3, FinishTyped DEF TypeOK, Demote
<1>4. QED
  BY <1>2, <1>3

LEMMA PromoteTyped ==
  ASSUME TypeOK, NEW r \in Requests, Promote(r)
  PROVE  TypeOK'
<1>1. Is(r, "transferOwnership") /\ req[r].target \in Docs /\ At(r, "promote")
  BY TransferDocs DEF Promote, At
<1>2. CASE /\ PromoteMatches(members, req[r].target)
           /\ OwnerIndexAdmits(members, req[r].target)
  <2>1. WithRole(members, req[r].target, "owner") \in Collection
    BY <1>1, <1>2, RoleWriteTyped DEF PromoteMatches, Active, Live
  <2>2. QED
    BY <1>2, <2>1, FinishTyped DEF TypeOK, Promote
<1>3. CASE ~(/\ PromoteMatches(members, req[r].target)
             /\ OwnerIndexAdmits(members, req[r].target))
  BY <1>1, <1>3, GotoTyped DEF TypeOK, Promote, At, Pcs
<1>4. QED
  BY <1>2, <1>3

LEMMA PromoteFailsTyped ==
  ASSUME TypeOK, NEW r \in Requests, PromoteFails(r)
  PROVE  TypeOK'
<1>1. Is(r, "transferOwnership") /\ At(r, "promote")
  BY TransferDocs DEF PromoteFails, At
<1>2. QED
  BY <1>1, GotoTyped DEF TypeOK, PromoteFails, At, Pcs

LEMMA PromoteReplyLostTyped ==
  ASSUME TypeOK, NEW r \in Requests, PromoteReplyLost(r)
  PROVE  TypeOK'
<1>1. Is(r, "transferOwnership") /\ req[r].target \in Docs /\ At(r, "promote")
  BY TransferDocs DEF PromoteReplyLost, At
<1>2. WithRole(members, req[r].target, "owner") \in Collection
  BY <1>1, RoleWriteTyped DEF PromoteReplyLost, PromoteMatches, Active, Live
<1>3. QED
  BY <1>1, <1>2, GotoTyped DEF TypeOK, PromoteReplyLost, At, Pcs

LEMMA CompensateTyped ==
  ASSUME TypeOK, NEW r \in Requests, Compensate(r)
  PROVE  TypeOK'
<1>1. req[r].actor \in Docs
  BY TransferDocs DEF Compensate, At
<1>2. CASE UNCHANGED members
  BY <1>2, FinishTyped DEF TypeOK, Compensate
<1>3. CASE RestoreMatches(members, req[r].actor, PreviousOwnerRole)
  <2>1. WithRole(members, req[r].actor, "owner") \in Collection
    BY <1>1, <1>3, RoleWriteTyped DEF RestoreMatches
  <2>2. members' \in Collection
    BY <2>1 DEF Compensate, TypeOK
  <2>3. QED
    BY <2>2, FinishTyped DEF TypeOK, Compensate
<1>4. QED
  BY <1>2, <1>3 DEF Compensate

LEMMA ClaimTyped ==
  ASSUME TypeOK, NEW r \in Requests, Claim(r)
  PROVE  TypeOK'
<1>1. req[r].user \in Users /\ req[r].convs \subseteq Convs
  BY DEF TypeOK, HandlerOK, Handlers, Claim, At
<1>2. assignee' \in [Convs -> Users \cup {NoUser}]
  BY <1>1 DEF TypeOK, Claim
<1>3. QED
  BY <1>2, FinishTyped DEF TypeOK, Claim

LEMMA ReleaseTyped ==
  ASSUME TypeOK, NEW r \in Requests, Release(r)
  PROVE  TypeOK'
<1>1. req[r].convs \subseteq Convs
  BY DEF TypeOK, Handlers
<1>2. assignee' \in [Convs -> Users \cup {NoUser}]
  BY <1>1 DEF TypeOK, Release
<1>3. QED
  BY <1>2, FinishTyped DEF TypeOK, Release

LEMMA AbortTyped ==
  ASSUME TypeOK, NEW r \in Requests, Abort(r)
  PROVE  TypeOK'
BY FinishTyped DEF TypeOK, Abort

LEMMA StepTyped == TypeOK /\ [Next]_vars => TypeOK'
<1>1. SUFFICES ASSUME TypeOK, [Next]_vars PROVE TypeOK'
  OBVIOUS
<1>2. CASE UNCHANGED vars
  BY <1>1, <1>2 DEF TypeOK, vars
<1>3. CASE Next
  <2>1. PICK r \in Requests : Arrive(r) \/ Serve(r) \/ Fail(r)
    BY <1>3 DEF Next
  <2>2. CASE Arrive(r)
    BY <1>1, <2>2, AdmitTyped DEF Arrive
  <2>3. CASE Serve(r)
    BY <1>1, <2>3, CheckTyped, RefuseTyped, AddTyped, ChangeRoleTyped,
       ChangeStatusTyped, RemoveTyped, AnnounceTyped, SweepFindTyped,
       SweepTyped, DemoteTyped, PromoteTyped, CompensateTyped, ClaimTyped,
       ReleaseTyped DEF Serve
  <2>4. CASE Fail(r)
    BY <1>1, <2>4, PromoteFailsTyped, PromoteReplyLostTyped, AbortTyped DEF Fail
  <2>5. QED
    BY <2>1, <2>2, <2>3, <2>4
<1>4. QED
  BY <1>1, <1>2, <1>3

\* The collection, the assignments and every handler keep their types, and a
\* handler always holds what the operation it runs will use.
THEOREM TypeCorrect == Spec => []TypeOK
<1>1. Init => TypeOK
  BY InitTyped
<1>2. TypeOK /\ [Next]_vars => TypeOK'
  BY StepTyped
<1>3. QED
  BY <1>1, <1>2, PTL DEF Spec

----------------------------------------------------------------------------
(* What any step may do to the collection: one write of the repository, on *)
(* one document, with the index it has to get past.                        *)

Inserts(d, u, role) ==
  /\ members[d] = Unissued
  /\ UserIndexAdmits(members, u)
  /\ members' = Created(members, d, u, role)

GrantsOwnership(d) ==
  /\ Live(members, d)
  /\ OwnerIndexAdmits(members, d)
  /\ members' = WithRole(members, d, "owner")

PlainWrites ==
  \/ UNCHANGED members
  \/ \E d \in Docs, u \in Users, role \in AssignableRoles : Inserts(d, u, role)
  \/ \E d \in Docs, role \in AssignableRoles :
       Live(members, d) /\ members' = WithRole(members, d, role)
  \/ \E d \in Docs, status \in Statuses :
       Live(members, d) /\ members' = WithStatus(members, d, status)
  \/ \E d \in Docs : Live(members, d) /\ members' = Without(members, d)

Writes == PlainWrites \/ \E d \in Docs : GrantsOwnership(d)

LEMMA AddWrites ==
  ASSUME TypeOK, NEW r \in Requests, Add(r)
  PROVE  PlainWrites
<1>1. req[r].subject \in Users /\ req[r].arg \in AssignableRoles
  BY DEF TypeOK, HandlerOK, Add, Is
<1>2. CASE UNCHANGED members
  BY <1>2 DEF PlainWrites
<1>3. CASE ~UNCHANGED members
  <2>1. PICK d \in Docs : Inserts(d, req[r].subject, req[r].arg)
    BY <1>3 DEF Add, Inserts
  <2>2. QED
    BY <1>1, <2>1 DEF PlainWrites
<1>4. QED
  BY <1>2, <1>3

LEMMA ChangeRoleWrites ==
  ASSUME TypeOK, NEW r \in Requests, ChangeRole(r)
  PROVE  PlainWrites
<1>1. req[r].arg \in AssignableRoles /\ req[r].target \in Docs
  BY DEF TypeOK, HandlerOK, ChangeRole, Is, TargetedOps
<1>2. \/ UNCHANGED members
      \/ /\ Live(members, req[r].target)
         /\ members' = WithRole(members, req[r].target, req[r].arg)
  BY DEF ChangeRole, UpdateRoleMatches
<1>3. QED
  BY <1>1, <1>2 DEF PlainWrites

LEMMA ChangeStatusWrites ==
  ASSUME TypeOK, NEW r \in Requests, ChangeStatus(r)
  PROVE  PlainWrites
<1>1. /\ req[r].arg \in Statuses /\ req[r].target \in Docs
      /\ req[r].seen \in Statuses
  BY DEF TypeOK, HandlerOK, ChangeStatus, At, Is, TargetedOps
<1>2. \/ UNCHANGED members
      \/ /\ Live(members, req[r].target)
         /\ members' = WithStatus(members, req[r].target, req[r].arg)
  BY <1>1 DEF ChangeStatus, UpdateStatusMatches, Live
<1>3. QED
  BY <1>1, <1>2 DEF PlainWrites

LEMMA RemoveWrites ==
  ASSUME TypeOK, NEW r \in Requests, Remove(r)
  PROVE  PlainWrites
<1>1. req[r].target \in Docs
  BY DEF TypeOK, HandlerOK, Remove, Is, TargetedOps
<1>2. \/ UNCHANGED members
      \/ /\ Live(members, req[r].target)
         /\ members' = Without(members, req[r].target)
  BY DEF Remove, DeleteMatches
<1>3. QED
  BY <1>1, <1>2 DEF PlainWrites

LEMMA DemoteWrites ==
  ASSUME TypeOK, NEW r \in Requests, Demote(r)
  PROVE  PlainWrites
<1>1. req[r].actor \in Docs
  BY TransferDocs DEF Demote, At
<1>2. \/ UNCHANGED members
      \/ /\ Live(members, req[r].actor)
         /\ members' = WithRole(members, req[r].actor, "admin")
  BY DEF Demote, DemoteMatches, IsOwner, PreviousOwnerRole
<1>3. QED
  BY <1>1, <1>2 DEF PlainWrites

LEMMA PromoteWrites ==
  ASSUME TypeOK, NEW r \in Requests, Promote(r) \/ PromoteReplyLost(r)
  PROVE  Writes
<1>1. req[r].target \in Docs
  BY TransferDocs DEF Promote, PromoteReplyLost, At
<1>2. UNCHANGED members \/ GrantsOwnership(req[r].target)
  BY DEF Promote, PromoteReplyLost, PromoteMatches, Active, Live, GrantsOwnership
<1>3. QED
  BY <1>1, <1>2 DEF Writes, PlainWrites

LEMMA CompensateWrites ==
  ASSUME TypeOK, NEW r \in Requests, Compensate(r)
  PROVE  Writes
<1>1. req[r].actor \in Docs
  BY TransferDocs DEF Compensate, At
<1>2. UNCHANGED members \/ GrantsOwnership(req[r].actor)
  BY DEF Compensate, RestoreMatches, GrantsOwnership
<1>3. QED
  BY <1>1, <1>2 DEF Writes, PlainWrites

LEMMA StepWrites ==
  ASSUME TypeOK, [Next]_vars
  PROVE  Writes
<1>1. CASE UNCHANGED vars
  BY <1>1 DEF Writes, PlainWrites, vars
<1>2. CASE Next
  <2>1. PICK r \in Requests : Arrive(r) \/ Serve(r) \/ Fail(r)
    BY <1>2 DEF Next
  <2>2. CASE Arrive(r)
    BY <2>2 DEF Arrive, Admit, Writes, PlainWrites
  <2>3. CASE Serve(r)
    <3>1. CASE \/ Check(r) \/ Refuse(r) \/ Announce(r) \/ SweepFind(r)
               \/ Sweep(r) \/ Claim(r) \/ Release(r)
      BY <3>1 DEF Check, Refuse, Announce, SweepFind, Sweep, Claim, Release, Writes, PlainWrites
    <3>2. QED
      BY <2>3, <3>1, AddWrites, ChangeRoleWrites, ChangeStatusWrites,
         RemoveWrites, DemoteWrites, PromoteWrites, CompensateWrites DEF Serve, Writes
  <2>4. CASE Fail(r)
    <3>1. CASE PromoteFails(r) \/ Abort(r)
      BY <3>1 DEF PromoteFails, Abort, Writes, PlainWrites
    <3>2. QED
      BY <2>4, <3>1, PromoteWrites DEF Fail
  <2>5. QED
    BY <2>1, <2>2, <2>3, <2>4
<1>3. QED
  BY <1>1, <1>2

----------------------------------------------------------------------------
(* The two promises of the collection.                                     *)

\* A write that does not grant ownership creates no owner.
LEMMA OwnersOnlyByGrant ==
  ASSUME TypeOK, PlainWrites,
         NEW d \in Docs, IsOwner(members, d)'
  PROVE  IsOwner(members, d)
<1>1. members \in Collection
  BY DEF TypeOK
<1>2. CASE UNCHANGED members
  BY <1>2 DEF IsOwner, Live
<1>3. ASSUME NEW e \in Docs, NEW u \in Users, NEW role \in AssignableRoles,
             Inserts(e, u, role)
      PROVE  IsOwner(members, d)
  <2>1. members'[e].role = role /\ (d # e => members'[d] = members[d])
    <3>1. /\ Created(members, e, u, role)[e].role = role
          /\ \A g \in Docs \ {e} : Created(members, e, u, role)[g] = members[g]
      BY <1>1 DEF Created, Collection
    <3>2. QED
      BY <1>3, <3>1 DEF Inserts
  <2>2. QED
    BY <1>3, <2>1 DEF IsOwner, Live
<1>4. ASSUME NEW e \in Docs, NEW role \in AssignableRoles,
             Live(members, e), members' = WithRole(members, e, role)
      PROVE  IsOwner(members, d)
  <2>1. members'[e].role = role /\ (d # e => members'[d] = members[d])
    <3>1. /\ WithRole(members, e, role)[e].role = role
          /\ \A g \in Docs \ {e} : WithRole(members, e, role)[g] = members[g]
      <4>1. members[e] \in Membership
        BY <1>1, <1>4, LiveIsMembership
      <4>2. QED
        BY <1>1, <4>1 DEF WithRole, Collection, Membership
    <3>2. QED
      BY <1>4, <3>1
  <2>2. QED
    BY <1>4, <2>1 DEF IsOwner, Live
<1>5. ASSUME NEW e \in Docs, NEW status \in Statuses,
             Live(members, e), members' = WithStatus(members, e, status)
      PROVE  IsOwner(members, d)
  <2>1. /\ members'[e].role = members[e].role
        /\ d # e => members'[d] = members[d]
    <3>1. /\ WithStatus(members, e, status)[e].role = members[e].role
          /\ \A g \in Docs \ {e} : WithStatus(members, e, status)[g] = members[g]
      <4>1. members[e] \in Membership
        BY <1>1, <1>5, LiveIsMembership
      <4>2. QED
        BY <1>1, <4>1 DEF WithStatus, Collection, Membership
    <3>2. QED
      BY <1>5, <3>1
  <2>2. QED
    BY <1>5, <2>1 DEF IsOwner, Live
<1>6. ASSUME NEW e \in Docs, members' = Without(members, e)
      PROVE  IsOwner(members, d)
  <2>1. members'[e] = Deleted /\ (d # e => members'[d] = members[d])
    BY <1>1, <1>6, WithoutCollection
  <2>2. QED
    BY <2>1 DEF IsOwner, Live, Deleted
<1>7. QED
  BY <1>2, <1>3, <1>4, <1>5, <1>6 DEF PlainWrites

LEMMA OneOwnerStep ==
  ASSUME TypeOK, AtMostOneOwner, Writes
  PROVE  AtMostOneOwner'
<1>1. SUFFICES ASSUME NEW d \in Docs, NEW e \in Docs,
                      IsOwner(members, d)', IsOwner(members, e)'
               PROVE  d = e
  BY DEF AtMostOneOwner
<1>2. CASE PlainWrites
  BY <1>1, <1>2, OwnersOnlyByGrant DEF AtMostOneOwner
<1>3. ASSUME NEW f \in Docs, GrantsOwnership(f)
      PROVE  d = e
  <2>1. \A g \in Docs \ {f} : members'[g] = members[g]
    BY <1>3, WithRoleCollection DEF TypeOK, GrantsOwnership
  <2>2. \A g \in Docs \ {f} : ~IsOwner(members, g)'
    BY <1>3, <2>1 DEF GrantsOwnership, OwnerIndexAdmits, IsOwner, Live
  <2>3. QED
    BY <1>1, <2>2
<1>4. QED
  BY <1>2, <1>3 DEF Writes

\* Never two owners: every write that can create one gets past index B.
THEOREM NeverTwoOwners == Spec => []AtMostOneOwner
<1>1. Init => TypeOK /\ AtMostOneOwner
  BY InitTyped DEF Init, AtMostOneOwner, IsOwner, Live, Unissued
<1>2. TypeOK /\ AtMostOneOwner /\ [Next]_vars => TypeOK' /\ AtMostOneOwner'
  BY StepTyped, StepWrites, OneOwnerStep
<1>3. QED
  BY <1>1, <1>2, PTL DEF Spec

\* A write that inserts no membership keeps every live document's user.
LEMMA UsersKept ==
  ASSUME TypeOK, Writes,
         \A d \in Docs, u \in Users, role \in AssignableRoles : ~Inserts(d, u, role),
         NEW d \in Docs, Live(members, d)'
  PROVE  Live(members, d) /\ members'[d].user = members[d].user
<1>1. members \in Collection
  BY DEF TypeOK
<1>2. CASE UNCHANGED members
  BY <1>2 DEF Live
<1>3. ASSUME NEW e \in Docs, NEW role \in Roles,
             Live(members, e), members' = WithRole(members, e, role)
      PROVE  Live(members, d) /\ members'[d].user = members[d].user
  <2>1. /\ members'[e].user = members[e].user
        /\ d # e => members'[d] = members[d]
    <3>1. /\ WithRole(members, e, role)[e].user = members[e].user
          /\ \A g \in Docs \ {e} : WithRole(members, e, role)[g] = members[g]
      <4>1. members[e] \in Membership
        BY <1>1, <1>3, LiveIsMembership
      <4>2. QED
        BY <1>1, <4>1 DEF WithRole, Collection, Membership
    <3>2. QED
      BY <1>3, <3>1
  <2>2. QED
    BY <1>3, <2>1 DEF Live
<1>4. ASSUME NEW e \in Docs, NEW status \in Statuses,
             Live(members, e), members' = WithStatus(members, e, status)
      PROVE  Live(members, d) /\ members'[d].user = members[d].user
  <2>1. /\ members'[e].user = members[e].user
        /\ d # e => members'[d] = members[d]
    <3>1. /\ WithStatus(members, e, status)[e].user = members[e].user
          /\ \A g \in Docs \ {e} : WithStatus(members, e, status)[g] = members[g]
      <4>1. members[e] \in Membership
        BY <1>1, <1>4, LiveIsMembership
      <4>2. QED
        BY <1>1, <4>1 DEF WithStatus, Collection, Membership
    <3>2. QED
      BY <1>4, <3>1
  <2>2. QED
    BY <1>4, <2>1 DEF Live
<1>5. ASSUME NEW e \in Docs, members' = Without(members, e)
      PROVE  Live(members, d) /\ members'[d].user = members[d].user
  <2>1. members'[e] = Deleted /\ (d # e => members'[d] = members[d])
    BY <1>1, <1>5, WithoutCollection
  <2>2. QED
    BY <2>1 DEF Live, Deleted
<1>6. QED
  BY <1>2, <1>3, <1>4, <1>5 DEF Writes, PlainWrites, GrantsOwnership

LEMMA OneMembershipStep ==
  ASSUME TypeOK, OneMembershipPerUser, Writes
  PROVE  OneMembershipPerUser'
<1>1. SUFFICES ASSUME NEW d \in Docs, NEW e \in Docs,
                      Live(members, d)', Live(members, e)',
                      members'[d].user = members'[e].user
               PROVE  d = e
  BY DEF OneMembershipPerUser
<1>2. CASE \A f \in Docs, u \in Users, role \in AssignableRoles : ~Inserts(f, u, role)
  BY <1>1, <1>2, UsersKept DEF OneMembershipPerUser
<1>3. ASSUME NEW f \in Docs, NEW u \in Users, NEW role \in AssignableRoles,
             Inserts(f, u, role)
      PROVE  d = e
  <2>1. /\ members'[f].user = u
        /\ \A g \in Docs \ {f} : members'[g] = members[g]
    <3>1. members \in Collection
      BY DEF TypeOK
    <3>2. /\ Created(members, f, u, role)[f].user = u
          /\ \A g \in Docs \ {f} : Created(members, f, u, role)[g] = members[g]
      BY <3>1 DEF Created, Collection
    <3>3. QED
      BY <1>3, <3>2 DEF Inserts
  <2>2. \A g \in Docs \ {f} : Live(members, g)' => members'[g].user # u
    BY <1>3, <2>1 DEF Inserts, UserIndexAdmits, HasMembership, Live
  <2>3. CASE d = f \/ e = f
    BY <1>1, <2>1, <2>2, <2>3
  <2>4. CASE d # f /\ e # f
    BY <1>1, <2>1, <2>4 DEF OneMembershipPerUser, Live
  <2>5. QED
    BY <2>3, <2>4
<1>4. QED
  BY <1>2, <1>3

\* One membership per user: the only insert gets past index A, and no other
\* write moves a membership from one user to another.
THEOREM NeverTwoMemberships == Spec => []OneMembershipPerUser
<1>1. Init => TypeOK /\ OneMembershipPerUser
  BY InitTyped DEF Init, OneMembershipPerUser, Live, Unissued, Statuses
<1>2. /\ TypeOK /\ OneMembershipPerUser /\ [Next]_vars
      => TypeOK' /\ OneMembershipPerUser'
  BY StepTyped, StepWrites, OneMembershipStep
<1>3. QED
  BY <1>1, <1>2, PTL DEF Spec

----------------------------------------------------------------------------
(* A transfer's window.                                                    *)

\* A request that is served moves on or ends; the others stay where they are.
LEMMA OthersStay ==
  ASSUME TypeOK, NEW r \in Requests, Serve(r) \/ Fail(r),
         NEW s \in Requests, s # r
  PROVE  req'[s] = req[s]
BY DEF TypeOK, Serve, Fail, Check, Refuse, Add, ChangeRole, ChangeStatus, Remove,
       Announce, SweepFind, Sweep, Demote, Promote, Compensate, Claim, Release,
       PromoteFails, PromoteReplyLost, Abort, Finish, Goto

\* An arrival opens no window, and touches no document.
LEMMA ArrivalKeepsWindows ==
  ASSUME TypeOK, NEW r \in Requests, Arrive(r)
  PROVE  /\ \A s \in Requests : InWindow(s)' <=> InWindow(s)
         /\ UNCHANGED <<members, replyLost>>
<1>1. PICK d \in Docs, in \in Inputs : Admit(r, d, in)
  BY DEF Arrive
<1>2. /\ req[r].pc = "idle"
      /\ req'[r].pc \in {"admitted", "checked"}
      /\ \A s \in Requests \ {r} : req'[s] = req[s]
  BY <1>1 DEF TypeOK, Admit, At
<1>3. QED
  BY <1>1, <1>2 DEF Admit, InWindow

\* Where a request that is served goes, as far as windows are concerned.
LEMMA WindowsOpenedByDemote ==
  ASSUME TypeOK, NEW r \in Requests, Serve(r) \/ Fail(r), InWindow(r)'
  PROVE  \/ Demote(r) /\ DemoteMatches(members, req[r].actor)
         \/ Promote(r) /\ UNCHANGED members
         \/ PromoteFails(r)
         \/ PromoteReplyLost(r)
<1>1. req[r] \in Handlers /\ HandlerOK(req[r]) /\ Idle.pc = "idle"
  BY DEF TypeOK, Idle
<1>2. ASSUME Finish(r) PROVE FALSE
  BY <1>1, <1>2 DEF TypeOK, Finish, InWindow
<1>3. ASSUME NEW pc \in {"announce", "find"}, Goto(r, pc) PROVE FALSE
  BY <1>1, <1>3 DEF TypeOK, Goto, InWindow, Handlers
<1>4. CASE Check(r)
  <2>1. req'[r].pc = "checked"
    BY <1>1, <1>4 DEF TypeOK, Check, Handlers
  <2>2. QED
    BY <2>1 DEF InWindow
<1>5. CASE SweepFind(r) \/ Sweep(r)
  <2>1. req'[r].pc = "sweep" \/ Finish(r)
    BY <1>1, <1>5 DEF TypeOK, SweepFind, Sweep, At, Handlers
  <2>2. QED
    BY <1>2, <2>1 DEF InWindow
<1>6. CASE Demote(r)
  BY <1>2, <1>6 DEF Demote
<1>7. CASE Promote(r)
  BY <1>2, <1>7 DEF Promote
<1>8. QED
  BY <1>2, <1>3, <1>4, <1>5, <1>6, <1>7
     DEF Serve, Fail, Refuse, Add, ChangeRole, ChangeStatus, Remove, Announce,
         Compensate, Claim, Release, Abort

\* Only a transfer in its window makes an owner.
LEMMA GrantsInWindow ==
  ASSUME TypeOK, NEW r \in Requests, Serve(r) \/ Fail(r)
  PROVE  PlainWrites \/ Promote(r) \/ PromoteReplyLost(r) \/ Compensate(r)
<1>1. CASE \/ Check(r) \/ Refuse(r) \/ Announce(r) \/ SweepFind(r) \/ Sweep(r)
           \/ Claim(r) \/ Release(r) \/ PromoteFails(r) \/ Abort(r)
  BY <1>1 DEF Check, Refuse, Announce, SweepFind, Sweep, Claim, Release, PromoteFails,
              Abort, PlainWrites
<1>2. QED
  BY <1>1, AddWrites, ChangeRoleWrites, ChangeStatusWrites, RemoveWrites, DemoteWrites
     DEF Serve, Fail

LEMMA WindowStep ==
  ASSUME TypeOK, AtMostOneOwner, TransferWindowExclusive,
         NEW r \in Requests, Serve(r) \/ Fail(r)
  PROVE  TransferWindowExclusive'
<1>1. SUFFICES ASSUME ~replyLost', NEW p \in Requests, InWindow(p)'
               PROVE  /\ ~OwnerExists'
                      /\ \A q \in Requests : InWindow(q)' => q = p
  BY DEF TransferWindowExclusive
<1>2. /\ ~replyLost /\ ~PromoteReplyLost(r)
      /\ \A w \in Requests : InWindow(w) => /\ ~OwnerExists
                                           /\ \A q \in Requests : InWindow(q) => q = w
  BY <1>1 DEF TransferWindowExclusive, TypeOK, Serve, Fail, Check, Refuse, Add, ChangeRole,
              ChangeStatus, Remove, Announce, SweepFind, Sweep, Demote, Promote,
              Compensate, Claim, Release, PromoteFails, PromoteReplyLost, Abort
<1>3. \A q \in Requests \ {r} : InWindow(q)' => InWindow(q)
  BY OthersStay DEF InWindow
<1>4. CASE Demote(r) /\ DemoteMatches(members, req[r].actor)
  \* The owner it demotes was the only one, so no other window was open.
  <2>1. req[r].actor \in Docs
    BY <1>4, TransferDocs DEF Demote, At
  <2>2. OwnerExists /\ \A q \in Requests : ~InWindow(q)
    BY <1>2, <1>4, <2>1 DEF DemoteMatches, OwnerExists
  <2>3. \A d \in Docs : ~IsOwner(members, d)'
    <3>1. members \in Collection /\ Live(members, req[r].actor)
      BY <1>4 DEF TypeOK, DemoteMatches, IsOwner
    <3>2. members' = WithRole(members, req[r].actor, "admin")
      BY <1>4 DEF Demote, PreviousOwnerRole
    <3>3. /\ members'[req[r].actor].role = "admin"
          /\ \A e \in Docs \ {req[r].actor} : members'[e] = members[e]
      <4>1. members[req[r].actor] \in Membership
        BY <2>1, <3>1, LiveIsMembership
      <4>2. QED
        BY <2>1, <3>1, <3>2, <4>1 DEF WithRole, Collection, Membership
    <3>4. QED
      BY <1>4, <2>1, <3>3 DEF AtMostOneOwner, DemoteMatches, IsOwner, Live
  <2>4. QED
    BY <1>1, <1>3, <2>2, <2>3 DEF OwnerExists
<1>5. CASE ~(Demote(r) /\ DemoteMatches(members, req[r].actor))
  \* Whoever is in a window afterwards was in one before.
  <2>1. InWindow(r)' => InWindow(r) /\ UNCHANGED members
    BY <1>2, <1>5, WindowsOpenedByDemote
       DEF InWindow, Promote, PromoteFails, At
  <2>2. InWindow(p) /\ \A q \in Requests : InWindow(q)' => q = p
    BY <1>1, <1>2, <1>3, <2>1
  <2>3. ~OwnerExists
    BY <1>2, <2>2
  <2>4. CASE PlainWrites
    BY <2>2, <2>3, <2>4, OwnersOnlyByGrant DEF OwnerExists
  <2>5. CASE ~PlainWrites
    <3>1. InWindow(r)
      BY <1>2, <2>5, GrantsInWindow DEF InWindow, Promote, Compensate, At
    <3>2. p = r
      BY <2>2, <3>1, <1>2
    <3>3. QED
      BY <1>1, <2>1, <2>5, <3>2 DEF PlainWrites
  <2>6. QED
    BY <2>2, <2>4, <2>5
<1>6. QED
  BY <1>4, <1>5

\* Transfers exclude each other: a window opens by taking the role off the only
\* owner, and while it is open only its own transfer can make one.
THEOREM OneTransferAtATime == Spec => []TransferWindowExclusive
<1> DEFINE IInv == TypeOK /\ AtMostOneOwner /\ TransferWindowExclusive
<1>1. Init => IInv
  BY InitTyped DEF Init, AtMostOneOwner, IsOwner, Live, Unissued,
                   TransferWindowExclusive, InWindow, Idle
<1>2. IInv /\ [Next]_vars => IInv'
  <2>1. SUFFICES ASSUME IInv, [Next]_vars PROVE TransferWindowExclusive'
    BY StepTyped, StepWrites, OneOwnerStep
  <2>2. CASE UNCHANGED vars
    BY <2>1, <2>2 DEF vars, TransferWindowExclusive, InWindow, OwnerExists, IsOwner, Live
  <2>3. CASE Next
    <3>1. PICK r \in Requests : Arrive(r) \/ Serve(r) \/ Fail(r)
      BY <2>3 DEF Next
    <3>2. CASE Arrive(r)
      BY <2>1, <3>2, ArrivalKeepsWindows
         DEF TransferWindowExclusive, OwnerExists, IsOwner, Live
    <3>3. QED
      BY <2>1, <3>1, <3>2, WindowStep
  <2>4. QED
    BY <2>1, <2>2, <2>3
<1>3. IInv => TransferWindowExclusive
  OBVIOUS
<1>4. QED
  BY <1>1, <1>2, <1>3, PTL DEF Spec

----------------------------------------------------------------------------
(* What a step may never do.                                               *)

\* A document that a write leaves alone.
LEMMA UntouchedOwner ==
  ASSUME NEW d \in Docs, members'[d] = members[d]
  PROVE  /\ SuspendedOwner(d)' <=> SuspendedOwner(d)
         /\ IsOwner(members, d)' <=> IsOwner(members, d)
BY DEF SuspendedOwner, IsOwner, Active, Live

\* A document that a status write of the repository leaves behind is no owner's.
LEMMA ChangeStatusSparesOwners ==
  ASSUME TypeOK, NEW r \in Requests, ChangeStatus(r), NEW d \in Docs
  PROVE  \/ members'[d] = members[d]
         \/ ~IsOwner(members, d) /\ ~IsOwner(members, d)'
<1>1. /\ req[r].arg \in Statuses /\ req[r].target \in Docs
      /\ req[r].seen \in Statuses
  BY DEF TypeOK, HandlerOK, ChangeStatus, At, Is, TargetedOps
<1>2. CASE UNCHANGED members
  BY <1>2
<1>3. CASE UpdateStatusMatches(members, req[r].target, req[r].seen)
  <2>1. members \in Collection /\ members[req[r].target] \in Membership
    BY <1>1, <1>3, LiveIsMembership DEF TypeOK, UpdateStatusMatches, Live
  <2>2. members' = WithStatus(members, req[r].target, req[r].arg)
    BY <1>3 DEF ChangeStatus
  <2>3. /\ members'[req[r].target].role = members[req[r].target].role
        /\ d # req[r].target => members'[d] = members[d]
    BY <1>1, <2>1, <2>2 DEF WithStatus, Collection, Membership
  <2>4. QED
    BY <1>3, <2>3 DEF UpdateStatusMatches, IsOwner
<1>4. QED
  BY <1>2, <1>3 DEF ChangeStatus

\* A promotion makes an owner of an active member.
LEMMA PromotedAreActive ==
  ASSUME TypeOK, NEW r \in Requests, Promote(r) \/ PromoteReplyLost(r), NEW d \in Docs
  PROVE  members'[d] = members[d] \/ Active(members, d)'
<1>1. CASE UNCHANGED members
  BY <1>1
<1>2. CASE /\ Active(members, req[r].target)
           /\ members' = WithRole(members, req[r].target, "owner")
  <2>1. req[r].target \in Docs
    BY TransferDocs DEF Promote, PromoteReplyLost, At
  <2>2. members \in Collection /\ members[req[r].target] \in Membership
    BY <1>2, <2>1, LiveIsMembership DEF TypeOK, Active, Live
  <2>3. /\ members'[req[r].target].status = members[req[r].target].status
        /\ d # req[r].target => members'[d] = members[d]
    BY <1>2, <2>1, <2>2 DEF WithRole, Collection, Membership
  <2>4. QED
    BY <1>2, <2>3 DEF Active
<1>3. QED
  BY <1>1, <1>2 DEF Promote, PromoteReplyLost, PromoteMatches

\* Where a compensation lands.
LEMMA CompensationLands ==
  ASSUME TypeOK, NEW r \in Requests, Compensate(r), NEW d \in Docs
  PROVE  members'[d] = members[d] \/ d = req[r].actor
<1>1. members \in Collection
  BY DEF TypeOK
<1>2. QED
  BY <1>1 DEF Compensate, WithRole, Collection

\* A write that is neither a status change nor a grant makes no suspended owner.
LEMMA PlainSuspension ==
  ASSUME TypeOK, NEW r \in Requests, NEW d \in Docs, SuspendedOwner(d)',
         \/ Add(r) \/ ChangeRole(r) \/ Remove(r) \/ Demote(r)
  PROVE  SuspendedOwner(d)
<1>1. members \in Collection /\ IsOwner(members, d)' /\ ~Active(members, d)'
  BY DEF TypeOK, SuspendedOwner
<1>2. IsOwner(members, d)
  BY <1>1, AddWrites, ChangeRoleWrites, RemoveWrites, DemoteWrites, OwnersOnlyByGrant
<1>3. CASE members'[d] = members[d]
  BY <1>3, UntouchedOwner
<1>4. CASE Add(r) /\ members'[d] # members[d]
  <2>1. PICK e \in Docs : members' = Created(members, e, req[r].subject, req[r].arg)
    BY <1>4 DEF Add
  <2>2. e = d /\ members'[d].status = "active"
    BY <1>1, <1>4, <2>1 DEF Created, Collection
  <2>3. QED
    BY <1>1, <2>2 DEF Active
<1>5. CASE ChangeRole(r) /\ members'[d] # members[d]
  <2>1. /\ Live(members, req[r].target) /\ req[r].target \in Docs
        /\ req[r].arg \in AssignableRoles
        /\ members' = WithRole(members, req[r].target, req[r].arg)
    BY <1>5 DEF TypeOK, HandlerOK, ChangeRole, Is, TargetedOps, UpdateRoleMatches
  <2>2. members[req[r].target] \in Membership
    BY <2>1, LiveIsMembership DEF TypeOK
  <2>3. d = req[r].target /\ members'[d].role = req[r].arg
    BY <1>1, <1>5, <2>1, <2>2 DEF WithRole, Collection, Membership
  <2>4. QED
    BY <1>1, <2>1, <2>3 DEF IsOwner
<1>6. CASE Remove(r) /\ members'[d] # members[d]
  <2>1. members'[d] = Deleted
    <3>1. members' = Without(members, req[r].target) /\ req[r].target \in Docs
      BY <1>6 DEF TypeOK, HandlerOK, Remove, Is, TargetedOps
    <3>2. QED
      BY <1>1, <1>6, <3>1, WithoutCollection
  <2>2. QED
    BY <1>1, <2>1 DEF IsOwner, Live, Deleted
<1>7. CASE Demote(r) /\ members'[d] # members[d]
  <2>1. /\ Live(members, req[r].actor) /\ req[r].actor \in Docs
        /\ members' = WithRole(members, req[r].actor, "admin")
    BY <1>7, TransferDocs DEF Demote, At, DemoteMatches, IsOwner, PreviousOwnerRole
  <2>2. members[req[r].actor] \in Membership
    BY <2>1, LiveIsMembership DEF TypeOK
  <2>3. d = req[r].actor /\ members'[d].role = "admin"
    BY <1>1, <1>7, <2>1, <2>2 DEF WithRole, Collection, Membership
  <2>4. QED
    BY <1>1, <2>3 DEF IsOwner
<1>8. QED
  BY <1>3, <1>4, <1>5, <1>6, <1>7

\* A member is suspended as a non-owner or promoted as an active member, so that
\* only a compensation, which looks at the role alone, makes a suspended owner.
THEOREM SuspendedOwnersOnlyRestored == Spec => SuspendedOwnerOnlyByRestore
<1>1. TypeOK /\ [Next]_vars =>
        [\A d \in Docs : SuspendedOwner(d)' =>
           \/ SuspendedOwner(d)
           \/ \E r \in Requests : At(r, "compensate") /\ req[r].actor = d]_vars
  <2>1. SUFFICES ASSUME TypeOK, Next, NEW d \in Docs, SuspendedOwner(d)'
                 PROVE  \/ SuspendedOwner(d)
                        \/ \E r \in Requests : At(r, "compensate") /\ req[r].actor = d
    OBVIOUS
  <2>2. CASE members'[d] = members[d]
    BY <2>1, <2>2, UntouchedOwner
  <2>3. CASE members'[d] # members[d]
    <3>1. PICK r \in Requests : Serve(r) \/ Fail(r)
      BY <2>1, <2>3 DEF Next, Arrive, Admit
    <3>2. CASE ChangeStatus(r)
      BY <2>1, <2>3, <3>2, ChangeStatusSparesOwners DEF SuspendedOwner
    <3>3. CASE Promote(r) \/ PromoteReplyLost(r)
      BY <2>1, <2>3, <3>3, PromotedAreActive DEF SuspendedOwner
    <3>4. CASE Compensate(r)
      BY <2>1, <2>3, <3>4, CompensationLands DEF Compensate
    <3>5. CASE Add(r) \/ ChangeRole(r) \/ Remove(r) \/ Demote(r)
      BY <2>1, <3>5, PlainSuspension
    <3>6. QED
      BY <2>3, <3>1, <3>2, <3>3, <3>4, <3>5
         DEF Serve, Fail, Check, Refuse, Announce, SweepFind, Sweep, Claim, Release,
             PromoteFails, Abort
  <2>4. QED
    BY <2>2, <2>3
<1>2. QED
  BY <1>1, TypeCorrect, PTL DEF Spec, SuspendedOwnerOnlyByRestore

\* What ends a membership's ownership: a role change or a removal aimed at it,
\* or the demote that opens a window.
LEMMA OwnershipEndedBy ==
  ASSUME TypeOK, NEW r \in Requests, Serve(r) \/ Fail(r),
         NEW d \in Docs, IsOwner(members, d), ~IsOwner(members, d)'
  PROVE  \/ /\ At(r, "checked") /\ req[r].op \in {"changeRole", "removeMember"}
            /\ req[r].target = d
         \/ Demote(r) /\ InWindow(r)'
<1>1. members \in Collection /\ members'[d] # members[d] /\ Live(members, d)
  BY UntouchedOwner DEF TypeOK, IsOwner
<1>2. CASE Add(r)
  <2>1. PICK e \in Docs : /\ members[e] = Unissued
                          /\ members' = Created(members, e, req[r].subject, req[r].arg)
    BY <1>1, <1>2 DEF Add
  <2>2. e = d
    BY <1>1, <2>1 DEF Created, Collection
  <2>3. QED
    BY <1>1, <2>1, <2>2 DEF Live, Unissued
<1>3. CASE ChangeRole(r)
  <2>1. req[r].target = d
    BY <1>1, <1>3 DEF ChangeRole, WithRole, Collection
  <2>2. QED
    BY <1>3, <2>1 DEF ChangeRole, Is
<1>4. CASE Remove(r)
  <2>1. req[r].target = d
    BY <1>1, <1>4 DEF Remove, Without, Collection
  <2>2. QED
    BY <1>4, <2>1 DEF Remove, Is
<1>5. CASE Demote(r)
  BY <1>1, <1>5 DEF TypeOK, Handlers, Demote, Goto, InWindow
<1>6. ASSUME NEW e \in Docs, members[e] \in Membership,
             members' = WithRole(members, e, "owner")
      PROVE  FALSE
  <2>1. members'[e].role = "owner" /\ (d # e => members'[d] = members[d])
        /\ members'[e].status = members[e].status
    BY <1>1, <1>6 DEF WithRole, Collection, Membership
  <2>2. QED
    BY <1>1, <2>1 DEF IsOwner, Live
<1>7. CASE Promote(r) \/ PromoteReplyLost(r)
  <2>1. req[r].target \in Docs
    BY <1>7, TransferDocs DEF Promote, PromoteReplyLost, At
  <2>2. /\ Live(members, req[r].target)
        /\ members' = WithRole(members, req[r].target, "owner")
    BY <1>1, <1>7 DEF Promote, PromoteReplyLost, PromoteMatches, Active, Live
  <2>3. QED
    BY <1>1, <1>6, <2>1, <2>2, LiveIsMembership
<1>8. CASE Compensate(r)
  <2>1. req[r].actor \in Docs
    BY <1>8, TransferDocs DEF Compensate, At
  <2>2. /\ Live(members, req[r].actor)
        /\ members' = WithRole(members, req[r].actor, "owner")
    BY <1>1, <1>8 DEF Compensate, RestoreMatches
  <2>3. QED
    BY <1>1, <1>6, <2>1, <2>2, LiveIsMembership
<1>9. QED
  BY <1>1, <1>2, <1>3, <1>4, <1>5, <1>7, <1>8, ChangeStatusSparesOwners
     DEF Serve, Fail, Check, Refuse, Announce, SweepFind, Sweep, Claim, Release,
         PromoteFails, Abort

\* What ends a window that leaves nobody as the owner.
LEMMA WindowEndedBy ==
  ASSUME TypeOK, NEW r \in Requests, Serve(r) \/ Fail(r),
         InWindow(r), ~InWindow(r)', ~OwnerExists, ~OwnerExists'
  PROVE  \/ Compensate(r) /\ ~RestoreMatches(members, req[r].actor, PreviousOwnerRole)
         \/ Abort(r)
<1>1. /\ req[r].actor \in Docs /\ req[r].target \in Docs
      /\ members \in Collection /\ req[r] \in Handlers
  BY TransferDocs DEF TypeOK, InWindow, At
<1>2. ASSUME NEW e \in Docs, Live(members, e), members' = WithRole(members, e, "owner")
      PROVE  FALSE
  <2>1. members[e] \in Membership
    BY <1>1, <1>2, LiveIsMembership
  <2>2. members'[e].role = "owner" /\ members'[e].status = members[e].status
    BY <1>1, <1>2, <2>1 DEF WithRole, Collection, Membership
  <2>3. QED
    BY <1>2, <2>2 DEF OwnerExists, IsOwner, Live
<1>3. ASSUME Goto(r, "compensate") PROVE FALSE
  BY <1>1, <1>3 DEF TypeOK, Handlers, Goto, InWindow
<1>4. CASE Promote(r)
  BY <1>1, <1>2, <1>3, <1>4 DEF Promote, PromoteMatches, Active, Live
<1>5. CASE PromoteFails(r) \/ PromoteReplyLost(r)
  BY <1>3, <1>5 DEF PromoteFails, PromoteReplyLost
<1>6. CASE Compensate(r)
  <2>1. OwnerIndexAdmits(members, req[r].actor)
    BY DEF OwnerIndexAdmits, OwnerExists
  <2>2. QED
    BY <1>1, <1>2, <1>6, <2>1 DEF Compensate, RestoreMatches
<1>7. QED
  BY <1>4, <1>5, <1>6
     DEF Serve, Fail, InWindow, At, Check, Refuse, Add, ChangeRole, ChangeStatus, Remove,
         Announce, SweepFind, Sweep, Demote, Claim, Release

\* Between the demote and the last write of a transfer nothing but the listed
\* steps leaves the organization with neither an owner nor a transfer.
THEOREM OwnershipNotLostOtherwise == Spec => OwnershipLostOnlyBy
<1>1. TypeOK /\ [Next]_vars =>
        [OwnershipKept /\ ~OwnershipKept' =>
           \E r \in Requests : MayLoseOwnership(r)]_vars
  <2>1. SUFFICES ASSUME TypeOK, Next, OwnershipKept, ~OwnershipKept'
                 PROVE  \E r \in Requests : MayLoseOwnership(r)
    OBVIOUS
  <2>2. PICK r \in Requests : Arrive(r) \/ Serve(r) \/ Fail(r)
    BY <2>1 DEF Next
  <2>3. CASE Arrive(r)
    BY <2>1, <2>3, ArrivalKeepsWindows DEF OwnershipKept, OwnerExists, IsOwner, Live
  <2>4. CASE (Serve(r) \/ Fail(r)) /\ OwnerExists
    <3>1. PICK d \in Docs : IsOwner(members, d)
      BY <2>4 DEF OwnerExists
    <3>2. ~IsOwner(members, d)' /\ ~InWindow(r)'
      BY <2>1 DEF OwnershipKept, OwnerExists
    <3>3. MayLoseOwnership(r)
      BY <2>1, <2>4, <3>1, <3>2, OwnershipEndedBy DEF MayLoseOwnership
    <3>4. QED
      BY <3>3
  <2>5. CASE (Serve(r) \/ Fail(r)) /\ ~OwnerExists
    <3>1. InWindow(r)
      <4>1. PICK s \in Requests : InWindow(s)
        BY <2>1, <2>5 DEF OwnershipKept
      <4>2. s # r => InWindow(s)'
        BY <2>1, <2>5, <4>1, OthersStay DEF InWindow
      <4>3. QED
        BY <2>1, <4>1, <4>2 DEF OwnershipKept
    <3>2. ~InWindow(r)' /\ ~OwnerExists'
      BY <2>1 DEF OwnershipKept
    <3>3. MayLoseOwnership(r)
      BY <2>1, <2>5, <3>1, <3>2, WindowEndedBy DEF MayLoseOwnership, Compensate
    <3>4. QED
      BY <3>3
  <2>6. QED
    BY <2>2, <2>3, <2>4, <2>5
<1>2. QED
  BY <1>1, TypeCorrect, PTL DEF Spec, OwnershipLostOnlyBy

\* Claims and releases share one filter and the sweep clears: nobody takes a
\* conversation somebody else holds.
THEOREM NobodyTakesAnothersConversation == Spec => NoAssignmentTheft
<1>1. TypeOK /\ [Next]_vars =>
        [\A c \in Convs :
           assignee'[c] \in {assignee[c], NoUser} \/ assignee[c] = NoUser]_vars
  <2>1. SUFFICES ASSUME TypeOK, Next, NEW c \in Convs
                 PROVE  assignee'[c] \in {assignee[c], NoUser} \/ assignee[c] = NoUser
    OBVIOUS
  <2>2. PICK r \in Requests : Arrive(r) \/ Serve(r) \/ Fail(r)
    BY <2>1 DEF Next
  <2>3. assignee \in [Convs -> Users \cup {NoUser}]
    BY <2>1 DEF TypeOK
  <2>4. CASE UNCHANGED assignee
    BY <2>4
  <2>5. CASE Sweep(r)
    BY <2>3, <2>5 DEF Sweep
  <2>6. CASE Claim(r)
    BY <2>3, <2>6 DEF Claim
  <2>7. CASE Release(r)
    BY <2>3, <2>7 DEF Release
  <2>8. QED
    BY <2>2, <2>4, <2>5, <2>6, <2>7
       DEF Arrive, Admit, Serve, Check, Refuse, Add, ChangeRole, ChangeStatus, Remove,
           Announce, SweepFind, Demote, Promote, Compensate, Fail, PromoteFails,
           PromoteReplyLost, Abort
<1>2. QED
  BY <1>1, TypeCorrect, PTL DEF Spec, NoAssignmentTheft
=============================================================================
