------------------------- MODULE AgentSocketsProofs -------------------------
(***************************************************************************)
(* Theorems about the agents' half of the socket gateway, composed with    *)
(* team administration, for every number of sockets, users and handlers.   *)
(***************************************************************************)
EXTENDS AgentSockets, TeamProofs

USE DEF Roles, Statuses, AssignableRoles

\* A handler ends before it has announced its revocation.
Ends(r) == At(r, "announce") /\ Finish(r) /\ UNCHANGED <<members, assignee, replyLost>>

\* What a step of the gateway is to the team: one of its steps, nothing, such an
\* end, or a restart, which forgets every handler.
LEMMA GatewaySteps ==
  ASSUME [GatewayNext]_all
  PROVE  [Next]_vars \/ Restart \/ \E r \in Requests : Ends(r)
<1>1. CASE \E r \in Requests : Resume(r) \/ Arrive(r)
  BY <1>1 DEF Resume, Publish, Serve, Next
<1>2. CASE ~\E r \in Requests : Resume(r) \/ Arrive(r)
  BY <1>2 DEF GatewayNext, Connect, ReadMembership, JoinInbox, Disconnect,
              DisconnectFetched, GiveUp, Ends, all
<1>3. QED
  BY <1>1, <1>2

LEMMA TeamTypedStep ==
  ASSUME TypeOK, [GatewayNext]_all
  PROVE  TypeOK'
<1>1. CASE [Next]_vars
  BY <1>1, StepTyped
<1>2. CASE Restart
  BY <1>2, IdleHandler DEF Restart, TypeOK
<1>3. ASSUME NEW r \in Requests, Ends(r) PROVE TypeOK'
  BY <1>3, IdleHandler DEF Ends, Finish, TypeOK
<1>4. QED
  BY <1>1, <1>2, <1>3, GatewaySteps

----------------------------------------------------------------------------
(* Type correctness.                                                       *)

LEMMA ClosedConnection == Closed \in Connections /\ Closed.pc = "none" /\ Closed.user = NoUser
BY DEF Closed, Connections

\* Whatever connections end, the rest stays as it was.
LEMMA DropTyped ==
  ASSUME GatewayTypeOK, TypeOK', NEW gone \in SUBSET Sockets, Drop(gone)
  PROVE  GatewayTypeOK'
BY ClosedConnection DEF GatewayTypeOK, Drop, Stage

LEMMA StageTyped ==
  ASSUME GatewayTypeOK, TypeOK', NEW s \in Sockets, NEW u \in Users,
         NEW pc \in {"handshake", "proved", "joined"},
         sock' = [sock EXCEPT ![s] = [pc |-> pc, user |-> u]],
         \/ Stage(s, "none") \/ Stage(s, "handshake")
         \/ pc = "joined",
         UNCHANGED <<closing, overtaken>>
  PROVE  GatewayTypeOK'
<1>1. sock' \in [Sockets -> Connections]
  BY DEF GatewayTypeOK, Connections
<1>2. u # NoUser
  BY NoUserAssumption
<1>3. QED
  BY <1>1, <1>2 DEF GatewayTypeOK, Connections, Stage

LEMMA PublishTyped ==
  ASSUME GatewayTypeOK, TypeOK', NEW r \in Requests, Publish(r)
  PROVE  GatewayTypeOK'
BY DEF GatewayTypeOK, Publish, SocketsOf, Stage

LEMMA GiveUpTyped ==
  ASSUME GatewayTypeOK, TypeOK', NEW r \in Requests, GiveUp(r)
  PROVE  GatewayTypeOK'
BY DEF GatewayTypeOK, GiveUp, SocketsOf, Stage

LEMMA GatewayTypedStep ==
  ASSUME GatewayTypeOK, [GatewayNext]_all
  PROVE  GatewayTypeOK'
<1>1. TypeOK'
  BY TeamTypedStep DEF GatewayTypeOK
<1>2. CASE UNCHANGED gateway
  BY <1>1, <1>2 DEF GatewayTypeOK, gateway, Stage
<1>3. ASSUME NEW r \in Requests, Publish(r)
      PROVE  GatewayTypeOK'
  BY <1>1, <1>3, PublishTyped
<1>4. ASSUME NEW s \in Sockets, NEW u \in Listeners, Connect(s, u)
      PROVE  GatewayTypeOK'
  BY <1>1, <1>4, StageTyped, SocketsAssumption DEF Connect
<1>5. ASSUME NEW s \in Sockets, ~Stage(s, "none")
      PROVE  /\ sock[s] \in Connections /\ sock[s].user \in Users
             /\ \A pc : [sock EXCEPT ![s].pc = pc]
                          = [sock EXCEPT ![s] = [pc |-> pc, user |-> sock[s].user]]
  BY <1>5 DEF GatewayTypeOK, Connections
<1>6. ASSUME NEW s \in Sockets, ReadMembership(s)
      PROVE  GatewayTypeOK'
  <2>1. CASE Drop({s})
    BY <1>1, <2>1, DropTyped
  <2>2. CASE ~Drop({s})
    BY <1>1, <1>5, <1>6, <2>2, StageTyped DEF ReadMembership, Stage
  <2>3. QED
    BY <2>1, <2>2
<1>7. ASSUME NEW s \in Sockets, JoinInbox(s)
      PROVE  GatewayTypeOK'
  BY <1>1, <1>5, <1>7, StageTyped DEF JoinInbox, Stage
<1>8. ASSUME NEW s \in Sockets, Disconnect(s)
      PROVE  GatewayTypeOK'
  BY <1>1, <1>8, DropTyped DEF Disconnect
<1>9. CASE DisconnectFetched
  BY <1>1, <1>9, DropTyped DEF DisconnectFetched, GatewayTypeOK
<1>10. CASE Restart
  BY <1>1, <1>10, DropTyped DEF Restart
<1>11. ASSUME NEW r \in Requests, GiveUp(r)
       PROVE  GatewayTypeOK'
  BY <1>1, <1>11, GiveUpTyped
<1>12. QED
  BY <1>2, <1>3, <1>4, <1>6, <1>7, <1>8, <1>9, <1>10, <1>11
     DEF GatewayNext, Resume, gateway, all

\* Every socket is on its way to the inbox room or in it, and the subscriber's
\* list holds sockets of the room, whatever ends while the list is fetched.
THEOREM GatewayTypeCorrect == GatewaySpec => []GatewayTypeOK
<1>1. GatewayInit => GatewayTypeOK
  BY InitTyped, ClosedConnection DEF GatewayInit, GatewayTypeOK, Stage
<1>2. GatewayTypeOK /\ [GatewayNext]_all => GatewayTypeOK'
  BY GatewayTypedStep
<1>3. QED
  BY <1>1, <1>2, PTL DEF GatewaySpec

----------------------------------------------------------------------------
(* Stale sockets.                                                          *)

\* A membership never changes hands and a document id is never issued again.
LEMMA IssuedKept ==
  ASSUME TypeOK, Writes, NEW d \in Docs, members[d].status # "unissued"
  PROVE  /\ members'[d].status # "unissued"
         /\ Live(members, d)' => /\ Live(members, d)
                                 /\ members'[d].user = members[d].user
<1>1. members \in Collection
  BY DEF TypeOK
<1>2. CASE members'[d] = members[d]
  BY <1>2 DEF Live
<1>3. ASSUME NEW u \in Users, NEW role \in AssignableRoles, NEW e \in Docs,
             Inserts(e, u, role)
      PROVE  members'[d] = members[d]
  BY <1>1, <1>3 DEF Inserts, Created, Collection, Unissued
<1>4. ASSUME NEW e \in Docs, Live(members, e),
             \/ \E role \in Roles : members' = WithRole(members, e, role)
             \/ \E status \in Statuses : members' = WithStatus(members, e, status)
             \/ members' = Without(members, e)
      PROVE  \/ members'[d] = members[d] 
             \/ /\ Live(members, d)
                /\ members'[d].user = members[d].user /\ members'[d].status \in Statuses
             \/ members'[d] = Deleted
  <2>1. members[e] \in Membership
    BY <1>1, <1>4, LiveIsMembership
  <2>2. QED
    BY <1>1, <1>4, <2>1
       DEF WithRole, WithStatus, Without, Collection, Membership, Live
<1>5. QED
  BY <1>2, <1>3, <1>4 DEF Writes, PlainWrites, GrantsOwnership, Live, Deleted

\* What ends a person's membership is a handler that goes on to announce it.
LEMMA MembershipEndedBy ==
  ASSUME TypeOK, NEW r \in Requests, Serve(r),
         NEW u \in Users, ActiveMember(members, u), ~ActiveMember(members, u)'
  PROVE  /\ At(r, "checked") /\ req[r].op \in {"changeStatus", "removeMember"}
         /\ Live(members, req[r].target) /\ members[req[r].target].user = u
         /\ At(r, "announce")' /\ req'[r].subject = req[r].subject
<1>1. PICK d \in Docs : Active(members, d) /\ members[d].user = u
  BY DEF ActiveMember
<1>2. /\ members \in Collection /\ Live(members, d) /\ members[d] \in Membership
      /\ ~(Active(members, d)' /\ members'[d].user = u)
  BY <1>1, LiveIsMembership DEF TypeOK, ActiveMember, Active, Live
<1>3. ASSUME NEW e \in Docs, NEW role \in Roles, Live(members, e),
             members' = WithRole(members, e, role)
      PROVE  FALSE
  <2>1. members[e] \in Membership
    BY <1>2, <1>3, LiveIsMembership
  <2>2. /\ members'[e].user = members[e].user /\ members'[e].status = members[e].status
        /\ d # e => members'[d] = members[d]
    BY <1>2, <1>3, <2>1 DEF WithRole, Collection, Membership
  <2>3. QED
    BY <1>1, <1>2, <2>2 DEF Active
<1>4. CASE Add(r)
  <2>1. UNCHANGED members \/ \E e \in Docs :
          /\ members[e] = Unissued
          /\ members' = Created(members, e, req[r].subject, req[r].arg)
    BY <1>4 DEF Add
  <2>2. members'[d] = members[d]
    BY <1>1, <1>2, <2>1 DEF Created, Collection, Active, Unissued
  <2>3. QED
    BY <1>1, <1>2, <2>2 DEF Active
<1>5. CASE ChangeRole(r) \/ Demote(r) \/ Promote(r) \/ Compensate(r)
  <2>1. req[r].op \in {"changeRole", "transferOwnership"} =>
          /\ req[r].actor \in Docs /\ req[r].target \in Docs
          /\ Is(r, "changeRole") => req[r].arg \in Roles
    BY <1>5 DEF TypeOK, HandlerOK, ChangeRole, Demote, Promote, Compensate, At, Is, TargetedOps
  <2>2. req[r].op \in {"changeRole", "transferOwnership"}
    BY <1>5, TransferDocs DEF ChangeRole, Demote, Promote, Compensate, At, Is
  <2>3. \/ UNCHANGED members
        \/ \E e \in Docs, role \in Roles :
             Live(members, e) /\ members' = WithRole(members, e, role)
    BY <1>5, <2>1, <2>2 DEF ChangeRole, Demote, Promote, Compensate, UpdateRoleMatches,
       DemoteMatches, PromoteMatches, RestoreMatches, IsOwner, Active, Live, PreviousOwnerRole
  <2>4. QED
    BY <1>1, <1>2, <1>3, <2>3 DEF Active
<1>6. CASE ChangeStatus(r)
  <2>1. /\ req[r].target \in Docs /\ req[r].arg \in Statuses /\ req[r].seen \in Statuses
        /\ req[r] \in Handlers
    BY <1>6 DEF TypeOK, HandlerOK, ChangeStatus, At, Is, TargetedOps
  <2>2. /\ UpdateStatusMatches(members, req[r].target, req[r].seen)
        /\ members' = WithStatus(members, req[r].target, req[r].arg)
    BY <1>1, <1>2, <1>6 DEF ChangeStatus, Active
  <2>3. Live(members, req[r].target)
    BY <2>1, <2>2 DEF UpdateStatusMatches, Live
  <2>4. d = req[r].target /\ req[r].arg = "suspended"
    <3>1. members[req[r].target] \in Membership
      BY <1>2, <2>1, <2>3, LiveIsMembership
    <3>2. /\ members'[req[r].target].user = members[req[r].target].user
          /\ members'[req[r].target].status = req[r].arg
          /\ d # req[r].target => members'[d] = members[d]
      BY <1>2, <2>1, <2>2, <3>1 DEF WithStatus, Collection, Membership
    <3>3. QED
      BY <1>1, <1>2, <2>1, <3>2 DEF Active
  <2>5. Goto(r, "announce")
    BY <1>6, <2>2, <2>4 DEF ChangeStatus
  <2>6. QED
    BY <1>1, <1>6, <2>1, <2>3, <2>4, <2>5 DEF TypeOK, Handlers, ChangeStatus, Goto, At, Is
<1>7. CASE Remove(r)
  <2>1. /\ req[r].target \in Docs /\ req[r] \in Handlers
    BY <1>7 DEF TypeOK, HandlerOK, Remove, Is, TargetedOps
  <2>2. members' = Without(members, req[r].target) /\ Goto(r, "announce")
    BY <1>1, <1>2, <1>7 DEF Remove, Active
  <2>3. d = req[r].target
    BY <1>1, <1>2, <2>1, <2>2, WithoutCollection DEF Active
  <2>4. QED
    BY <1>1, <1>2, <1>7, <2>1, <2>2, <2>3 DEF TypeOK, Handlers, Remove, Goto, At, Is
<1>8. QED
  BY <1>1, <1>2, <1>4, <1>5, <1>6, <1>7
     DEF Serve, Check, Refuse, Announce, SweepFind, Sweep, Claim, Release, Active

\* A handler that passed its checks on a membership knows whose it is, for as
\* long as the document is there: ids are not issued twice.
SubjectIsTargets ==
  \A r \in Requests :
    At(r, "checked") /\ req[r].op \in TargetedOps =>
      /\ members[req[r].target].status # "unissued"
      /\ Live(members, req[r].target) => members[req[r].target].user = req[r].subject

LEMMA SubjectStep ==
  ASSUME TypeOK, SubjectIsTargets,
         [Next]_vars \/ Restart \/ \E r \in Requests : Ends(r)
  PROVE  SubjectIsTargets'
<1>1. SUFFICES ASSUME NEW r \in Requests, At(r, "checked")', req'[r].op \in TargetedOps
               PROVE  /\ members'[req'[r].target].status # "unissued"
                      /\ Live(members, req[r].target)' =>
                           members'[req'[r].target].user = req'[r].subject
  BY DEF SubjectIsTargets
<1>2. /\ req[r] \in Handlers /\ HandlerOK(req[r]) /\ Idle.pc = "idle"
      /\ members \in Collection
  BY DEF TypeOK, Idle
<1>3. CASE Restart
  BY <1>1, <1>2, <1>3 DEF Restart, At
<1>4. CASE [Next]_vars /\ req'[r] = req[r]
  <2>1. /\ req[r].target \in Docs /\ members[req[r].target].status # "unissued"
        /\ Live(members, req[r].target) => members[req[r].target].user = req[r].subject
    BY <1>1, <1>2, <1>4 DEF SubjectIsTargets, At, HandlerOK
  <2>2. QED
    BY <1>1, <1>4, <2>1, StepWrites, IssuedKept DEF Live
<1>5. CASE [Next]_vars /\ req'[r] # req[r]
  <2>1. PICK q \in Requests : Arrive(q) \/ Serve(q) \/ Fail(q)
    BY <1>5 DEF Next, vars
  <2>2. q = r
    BY <1>5, <2>1, OthersStay DEF Arrive, Admit, TypeOK
  <2>3. ~Arrive(r)
    BY <1>1, <1>2 DEF Arrive, Admit, TypeOK, At, TargetedOps
  <2>4. ~Finish(r) /\ \A pc \in Pcs \ {"checked"} : ~Goto(r, pc)
    BY <1>1, <1>2 DEF Finish, Goto, TypeOK, At, Handlers
  <2>5. ~SweepFind(r) /\ ~Sweep(r)
    BY <1>1, <1>2, <2>4 DEF SweepFind, Sweep, TypeOK, At, Handlers
  <2>6. Check(r)
    BY <2>1, <2>2, <2>3, <2>4, <2>5
       DEF Pcs, Serve, Fail, Refuse, Add, ChangeRole, ChangeStatus, Remove, Announce, Demote,
           Promote, Compensate, Claim, Release, PromoteFails, PromoteReplyLost, Abort
  <2>7. req[r].op = req'[r].op /\ ~Is(r, "addMember")
    BY <1>1, <1>2, <2>6 DEF Check, TypeOK, Handlers, Is, TargetedOps
  <2>8. /\ Live(members, req[r].target)
        /\ req'[r].subject = members[req[r].target].user
        /\ req'[r].target = req[r].target
        /\ UNCHANGED members
    BY <1>2, <2>6, <2>7
       DEF Check, Allowed, Is, TransferAllowed, Writeable, TypeOK, Handlers
  <2>9. QED
    BY <2>8 DEF Live, Statuses
<1>6. ASSUME NEW q \in Requests, Ends(q)
      PROVE  /\ members'[req'[r].target].status # "unissued"
             /\ Live(members, req[r].target)' => members'[req'[r].target].user = req'[r].subject
  <2>1. q # r /\ req'[r] = req[r] /\ UNCHANGED members
    BY <1>1, <1>2, <1>6 DEF Ends, Finish, At, TypeOK
  <2>2. QED
    BY <1>1, <2>1 DEF SubjectIsTargets, At, Live
<1>7. QED
  BY <1>3, <1>4, <1>5, <1>6

\* The stronger form of the property that is inductive: it covers the
\* connections that have read their membership and not yet joined.
Excused(s, u) ==
  (sock[s].user = u /\ sock[s].pc \in {"proved", "joined"} /\ ~ActiveMember(members, u)) =>
    s \in closing \cup overtaken \/ RevocationDue(u)

NoneUnexcused == \A s \in Sockets, u \in Users : Excused(s, u)

\* As long as no handler at its announcement moves on, nothing becomes
\* inexcusable by what the team does.
LEMMA TeamKeepsExcuses ==
  ASSUME TypeOK, SubjectIsTargets, NEW r \in Requests, NEW u \in Users,
         Arrive(r) \/ (Serve(r) /\ ~At(r, "announce")),
         ActiveMember(members, u) \/ RevocationDue(u)
  PROVE  ActiveMember(members, u)' \/ RevocationDue(u)'
<1>1. CASE RevocationDue(u)
  <2>1. PICK q \in Requests : At(q, "announce") /\ req[q].subject = u
    BY <1>1 DEF RevocationDue
  <2>2. q # r
    BY <2>1 DEF Arrive, Admit, At
  <2>3. req'[q] = req[q]
    BY <2>2, OthersStay DEF Arrive, Admit, TypeOK
  <2>4. QED
    BY <2>1, <2>3 DEF RevocationDue, At
<1>2. CASE ActiveMember(members, u) /\ Arrive(r)
  BY <1>2 DEF Arrive, Admit, ActiveMember, Active
<1>3. CASE ActiveMember(members, u) /\ Serve(r) /\ ~ActiveMember(members, u)'
  <2>1. req[r].subject = u
    BY <1>3, MembershipEndedBy DEF SubjectIsTargets, TargetedOps
  <2>2. QED
    BY <1>3, <2>1, MembershipEndedBy DEF RevocationDue
<1>4. QED
  BY <1>1, <1>2, <1>3

LEMMA ExcusesKept ==
  ASSUME GatewayTypeOK, SubjectIsTargets, NoneUnexcused, [GatewayNext]_all
  PROVE  NoneUnexcused'
<1>1. SUFFICES ASSUME NEW s \in Sockets, NEW u \in Users,
                      sock'[s].user = u, sock'[s].pc \in {"proved", "joined"},
                      ~ActiveMember(members, u)'
               PROVE  s \in closing' \cup overtaken' \/ RevocationDue(u)'
  BY DEF NoneUnexcused, Excused
<1>2. TypeOK /\ sock[s] \in Connections /\ u # NoUser
  BY NoUserAssumption DEF GatewayTypeOK
<1>3. CASE UNCHANGED all
  BY <1>1, <1>3 DEF NoneUnexcused, Excused, all, vars, gateway, ActiveMember, Active,
                    RevocationDue, At
<1>4. ASSUME NEW gone \in SUBSET Sockets, Drop(gone), UNCHANGED vars
      PROVE  s \in closing' \cup overtaken' \/ RevocationDue(u)'
  <2>1. s \notin gone /\ sock'[s] = sock[s]
    BY <1>1, <1>2, <1>4, ClosedConnection DEF Drop
  <2>2. QED
    BY <1>1, <1>4, <2>1
       DEF NoneUnexcused, Excused, Drop, vars, ActiveMember, Active, RevocationDue, At
<1>5. ASSUME NEW r \in Requests, Arrive(r) \/ (Serve(r) /\ ~At(r, "announce")),
             UNCHANGED gateway
      PROVE  s \in closing' \cup overtaken' \/ RevocationDue(u)'
  BY <1>1, <1>2, <1>5, TeamKeepsExcuses DEF NoneUnexcused, Excused, gateway
<1>6. ASSUME NEW r \in Requests, Publish(r)
      PROVE  s \in closing' \cup overtaken' \/ RevocationDue(u)'
  <2>1. sock'[s] = sock[s] /\ ~ActiveMember(members, u)
    BY <1>1, <1>6 DEF Publish, Announce, ActiveMember, Active
  <2>2. CASE s \in closing \cup overtaken
    BY <1>6, <2>2 DEF Publish
  <2>3. CASE s \notin closing \cup overtaken
    <3>1. PICK q \in Requests : At(q, "announce") /\ req[q].subject = u
      BY <1>1, <2>1, <2>3 DEF NoneUnexcused, Excused, RevocationDue
    <3>2. CASE q = r
      BY <1>1, <1>6, <2>1, <3>1, <3>2 DEF Publish, SocketsOf, Stage
    <3>3. CASE q # r
      BY <1>6, <3>1, <3>3 DEF Publish, Announce, Goto, RevocationDue, At, GatewayTypeOK, TypeOK
    <3>4. QED
      BY <3>2, <3>3
  <2>4. QED
    BY <2>2, <2>3
<1>7. ASSUME NEW c \in Sockets,
             \/ \E v \in Listeners : Connect(c, v)
             \/ ReadMembership(c) /\ ~Drop({c})
             \/ JoinInbox(c)
      PROVE  s \in closing' \cup overtaken' \/ RevocationDue(u)'
  <2>1. UNCHANGED <<vars, closing, overtaken>>
    BY <1>7 DEF Connect, ReadMembership, JoinInbox
  <2>2. CASE s # c \/ JoinInbox(c)
    <3>1. sock[s].user = u /\ sock[s].pc \in {"proved", "joined"}
      BY <1>1, <1>2, <1>7, <2>2
         DEF Connect, ReadMembership, JoinInbox, GatewayTypeOK, Connections, Stage
    <3>2. QED
      BY <1>1, <2>1, <3>1
         DEF NoneUnexcused, Excused, vars, ActiveMember, Active, RevocationDue, At
  <2>3. CASE s = c /\ ~JoinInbox(c)
    <3>1. sock[s].user = u /\ MayListen(u) /\ UNCHANGED members
      BY <1>1, <1>2, <1>7, <2>3
         DEF Connect, ReadMembership, GatewayTypeOK, Connections, Stage, vars
    <3>2. QED
      BY <1>1, <3>1 DEF MayListen, ActiveMember, Active
  <2>4. QED
    BY <2>2, <2>3
<1>8. CASE Restart
  BY <1>1, <1>2, <1>8, ClosedConnection DEF Restart, Drop
<1>9. ASSUME NEW c \in Sockets, ReadMembership(c) \/ JoinInbox(c) \/ Disconnect(c)
      PROVE  s \in closing' \cup overtaken' \/ RevocationDue(u)'
  <2>1. CASE Drop({c})
    BY <1>4, <1>9, <2>1 DEF ReadMembership, JoinInbox, Disconnect, vars
  <2>2. QED
    BY <1>7, <1>9, <2>1 DEF Disconnect
<1>10. CASE DisconnectFetched
  BY <1>4, <1>10 DEF DisconnectFetched, GatewayTypeOK
<1>11. CASE \E r \in Requests : Resume(r) \/ (Arrive(r) /\ UNCHANGED gateway)
  BY <1>5, <1>6, <1>11 DEF Resume
<1>12. ASSUME NEW r \in Requests, GiveUp(r)
       PROVE  s \in closing' \cup overtaken' \/ RevocationDue(u)'
  <2>1. /\ sock'[s] = sock[s] /\ ~ActiveMember(members, u)
        /\ closing' = closing /\ overtaken \subseteq overtaken'
    BY <1>1, <1>12 DEF GiveUp, ActiveMember, Active
  <2>2. CASE s \in closing \cup overtaken
    BY <2>1, <2>2
  <2>3. CASE s \notin closing \cup overtaken
    <3>1. PICK q \in Requests : At(q, "announce") /\ req[q].subject = u
      BY <1>1, <2>1, <2>3 DEF NoneUnexcused, Excused, RevocationDue
    <3>2. CASE q = r
      BY <1>1, <1>12, <2>1, <3>1, <3>2 DEF GiveUp, SocketsOf
    <3>3. CASE q # r
      BY <1>12, <3>1, <3>3 DEF GiveUp, Finish, RevocationDue, At, GatewayTypeOK, TypeOK
    <3>4. QED
      BY <3>2, <3>3
  <2>4. QED
    BY <2>2, <2>3
<1>13. QED
  BY <1>3, <1>7, <1>8, <1>9, <1>10, <1>11, <1>12 DEF GatewayNext

\* Nobody but members listens, except while the revocation is on its way, when
\* a handshake straddled it, or when it was reported as failed and so never
\* published.
THEOREM OnlyHandshakesLeaveStaleSockets == GatewaySpec => []StaleSocketOnlyByHandshake
<1> DEFINE IInv == GatewayTypeOK /\ SubjectIsTargets /\ NoneUnexcused
<1>1. GatewayInit => IInv
  <2>1. SUFFICES ASSUME GatewayInit PROVE IInv
    OBVIOUS
  <2>2. GatewayTypeOK
    BY <2>1, InitTyped, ClosedConnection DEF GatewayInit, GatewayTypeOK, Stage
  <2>3. SubjectIsTargets
    BY <2>1 DEF GatewayInit, Init, SubjectIsTargets, At, Idle
  <2>4. NoneUnexcused
    BY <2>1, ClosedConnection DEF GatewayInit, NoneUnexcused, Excused
  <2>5. QED
    BY <2>2, <2>3, <2>4
<1>2. IInv /\ [GatewayNext]_all => IInv'
  BY GatewayTypedStep, GatewaySteps, SubjectStep, ExcusesKept DEF GatewayTypeOK
<1>3. IInv => StaleSocketOnlyByHandshake
  BY DEF NoneUnexcused, Excused, StaleSocketOnlyByHandshake, Stale, Joined
<1>4. QED
  BY <1>1, <1>2, <1>3, PTL DEF GatewaySpec
=============================================================================
