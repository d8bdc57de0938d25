----------------------- MODULE MembershipStoreProofs -----------------------
(***************************************************************************)
(* What the repository's writes do to the collection: they keep its type,  *)
(* touch one document, and keep what the two unique indexes promise.       *)
(***************************************************************************)
EXTENDS MembershipStore, TLAPS

USE DEF Roles, Statuses

\* A live document is a membership.
LEMMA LiveIsMembership ==
  ASSUME NEW m \in Collection, NEW d \in Docs, Live(m, d)
  PROVE  m[d] \in Membership
BY DEF Collection, Live, Unissued, Deleted, Membership

\* A document that is not live is no owner and has no user.
LEMMA NotLive ==
  ASSUME NEW m \in Collection, NEW d \in Docs, ~Live(m, d)
  PROVE  m[d] \in {Unissued, Deleted} /\ ~IsOwner(m, d)
BY DEF Collection, Live, IsOwner, Membership

\* create: a new active membership, and nothing else changes.
LEMMA CreatedCollection ==
  ASSUME NEW m \in Collection, NEW d \in Docs, NEW u \in Users,
         NEW role \in Roles
  PROVE  /\ Created(m, d, u, role) \in Collection
         /\ Created(m, d, u, role)[d] =
              [user |-> u, role |-> role, status |-> "active"]
         /\ \A e \in Docs \ {d} : Created(m, d, u, role)[e] = m[e]
BY DEF Collection, Created, Membership

\* The role writes: one document's role changes, and nothing else.
LEMMA WithRoleCollection ==
  ASSUME NEW m \in Collection, NEW d \in Docs, Live(m, d), NEW role \in Roles
  PROVE  /\ WithRole(m, d, role) \in Collection
         /\ WithRole(m, d, role)[d] =
              [user |-> m[d].user, role |-> role, status |-> m[d].status]
         /\ \A e \in Docs \ {d} : WithRole(m, d, role)[e] = m[e]
<1>1. m[d] \in Membership
  BY LiveIsMembership
<1>2. [m[d] EXCEPT !.role = role] =
        [user |-> m[d].user, role |-> role, status |-> m[d].status]
  BY <1>1 DEF Membership
<1>3. WithRole(m, d, role) = [m EXCEPT ![d] = [m[d] EXCEPT !.role = role]]
  BY DEF WithRole
<1>4. QED
  BY <1>1, <1>2, <1>3 DEF Collection, Membership

\* The status write: one document's status changes, and nothing else.
LEMMA WithStatusCollection ==
  ASSUME NEW m \in Collection, NEW d \in Docs, Live(m, d),
         NEW status \in Statuses
  PROVE  /\ WithStatus(m, d, status) \in Collection
         /\ WithStatus(m, d, status)[d] =
              [user |-> m[d].user, role |-> m[d].role, status |-> status]
         /\ \A e \in Docs \ {d} : WithStatus(m, d, status)[e] = m[e]
<1>1. m[d] \in Membership
  BY LiveIsMembership
<1>2. [m[d] EXCEPT !.status = status] =
        [user |-> m[d].user, role |-> m[d].role, status |-> status]
  BY <1>1 DEF Membership
<1>3. WithStatus(m, d, status) = [m EXCEPT ![d] = [m[d] EXCEPT !.status = status]]
  BY DEF WithStatus
<1>4. QED
  BY <1>1, <1>2, <1>3 DEF Collection, Membership

\* The delete: the document is gone, and nothing else changes.
LEMMA WithoutCollection ==
  ASSUME NEW m \in Collection, NEW d \in Docs
  PROVE  /\ Without(m, d) \in Collection
         /\ Without(m, d)[d] = Deleted
         /\ \A e \in Docs \ {d} : Without(m, d)[e] = m[e]
BY DEF Collection, Without
=============================================================================
