-------------------------- MODULE MembershipStore --------------------------
(***************************************************************************)
(* The memberships collection of ONE organization, as the server's         *)
(* repository sees it (memberships/membership.repository.ts).              *)
(*                                                                         *)
(* MongoDB runs without transactions here, so the unit of atomicity is one *)
(* findOneAndUpdate on one document: a filter that must match and a $set.  *)
(* Every repository method therefore appears as a pair of operators over   *)
(* the collection m: <Method>Matches, the filter, and the collection the   *)
(* write leaves behind.  The two unique indexes are operators of their     *)
(* own, because a write that matches its filter may still be refused by    *)
(* one.                                                                    *)
(*                                                                         *)
(* A document id is never reused: a removed person who is added again gets *)
(* a new document.  The status "invited" of the schema is left out, since  *)
(* nothing in the server writes it.                                        *)
(***************************************************************************)
EXTENDS Permissions

CONSTANTS
  Users,    \* user accounts
  NoUser,   \* stands for null where a user id is expected
  Docs      \* the _id values the collection may ever issue

ASSUME NoUserAssumption == NoUser \notin Users

Statuses == {"active", "suspended"}

\* What is stored under a document id: a membership, or the absence of one
\* before the id is issued and after the document is deleted.
Unissued == [user |-> NoUser, role |-> "agent", status |-> "unissued"]
Deleted  == [user |-> NoUser, role |-> "agent", status |-> "deleted"]

Membership == [user : Users, role : Roles, status : Statuses]

Collection == [Docs -> Membership \cup {Unissued, Deleted}]

Live(m, d)    == m[d].status \in Statuses
Active(m, d)  == m[d].status = "active"
IsOwner(m, d) == Live(m, d) /\ m[d].role = "owner"

\* findByUserAndOrganization(u) returns a document.
HasMembership(m, u) == \E d \in Docs : Live(m, d) /\ m[d].user = u

\* What requireOrganization asks of u.
ActiveMember(m, u) == \E d \in Docs : Active(m, d) /\ m[d].user = u

----------------------------------------------------------------------------
(* The unique indexes.                                                     *)

\* Mutant: the collection without index A.
UserIndexIgnored(m, u) == TRUE

\* Index A: the key (userId, organizationId) is free for a new document.
UserIndexAdmits(m, u) == ~HasMembership(m, u)

\* Mutant: the collection without index B.
OwnerIndexIgnored(m, d) == TRUE

\* Index B, partial on role = "owner": no OTHER document is an owner, so d
\* may become one.  A filter constrains d alone; this is what constrains
\* the collection.
OwnerIndexAdmits(m, d) == \A e \in Docs \ {d} : ~IsOwner(m, e)

----------------------------------------------------------------------------
(* The repository's writes.                                                *)

Created(m, d, u, role) ==
  [m EXCEPT ![d] = [user |-> u, role |-> role, status |-> "active"]]

WithRole(m, d, role) == [m EXCEPT ![d].role = role]

WithStatus(m, d, status) == [m EXCEPT ![d].status = status]

\* Mutant: a removal that keeps the document under another status.
SoftDeleted(m, d) == [m EXCEPT ![d].status = "removed"]

Without(m, d) == [m EXCEPT ![d] = Deleted]

\* updateRoleForOrganization: the two ids and nothing else.
UpdateRoleMatches(m, d) == Live(m, d)

\* Mutant: the filter without the role.
UpdateStatusUnguarded(m, d, from) == m[d].status = from

\* updateStatusForOrganization: { status: from, role: { $ne: "owner" } }.
UpdateStatusMatches(m, d, from) == m[d].status = from /\ m[d].role # "owner"

\* Mutant: the filter without the role.
DemoteUnguarded(m, d) == Live(m, d)

\* demoteOwner: { role: "owner" }.
DemoteMatches(m, d) == IsOwner(m, d)

\* promoteToOwner: { status: "active", role: { $ne: "owner" } }.
PromoteMatches(m, d) == Active(m, d) /\ m[d].role # "owner"

\* restoreOwner: { role: expectedRole }; it does not look at the status.
RestoreMatches(m, d, expected) == Live(m, d) /\ m[d].role = expected

\* deleteForOrganization: the two ids and nothing else.
DeleteMatches(m, d) == Live(m, d)
=============================================================================
