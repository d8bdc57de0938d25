---------------------------- MODULE Permissions ----------------------------
(***************************************************************************)
(* The role catalogue of Serviqo (memberships/permissions.ts): which role  *)
(* holds which permission, and can(), the only comparison of a role to     *)
(* anything on the server.                                                 *)
(***************************************************************************)

Roles == {"owner", "admin", "supervisor", "agent"}

ConversationPermissions ==
  {"conversation.read", "conversation.reply", "conversation.assign"}

AdminPermissions ==
  {"organization.read", "organization.manage", "member.read", "member.manage"}
    \cup ConversationPermissions

\* ROLE_PERMISSIONS: owner differs from admin by ownership transfer alone.
RolePermissions ==
  [ owner      |-> AdminPermissions \cup {"organization.transfer_ownership"},
    admin      |-> AdminPermissions,
    supervisor |-> {"organization.read", "member.read"} \cup ConversationPermissions,
    agent      |-> {"organization.read"} \cup ConversationPermissions ]

Can(role, permission) == permission \in RolePermissions[role]

\* member.validation.ts derives the roles a request may name from the same
\* table, all but "owner".
AssignableRoles == Roles \ {"owner"}
=============================================================================
