------------------------------ MODULE MCPlatform ------------------------------
(***************************************************************************)
(* Accounts, Tenants, WidgetSessions, AuthTabs and Dashboard in one run.   *)
(* Accounts and the two pages share no state with the rest, and no tenant  *)
(* is created while visitors arrive, so each initial state sets one of     *)
(* them going and leaves the others at rest: the states add up instead of  *)
(* multiplying.                                                            *)
(***************************************************************************)
EXTENDS Accounts, WidgetSessions, AuthTabs, Dashboard, TLC

CONSTANT MaxSettingsDuringVisits  \* bound: settings requests while visitors arrive

VARIABLE focus

platform == <<accounts, tenants, sessions, tabs, dashboard, focus>>

Symmetry == Permutations(Requests) \cup Permutations(Orgs) \cup Permutations(Admins)

\* The tabs of the staff browser are interchangeable, and so are organizations
\* on the dashboard: one tab opens first, and one organization is the first.
FirstTab == CHOOSE t \in AuthTabIds : TRUE
FirstWorkspace == CHOOSE o \in Workspaces : TRUE

Init ==
  /\ AccountsInit /\ WidgetSessionsInit /\ TabsInit /\ DashboardInit
  /\ focus \in {"accounts", "tenants", "visits", "tabs", "dashboard"}
  /\ focus # "accounts" => user = NoAccount
  /\ focus \notin {"tenants", "visits"} => owner = {}
  /\ focus = "visits" => owner = Orgs
  /\ focus # "tabs" => secrets = <<>>
  /\ chosen = FirstWorkspace

AccountsStep ==
  focus = "accounts" /\ AccountsNext /\ UNCHANGED <<tenants, sessions, tabs, dashboard, focus>>

TenantsStep ==
  focus = "tenants" /\ TenantsNext /\ UNCHANGED <<accounts, sessions, tabs, dashboard, focus>>

VisitsStep ==
  /\ focus = "visits" /\ WidgetSessionsNext /\ settings' <= MaxSettingsDuringVisits
  /\ UNCHANGED <<accounts, tabs, dashboard, focus>>

TabsStep ==
  /\ focus = "tabs" /\ TabsNext
  /\ \A t \in AuthTabIds : entering'[t] # "closed" => entering'[FirstTab] # "closed"
  /\ UNCHANGED <<accounts, tenants, sessions, dashboard, focus>>

DashboardStep ==
  focus = "dashboard" /\ DashboardNext /\ UNCHANGED <<accounts, tenants, sessions, tabs, focus>>

Next == AccountsStep \/ TenantsStep \/ VisitsStep \/ TabsStep \/ DashboardStep

Spec == Init /\ [][Next]_platform

\* Every collection, every request and every page is well formed, and slugs and
\* widget keys name one organization each.
TypesOK == AccountsTypeOK /\ WidgetSessionsTypeOK /\ TabsTypeOK /\ DashboardTypeOK
=============================================================================
