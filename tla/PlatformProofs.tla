---------------------------- MODULE PlatformProofs ----------------------------
(***************************************************************************)
(* Theorems about Tenants, WidgetSessions, Accounts, AuthTabs, Dashboard   *)
(* and their composition in MCPlatform.                                    *)
(***************************************************************************)
EXTENDS MCPlatform, FiniteSetTheorems, TLAPS

----------------------------------------------------------------------------
(* Tenants: the inductive invariant.                                       *)

OrganizationDocs ==
  [exists : BOOLEAN, slug : Nat, key : Nat, listed : BOOLEAN, version : Nat]

CreationPcs == {"idle", "owner", "look", "write", "undo",
                "created", "refused", "failed", "exhausted", "died"}

Creations == [pc : CreationPcs, attempt : Nat, error : {"none", "exhausted", "failed"}]

SettingCalls ==
  [pc : {"idle", "read", "save"}, op : {"none", "get", "replace", "rotate"},
   org : Orgs \cup {"none"}, key : Nat, version : Nat, listed : BOOLEAN, was : BOOLEAN]

TenantsTyped ==
  /\ org \in [Orgs -> OrganizationDocs]
  /\ spoken \subseteq Nat /\ owner \subseteq Orgs
  /\ creation \in [Orgs -> Creations]
  /\ minted \in Nat /\ minted <= MaxKeys /\ settings \in Nat
  /\ setting \in [Admins -> SettingCalls]
  /\ \A a \in Admins : setting[a].pc # "idle" => setting[a].org \in Orgs /\ org[setting[a].org].exists
  /\ retired \subseteq Nat /\ rotated \subseteq Nat /\ crossed \subseteq Nat
  /\ misled \subseteq Orgs

\* How far a creation has come with its organization and its owner.
Paired(o) ==
  /\ At(o, "idle") /\ ~org[o].exists => o \notin owner
  /\ At(o, "owner") => ~org[o].exists /\ o \notin owner
  /\ At(o, "look") \/ At(o, "write") => ~org[o].exists /\ o \in owner
  /\ At(o, "undo") => o \in owner /\ (o \notin misled => ~org[o].exists)

\* The candidates behind a creation are taken.
Tried(o) ==
  /\ At(o, "idle") \/ At(o, "owner") => creation[o].attempt = 0
  /\ At(o, "look") \/ At(o, "write") =>
       creation[o].attempt \in Candidates /\ \A c \in 0..creation[o].attempt - 1 : c \in Taken
  /\ At(o, "undo") => creation[o].error \in {"exhausted", "failed"}
  /\ At(o, "exhausted") \/ (At(o, "undo") /\ creation[o].error = "exhausted") =>
       Candidates \subseteq Taken

\* Keys are minted once, and what is retired is in force nowhere.
KeysStand ==
  /\ \A o \in Orgs : org[o].key <= minted
  /\ \A o, p \in Orgs : o # p /\ org[o].key = org[p].key => org[o].key = NoKey
  /\ \A n \in retired : 0 < n /\ n <= minted
  /\ \A o \in Orgs : org[o].key \notin retired
  /\ rotated \cup crossed = retired

SlugsDiffer ==
  /\ \A o \in Orgs : org[o].exists \/ org[o] = NoOrganization
  /\ \A o, p \in Orgs : o # p /\ org[o].exists /\ org[p].exists => org[o].slug # org[p].slug

TenantsInv ==
  /\ TenantsTyped /\ KeysStand /\ SlugsDiffer
  /\ \A o \in Orgs : Paired(o) /\ Tried(o)
  /\ OwnerAndTenantTogether

----------------------------------------------------------------------------
(* WidgetSessions: the inductive invariant.                                *)

VisitSteps == {"find", "resume", "create", "answer", "refuse", "over"}

VisitRecords ==
  [step : VisitSteps, key : Nat, org : Orgs \cup {"none"}, token : Nat, customer : Nat]

PageStates == {"none", "closed", "loading", "resolving", "ready", "saved", "error"}

Pages == [org : Orgs, key : Keys, status : PageStates, visit : Nat, customer : Nat, shown : Nat]

VisitsTyped ==
  /\ customer \in Seq(Orgs) /\ \A c \in Customers : org[customer[c]].exists
  /\ embedded \in [Orgs -> Nat] /\ \A o \in Orgs : embedded[o] <= minted
  /\ page \in [Tabs -> Pages]
  /\ storage \in [Tabs -> [Keys -> Customers \cup {Nobody}]]
  /\ visit \in Seq(VisitRecords)
  /\ expired \subseteq Customers /\ dropped \subseteq Customers

\* No organization but its own has, or will have, the key that a token is kept
\* or presented under.
OfKey(c, k) ==
  c # Nobody => /\ c \in Customers /\ k <= minted
                /\ \A o \in Orgs : org[o].key = k /\ k # NoKey => customer[c] = o

\* A request that found a tenant answers with a customer of it: with the one of
\* its token, unless there was none or it had expired.
VisitOK(v) ==
  LET q == visit[v]
  IN  /\ q.step # "over" => q.key <= minted /\ OfKey(q.token, q.key)
      /\ q.step \in {"resume", "create", "answer"} =>
           /\ q.org \in Orgs /\ org[q.org].exists /\ q.key # NoKey
           /\ \A o \in Orgs : org[o].key = q.key => o = q.org
           /\ q.token # Nobody /\ q.customer # q.token => q.token \in expired
      /\ q.step \in {"resume", "answer"} => q.customer \in Customers /\ customer[q.customer] = q.org
      /\ q.step \in {"find", "refuse", "create", "over"} => q.customer = Nobody

\* What a page waits for, holds and shows.
PageOK(t) ==
  LET p == page[t]
  IN  /\ p.key <= minted /\ OfKey(p.customer, p.key)
      /\ p.visit # 0 => /\ p.visit \in Visits /\ p.status \in {"loading", "ready"}
                        /\ ~Under(p.visit, "over") =>
                             /\ visit[p.visit].key = p.key
                             /\ storage[t][p.key] \in {Nobody, visit[p.visit].token} \cup expired
                             /\ p.status = "ready" => visit[p.visit].token = p.customer
      /\ p.status \in {"closed", "loading", "error", "none"} => p.customer = Nobody
      /\ p.status \in {"resolving", "ready"} =>
           p.customer # Nobody /\ storage[t][p.key] \in {Nobody, p.customer} \cup expired
      /\ p.status = "ready" => p.shown = p.customer
      /\ p.shown # Nobody <=> p.status \in {"ready", "saved"}
      /\ p.shown \notin {Nobody, p.customer} => p.shown \in expired

Kept(c) == OnItsWay(c) \/ \E t \in Tabs, k \in Keys : storage[t][k] = c

VisitsInv ==
  /\ TenantsInv /\ VisitsTyped
  /\ \A t \in Tabs, k \in Keys : OfKey(storage[t][k], k)
  /\ \A v \in Visits : VisitOK(v)
  /\ \A t \in Tabs : PageOK(t)
  /\ \A c \in Customers \ (dropped \cup expired) : Kept(c)

----------------------------------------------------------------------------
(* Accounts: the inductive invariant.                                      *)

CallPcs == {"idle", "lookup", "create", "invalidate", "issue", "mail", "consume", "count",
            "mark", "clearCodes", "fail", "clearLock"}

TokenDocs == [state : {"absent", "live", "spent", "deleted"}, attempts : Nat, expires : Nat]

UserDocs == [exists : BOOLEAN, verified : BOOLEAN, failures : Nat, lockedUntil : Nat]

AccountCalls ==
  [op : {"none", "register", "resend", "verify", "login"}, pc : CallPcs, code : Nat, at : Nat,
   since : Nat, locks : Nat, verified : BOOLEAN, against : SUBSET Tokens]

\* Calls that may still issue a code.
Issuers == {k \in Requests : /\ req[k].op \in {"register", "resend"}
                             /\ req[k].pc \in {"lookup", "create", "invalidate", "issue"}}

AccountsTyped ==
  /\ user \in UserDocs
  /\ token \in [Tokens -> TokenDocs]
  /\ req \in [Requests -> AccountCalls]
  /\ tested \in [Tokens -> Nat]
  /\ issued \in Nat /\ now \in Nat /\ locks \in Nat /\ guesses \in Nat
  /\ mailed \subseteq 1..issued /\ raced \subseteq 1..issued /\ mischarged \subseteq 1..issued
  /\ issued + Cardinality(Issuers) <= MaxTokens

\* Who has got past a lookup has found the account, or made it.
UserOK ==
  /\ user.verified => user.exists
  /\ user.failures < MaxFailures
  /\ user.lockedUntil <= now + LockTime
  /\ ~user.exists => issued = 0 /\ user.lockedUntil = 0

CallOK(k) ==
  /\ req[k].pc \in {"create", "invalidate", "issue"} => req[k].op \in {"register", "resend"}
  /\ req[k].pc \in CallPcs \ {"idle", "lookup", "create"} => user.exists
  /\ req[k].pc = "mail" => req[k].code \in 1..issued
  /\ req[k].against \subseteq 1..issued
  /\ req[k].pc = "count" => \A t \in req[k].against : token[t].expires > req[k].at
  /\ req[k].pc = "issue" =>
       req[k].since <= issued /\ \A t \in Tokens : t <= req[k].since => ~Live(t)
  /\ req[k].pc = "clearLock" =>
       req[k].locks <= locks /\ (req[k].locks = locks => user.lockedUntil <= now)

TokenOK(t) ==
  /\ token[t].state = "absent" <=> t > issued
  /\ token[t].attempts <= MaxAttempts
  /\ Live(t) => token[t].attempts < MaxAttempts
  /\ t > issued => tested[t] = 0 /\ token[t].attempts = 0

\* The wrong codes that a token has withstood are counted or still to be.
Charged(t) ==
  t \notin mischarged => /\ tested[t] >= token[t].attempts
                         /\ Live(t) => tested[t] = token[t].attempts + Uncounted(t)

AccountsInv ==
  /\ AccountsTyped /\ UserOK
  /\ \A k \in Requests : CallOK(k)
  /\ \A t \in Tokens : TokenOK(t) /\ Charged(t)
  /\ OneCodeUnlessRaced

----------------------------------------------------------------------------
(* AuthTabs: the inductive invariant.                                      *)

SecretStates == {"current", "previous", "old", "ended"}

Ages == {"none", "fresh", "stale"}

Renewals ==
  [pc : {"none", "sent", "served"}, cookie : Nat, answer : {"none", "granted", "overtaken", "refused"},
   brings : Nat, prompted : BOOLEAN]

Departures ==
  [pc : {"none", "sent", "served"}, cookie : Nat,
   why : {"none", "asked", "overtaken", "refused", "expired"}]

SecretDocs == [of : Nat, state : SecretStates, by : AuthTabIds]

Fetches == [pc : {"none", "sent", "waiting", "replayed"}, bearer : Ages]

TabsTyped ==
  /\ access \in [AuthTabIds -> [of : Nat, age : Ages]]
  /\ restoring \in [AuthTabIds -> BOOLEAN]
  /\ renewal \in [AuthTabIds -> Renewals]
  /\ fetch \in [AuthTabIds -> [Callers -> Fetches]]
  /\ leaving \in [AuthTabIds -> Departures]
  /\ entering \in [AuthTabIds -> {"closed", "no", "yes"}]
  /\ secrets \in Seq(SecretDocs)
  /\ \A c \in 1..Len(secrets) : secrets[c].of \in 1..Len(secrets)
  /\ jar \in 0..Len(secrets)
  /\ \A t \in AuthTabIds :
       /\ access[t].of <= Len(secrets)
       /\ renewal[t].cookie <= Len(secrets) /\ renewal[t].brings <= Len(secrets)
       /\ leaving[t].cookie <= Len(secrets)
       /\ renewal[t].pc = "none" => \A f \in Callers : ~Waiting(t, f)

Granted(t) == renewal[t].pc = "served" /\ renewal[t].answer = "granted"

Exchanged(c) == c # 0 /\ secrets[c].state \in {"previous", "old"}

\* The secret that a granted refresh brings is nobody else's yet.
Brought(t) ==
  Granted(t) =>
    LET n == renewal[t].brings
    IN  /\ n # 0 /\ secrets[n].state \in {"current", "ended"} /\ n # jar
        /\ \A u \in AuthTabIds : renewal[u].cookie # n
        /\ \A u \in AuthTabIds \ {t} : Granted(u) => renewal[u].brings # n

\* The tab that exchanged the cookie's secret has not heard of it yet, or is
\* not signed in with that session any more.
JarOK ==
  Exchanged(jar) =>
    LET u == secrets[jar].by
    IN  (Granted(u) /\ renewal[u].cookie = jar) \/ access[u].of # secrets[jar].of

\* A refresh that loses does not lose against its own tab.
Fair(t) ==
  LET r == renewal[t]
  IN  (r.pc = "sent" \/ (r.pc = "served" /\ r.answer = "overtaken"))
        /\ Exchanged(r.cookie) /\ secrets[r.cookie].by = t
      => access[t].of # secrets[r.cookie].of

TabOK(t) ==
  /\ Brought(t) /\ Fair(t)
  /\ renewal[t].pc = "served" /\ renewal[t].answer = "overtaken" =>
       State(renewal[t].cookie) \in {"previous", "old", "ended"}
  /\ renewal[t].pc = "served" /\ renewal[t].answer = "refused" =>
       State(renewal[t].cookie) \in {"none", "ended"}
  /\ renewal[t].pc # "none" /\ ~renewal[t].prompted => restoring[t]
  /\ leaving[t].pc # "none" => leaving[t].why # "none"
  /\ leaving[t].why = "refused" => leaving[t].cookie = 0

\* A refresh that a refused token asked for has the calls that wait for it.
PromptedOK ==
  \A t \in AuthTabIds :
    /\ renewal[t].pc # "none" /\ renewal[t].prompted => \E f \in Callers : Waiting(t, f)
    /\ \A f \in Callers : Waiting(t, f) => fetch[t][f].bearer # "none"

TabsInv == TabsTyped /\ JarOK /\ \A t \in AuthTabIds : TabOK(t)

----------------------------------------------------------------------------
(* Dashboard: the inductive invariant.                                     *)

ContextRead(r) ==
  /\ r = [no |-> r.no, org |-> r.org, read |-> r.read, owner |-> r.owner]
  /\ r.org \in Workspaces /\ r.read \in BOOLEAN /\ r.owner \in BOOLEAN

RosterReads ==
  [why : {"load", "act", "retry", "transfer"}, read : BOOLEAN, at : Nat, heard : BOOLEAN]

TeamPages ==
  [status : {"absent", "loading", "ready", "error"}, shown : Nat, notice : Nat,
   act : {"none", "sent", "made", "refused", "reading"}, made : Nat]

Transfers ==
  [pc : {"none", "confirming", "sent", "made", "refused", "reading"},
   org : Workspaces \cup {NoWorkspace}, home : BOOLEAN, form : BOOLEAN]

InstallPages ==
  [status : {"absent", "loading", "ready", "error"}, key : Nat, own : Nat,
   saving : Nat, rotating : Nat]

DashboardTyped ==
  /\ chosen \in Workspaces
  /\ context \in [org : Workspaces \cup {NoWorkspace}, owner : BOOLEAN]
  /\ \A r \in contextReads : ContextRead(r)
  /\ team \in TeamPages /\ transfer \in Transfers /\ install \in InstallPages
  /\ rosterReads \subseteq RosterReads
  /\ owned \subseteq Workspaces
  /\ roster \in [Workspaces -> Nat] /\ key \in [Workspaces -> Nat]
  /\ acts \in Nat /\ unheard \in BOOLEAN

\* What the sections below the switcher are about.
MountedOK ==
  /\ team.status = "absent" <=> context.org = NoWorkspace
  /\ install.status = "absent" <=> context.org = NoWorkspace
  /\ context.org = NoWorkspace => context = NoContext /\ team = NoTeam /\ install = NoInstall
  /\ transfer.form => transfer.home
  /\ transfer.pc # "none" => transfer.org \in Workspaces
  /\ transfer.home => transfer.pc # "none" /\ transfer.org = context.org
  /\ \A r \in rosterReads : r.heard => team.status # "absent"

\* A transfer has been made of which the context may not have been told.
Stale == transfer.pc \in {"made", "reading"} \/ unheard

ContextOK ==
  /\ "context" \notin crossing =>
       \A r \in contextReads : /\ contextReads = {r} /\ r.org = chosen
                               /\ r.read => (r.owner <=> r.org \in owned) \/ Stale
  /\ contextReads = {} /\ "context" \notin doubtful /\ ~Stale =>
       context = NoContext \/ context = [org |-> chosen, owner |-> chosen \in owned]

\* A roster that is heard of alone is as new as the changes announced, and as
\* the one that waits for it.
TeamOK ==
  /\ \A r \in rosterReads : r.heard /\ r.why = "act" =>
       /\ team.act = "reading"
       /\ \A q \in rosterReads : q.heard /\ q.why = "act" => q = r
  /\ "team" \notin crossing =>
       \A r \in rosterReads : r.heard =>
         /\ \A q \in rosterReads : q.heard => q = r
         /\ r.read => r.at >= team.notice
         /\ r.read /\ r.why = "act" => r.at >= team.made
  /\ team.status # "absent" =>
       team.notice <= roster[context.org] /\ team.made <= roster[context.org]
  /\ team.status = "ready" /\ "team" \notin doubtful => team.shown >= team.notice

InstallOK ==
  /\ install.status # "ready" => install.saving = Off /\ install.rotating = Off
  /\ "install" \notin crossing =>
       /\ install.saving = Off \/ install.rotating = Off
       /\ install.saving > Sent => install.saving >= install.own
  /\ install.status # "absent" =>
       install.own <= key[context.org] /\ install.rotating <= key[context.org]
  /\ \A o \in Workspaces : key[o] > Sent
  /\ "install" \notin doubtful => install.key >= install.own

DashboardInv == DashboardTyped /\ MountedOK /\ ContextOK /\ TeamOK /\ InstallOK

----------------------------------------------------------------------------
(* Tenants: every step keeps the invariant.                                *)

LEMMA TenDocs ==
  ASSUME NEW e \in BOOLEAN, NEW s \in Nat, NEW k \in Nat, NEW l \in BOOLEAN, NEW v \in Nat
  PROVE  LET d == [exists |-> e, slug |-> s, key |-> k, listed |-> l, version |-> v]
         IN  /\ d \in OrganizationDocs
             /\ d.exists = e /\ d.slug = s /\ d.key = k
BY DEF OrganizationDocs

LEMMA TenNoOrganization ==
  NoOrganization \in OrganizationDocs /\ ~NoOrganization.exists /\ NoOrganization.key = NoKey
<1>1. FALSE \in BOOLEAN /\ 0 \in Nat
  BY Zenon
<1>2. /\ NoOrganization \in OrganizationDocs /\ NoOrganization.exists = FALSE
      /\ NoOrganization.key = NoKey
  BY <1>1, TenDocs, Zenon DEF NoOrganization, NoKey
<1> QED BY <1>2, Zenon

LEMMA TenNoSetting ==
  NoSetting \in SettingCalls /\ NoSetting.pc = "idle"
<1>1. ASSUME NEW a \in BOOLEAN, NEW b \in BOOLEAN
      PROVE  LET s == [pc |-> "idle", op |-> "none", org |-> "none", key |-> NoKey, version |-> 0,
                       listed |-> a, was |-> b]
             IN  s \in SettingCalls /\ s.pc = "idle"
  BY DEF SettingCalls, NoKey
<1>2. FALSE \in BOOLEAN
  BY Zenon
<1> QED BY <1>1, <1>2, Zenon DEF NoSetting

Together(o) ==
  o \notin misled => /\ org[o].exists => o \in owner
                     /\ o \in owner => org[o].exists \/ InProgress(o)

LEMMA TenTogether == OwnerAndTenantTogether <=> \A o \in Orgs : Together(o)
BY DEF OwnerAndTenantTogether, Together

\* The organizations that are there from the start.
Founded ==
  /\ org \in [Orgs -> OrganizationDocs] /\ owner \subseteq Orgs
  /\ minted \in Nat /\ minted <= MaxKeys
  /\ \A o \in Orgs : /\ org[o].exists \/ org[o] = NoOrganization
                     /\ org[o].exists <=> o \in owner
                     /\ org[o].key <= minted
  /\ \A o, p \in Orgs : o # p /\ org[o].key = org[p].key => org[o].key = NoKey
  /\ \A o, p \in Orgs : o # p /\ org[o].exists /\ org[p].exists => org[o].slug # org[p].slug

LEMMA TenantsInitially == TenantsInit => TenantsInv
<1> SUFFICES ASSUME TenantsInit PROVE TenantsInv
  OBVIOUS
<1>1. /\ creation = [o \in Orgs |-> NotAsked] /\ spoken = Reserved
      /\ setting = [a \in Admins |-> NoSetting] /\ settings = 0
      /\ retired = {} /\ rotated = {} /\ crossed = {} /\ misled = {}
  BY DEF TenantsInit
<1>2. /\ NotAsked \in Creations /\ NotAsked.pc = "idle" /\ NotAsked.attempt = 0
  BY DEF NotAsked, Creations, CreationPcs
<1>3. Founded
  <2>1. CASE org = [o \in Orgs |-> NoOrganization] /\ owner = {} /\ minted = 0
    BY <2>1, TenNoOrganization, TenantsAssumption DEF NoKey, Founded
  <2>2. ASSUME NEW legacy \in SUBSET Orgs, NEW n \in [Orgs -> 1..Cardinality(Orgs)],
               \A o, p \in Orgs : n[o] = n[p] => o = p,
               org = [o \in Orgs |-> [exists |-> TRUE, slug |-> MaxSlugAttempts + n[o],
                                      key |-> IF o \in legacy THEN NoKey ELSE n[o],
                                      listed |-> TRUE, version |-> 0]],
               owner = Orgs, minted = Cardinality(Orgs)
        PROVE  Founded
    <3>1. minted \in Nat /\ minted <= MaxKeys /\ MaxSlugAttempts \in Nat
      BY <2>2, FS_CardinalityType, TenantsAssumption
    <3>2. ASSUME NEW o \in Orgs
          PROVE  /\ org[o] \in OrganizationDocs /\ org[o].exists /\ org[o].slug = MaxSlugAttempts + n[o]
                 /\ org[o].key = IF o \in legacy THEN 0 ELSE n[o]
                 /\ n[o] \in Nat /\ n[o] # 0 /\ n[o] <= minted
      <4> DEFINE k == IF o \in legacy THEN NoKey ELSE n[o]
                 s == MaxSlugAttempts + n[o]
      <4>1. n[o] \in Nat /\ n[o] # 0 /\ n[o] <= minted
        BY <2>2, <3>1
      <4>2. k \in Nat /\ s \in Nat
        BY <3>1, <4>1 DEF NoKey
      <4>3. org[o] = [exists |-> TRUE, slug |-> s, key |-> k, listed |-> TRUE, version |-> 0]
        BY <2>2
      <4>4. k = IF o \in legacy THEN 0 ELSE n[o]
        BY DEF NoKey
      <4> HIDE DEF k, s
      <4>5. TRUE \in BOOLEAN /\ 0 \in Nat
        BY Zenon
      <4>6. org[o] \in OrganizationDocs /\ org[o].exists = TRUE /\ org[o].slug = s /\ org[o].key = k
        <5>1. ASSUME NEW e \in BOOLEAN, NEW l \in BOOLEAN, NEW v \in Nat
              PROVE  LET d == [exists |-> e, slug |-> s, key |-> k, listed |-> l, version |-> v]
                     IN  /\ d \in OrganizationDocs
                         /\ d.exists = e /\ d.slug = s /\ d.key = k
          BY <4>2, TenDocs
        <5>2. LET d == [exists |-> TRUE, slug |-> s, key |-> k, listed |-> TRUE, version |-> 0]
              IN  /\ d \in OrganizationDocs
                  /\ d.exists = TRUE /\ d.slug = s /\ d.key = k
          BY <4>5, <5>1, Zenon
        <5> QED BY <4>3, <5>2, Zenon
      <4> QED BY <4>1, <4>4, <4>6 DEF s
    <3>3. org \in [Orgs -> OrganizationDocs] /\ owner \subseteq Orgs
      <4>1. org = [o \in Orgs |-> org[o]]
        BY <2>2
      <4> QED BY <2>2, <3>2, <4>1
    <3>4. \A o, p \in Orgs : o # p => n[o] # n[p]
      BY <2>2
    <3>5. \A o \in Orgs : /\ org[o].exists \/ org[o] = NoOrganization
                          /\ org[o].exists <=> o \in owner
                          /\ org[o].key <= minted
      BY <2>2, <3>1, <3>2
    <3>6. \A o, p \in Orgs : o # p /\ org[o].key = org[p].key => org[o].key = NoKey
      BY <3>2, <3>4 DEF NoKey
    <3>7. \A o, p \in Orgs : o # p => org[o].slug # org[p].slug
      BY <3>1, <3>2, <3>4
    <3> QED BY <3>1, <3>3, <3>5, <3>6, <3>7 DEF Founded
  <2> QED BY <2>1, <2>2 DEF TenantsInit
<1>4. TenantsTyped
  BY <1>1, <1>2, <1>3, TenNoSetting, TenantsAssumption DEF Founded, TenantsTyped
<1>5. KeysStand /\ SlugsDiffer
  BY <1>1, <1>3 DEF Founded, KeysStand, SlugsDiffer
<1>6. \A o \in Orgs : Paired(o) /\ Tried(o)
  BY <1>1, <1>2, <1>3 DEF Founded, Paired, Tried, At
<1>7. OwnerAndTenantTogether
  BY <1>1, <1>3 DEF Founded, OwnerAndTenantTogether
<1> QED BY <1>4, <1>5, <1>6, <1>7 DEF TenantsInv

\* A step of one creation that changes no organization.
LEMMA TenCreationStep ==
  ASSUME TenantsInv, NEW o \in Orgs,
         UNCHANGED <<org, spoken, minted, retired, rotated, crossed, setting, settings>>,
         creation' \in [Orgs -> Creations], owner' \subseteq Orgs, misled' \subseteq Orgs,
         \A p \in Orgs \ {o} : /\ creation'[p] = creation[p]
                               /\ p \in owner' <=> p \in owner
                               /\ p \in misled' <=> p \in misled,
         Paired(o)', Tried(o)', Together(o)'
  PROVE  TenantsInv'
<1>1. TenantsTyped' /\ KeysStand' /\ SlugsDiffer'
  BY DEF TenantsInv, TenantsTyped, KeysStand, SlugsDiffer
<1>2. ASSUME NEW p \in Orgs \ {o} PROVE Paired(p)' /\ Tried(p)' /\ Together(p)'
  <2>1. Paired(p) /\ Tried(p) /\ Together(p)
    BY TenTogether DEF TenantsInv
  <2>2. Taken' = Taken
    BY DEF Taken, Organizations
  <2>3. Paired(p)'
    BY <2>1 DEF Paired, At
  <2>4. Tried(p)'
    BY <2>1, <2>2 DEF Tried, At
  <2>5. Together(p)'
    BY <2>1 DEF Together, InProgress
  <2> QED BY <2>3, <2>4, <2>5
<1>3. (\A p \in Orgs : Together(p)') => OwnerAndTenantTogether'
  BY DEF OwnerAndTenantTogether, Together
<1>4. \A p \in Orgs : Paired(p)' /\ Tried(p)' /\ Together(p)'
  BY <1>2
<1> QED BY <1>1, <1>3, <1>4 DEF TenantsInv

LEMMA TenMoves ==
  ASSUME creation \in [Orgs -> Creations], NEW o \in Orgs, NEW pc \in CreationPcs, Move(o, pc)
  PROVE  /\ creation' \in [Orgs -> Creations]
         /\ creation'[o].pc = pc /\ creation'[o].attempt = creation[o].attempt
         /\ creation'[o].error = creation[o].error
         /\ \A p \in Orgs \ {o} : creation'[p] = creation[p]
BY DEF Move, Creations

LEMMA TenAdvances ==
  ASSUME creation \in [Orgs -> Creations], NEW o \in Orgs, NEW n \in Nat, Advance(o, n)
  PROVE  /\ creation' \in [Orgs -> Creations]
         /\ creation'[o].attempt = n
         /\ n \in Candidates => creation'[o].pc = "look"
         /\ n \notin Candidates => creation'[o].pc = "undo" /\ creation'[o].error = "exhausted"
         /\ \A p \in Orgs \ {o} : creation'[p] = creation[p]
<1> DEFINE next == IF n \in Candidates THEN [pc |-> "look", attempt |-> n, error |-> "none"]
                                       ELSE [pc |-> "undo", attempt |-> n, error |-> "exhausted"]
<1>1. /\ next \in Creations /\ next.attempt = n
      /\ n \in Candidates => next.pc = "look"
      /\ n \notin Candidates => next.pc = "undo" /\ next.error = "exhausted"
  BY DEF Creations, CreationPcs
<1>2. creation' = [creation EXCEPT ![o] = next]
  BY DEF Advance
<1> HIDE DEF next
<1> QED BY <1>1, <1>2

Failing(o) == [creation EXCEPT ![o].pc = "undo", ![o].error = "failed"]

LEMMA TenFailing ==
  ASSUME creation \in [Orgs -> Creations], NEW o \in Orgs
  PROVE  /\ Failing(o) \in [Orgs -> Creations]
         /\ Failing(o)[o].pc = "undo" /\ Failing(o)[o].error = "failed"
         /\ \A p \in Orgs \ {o} : Failing(o)[p] = creation[p]
<1> DEFINE q == [creation EXCEPT ![o].pc = "undo"]
<1>1. /\ q \in [Orgs -> Creations] /\ q[o].pc = "undo"
      /\ \A p \in Orgs \ {o} : q[p] = creation[p]
  BY DEF Creations, CreationPcs
<1>2. Failing(o) = [q EXCEPT ![o].error = "failed"]
  BY DEF Failing
<1> HIDE DEF q
<1> QED BY <1>1, <1>2 DEF Creations

\* What is known of a creation before its step.
LEMMA TenKnown ==
  ASSUME TenantsInv, NEW o \in Orgs
  PROVE  /\ Paired(o) /\ Tried(o) /\ Together(o)
         /\ creation \in [Orgs -> Creations] /\ creation[o] \in Creations
         /\ owner \subseteq Orgs /\ misled \subseteq Orgs /\ org[o].exists \in BOOLEAN
         /\ MaxSlugAttempts \in Nat /\ MaxSlugAttempts > 0
<1>1. org[o] \in OrganizationDocs
  BY DEF TenantsInv, TenantsTyped
<1> QED BY <1>1, TenTogether, TenantsAssumption DEF TenantsInv, TenantsTyped, OrganizationDocs

LEMMA TenGate ==
  ASSUME TenantsInv, NEW o \in Orgs, Gate(o)
  PROVE  TenantsInv'
<1>1. /\ At(o, "idle") /\ ~org[o].exists /\ o \notin owner /\ creation[o].attempt = 0
      /\ UNCHANGED <<org, spoken, minted, retired, rotated, crossed, setting, settings, owner, misled>>
  BY TenKnown DEF Gate, slugs, keyring, asked, Paired, Tried, At
<1>2. PICK pc \in {"owner", "refused"} : Move(o, pc)
  BY DEF Gate
<1>3. /\ creation' \in [Orgs -> Creations]
      /\ creation'[o].pc = pc /\ creation'[o].attempt = 0
      /\ \A p \in Orgs \ {o} : creation'[p] = creation[p]
  BY <1>1, <1>2, TenKnown, TenMoves DEF CreationPcs
<1>4. Paired(o)' /\ Tried(o)' /\ Together(o)'
  BY <1>1, <1>3 DEF Paired, Tried, Together, At
<1> QED BY <1>1, <1>3, <1>4, TenKnown, TenCreationStep

LEMMA TenCreateOwner ==
  ASSUME TenantsInv, NEW o \in Orgs, CreateOwner(o)
  PROVE  TenantsInv'
<1>1. /\ At(o, "owner") /\ ~org[o].exists /\ o \notin owner /\ creation[o].attempt = 0
      /\ UNCHANGED <<org, spoken, minted, retired, rotated, crossed, setting, settings>>
  BY TenKnown DEF CreateOwner, slugs, keyring, asked, Paired, Tried, At
<1>2. CASE Move(o, "look") /\ owner' = owner \cup {o} /\ misled' = misled
  <2>1. /\ creation' \in [Orgs -> Creations]
        /\ creation'[o].pc = "look" /\ creation'[o].attempt = 0
        /\ \A p \in Orgs \ {o} : creation'[p] = creation[p]
    BY <1>1, <1>2, TenKnown, TenMoves DEF CreationPcs
  <2>2. Paired(o)' /\ Together(o)'
    BY <1>1, <1>2, <2>1 DEF Paired, Together, At, InProgress
  <2>3. Tried(o)'
    BY <2>1, TenKnown DEF Tried, At, Candidates
  <2> QED BY <1>1, <1>2, <2>1, <2>2, <2>3, TenKnown, TenCreationStep
<1>3. CASE Move(o, "failed") /\ owner' = owner /\ misled' = misled
  <2>1. /\ creation' \in [Orgs -> Creations] /\ creation'[o].pc = "failed"
        /\ \A p \in Orgs \ {o} : creation'[p] = creation[p]
    BY <1>1, <1>3, TenKnown, TenMoves DEF CreationPcs
  <2>2. Paired(o)' /\ Together(o)' /\ Tried(o)'
    BY <1>1, <1>3, <2>1 DEF Paired, Together, Tried, At
  <2> QED BY <1>1, <1>3, <2>1, <2>2, TenKnown, TenCreationStep
<1>4. CASE Move(o, "failed") /\ owner' = owner \cup {o} /\ misled' = misled \cup {o}
  <2>1. /\ creation' \in [Orgs -> Creations] /\ creation'[o].pc = "failed"
        /\ \A p \in Orgs \ {o} : creation'[p] = creation[p]
    BY <1>1, <1>4, TenKnown, TenMoves DEF CreationPcs
  <2>2. Paired(o)' /\ Together(o)' /\ Tried(o)'
    BY <1>1, <1>4, <2>1 DEF Paired, Together, Tried, At
  <2> QED BY <1>1, <1>4, <2>1, <2>2, TenKnown, TenCreationStep
<1> QED BY <1>2, <1>3, <1>4 DEF CreateOwner

\* A creation goes on to its next candidate once its own is taken.
LEMMA TenNextCandidate ==
  ASSUME TenantsInv, NEW o \in Orgs, At(o, "look") \/ At(o, "write"),
         creation[o].attempt \in Taken, Advance(o, creation[o].attempt + 1),
         UNCHANGED <<org, spoken, minted, retired, rotated, crossed, setting, settings, owner, misled>>
  PROVE  TenantsInv'
<1> DEFINE n == creation[o].attempt
<1>1. /\ n \in Nat /\ n \in Candidates /\ n + 1 \in Nat /\ \A c \in 0..n - 1 : c \in Taken
      /\ ~org[o].exists /\ o \in owner /\ creation \in [Orgs -> Creations]
      /\ MaxSlugAttempts \in Nat
  BY TenKnown DEF Tried, Paired, Candidates
<1>2. PICK m : m = n + 1
  OBVIOUS
<1>3. /\ creation' \in [Orgs -> Creations] /\ creation'[o].attempt = m
      /\ m \in Candidates => creation'[o].pc = "look"
      /\ m \notin Candidates => creation'[o].pc = "undo" /\ creation'[o].error = "exhausted"
      /\ \A p \in Orgs \ {o} : creation'[p] = creation[p]
  BY <1>1, <1>2, TenAdvances
<1>4. /\ \A c \in 0..m - 1 : c \in Taken
      /\ m \notin Candidates => Candidates \subseteq Taken
      /\ m \in Nat
  <2>1. n \in Taken
    OBVIOUS
  <2>2. \A c \in 0..m - 1 : c \in 0..n - 1 \/ c = n
    BY <1>1, <1>2
  <2>3. m \notin Candidates => Candidates = 0..m - 1
    BY <1>1, <1>2 DEF Candidates
  <2> HIDE DEF n
  <2> QED BY <1>1, <1>2, <2>1, <2>2, <2>3
<1>5. Taken' = Taken
  BY DEF Taken, Organizations
<1>6. Paired(o)' /\ Together(o)'
  BY <1>1, <1>3 DEF Paired, Together, At, InProgress
<1>7. Tried(o)'
  BY <1>3, <1>4, <1>5 DEF Tried, At
<1> QED BY <1>3, <1>6, <1>7, TenKnown, TenCreationStep

LEMMA TenLook ==
  ASSUME TenantsInv, NEW o \in Orgs, Look(o)
  PROVE  TenantsInv'
<1>1. /\ At(o, "look")
      /\ UNCHANGED <<org, spoken, minted, retired, rotated, crossed, setting, settings, owner, misled>>
  BY DEF Look, slugs, keyring, asked
<1>2. CASE creation[o].attempt \in Taken
  BY <1>1, <1>2, TenNextCandidate DEF Look
<1>3. CASE creation[o].attempt \notin Taken
  <2>1. Move(o, "write")
    BY <1>3 DEF Look
  <2>2. /\ creation' \in [Orgs -> Creations]
        /\ creation'[o].pc = "write" /\ creation'[o].attempt = creation[o].attempt
        /\ \A p \in Orgs \ {o} : creation'[p] = creation[p]
    BY <2>1, TenKnown, TenMoves DEF CreationPcs
  <2>3. Taken' = Taken
    BY <1>1 DEF Taken, Organizations
  <2>4. Paired(o)' /\ Together(o)' /\ Tried(o)'
    BY <1>1, <2>2, <2>3, TenKnown DEF Paired, Together, Tried, At, InProgress
  <2> QED BY <1>1, <2>2, <2>4, TenKnown, TenCreationStep
<1> QED BY <1>2, <1>3

LEMMA TenCreationFails ==
  ASSUME TenantsInv, NEW o \in Orgs, CreationFails(o)
  PROVE  TenantsInv'
<1>1. /\ At(o, "look") \/ At(o, "write")
      /\ creation' = Failing(o)
      /\ UNCHANGED <<org, spoken, minted, retired, rotated, crossed, setting, settings, owner, misled>>
  BY DEF CreationFails, slugs, keyring, asked, At, Failing
<1>2. /\ creation' \in [Orgs -> Creations]
      /\ creation'[o].pc = "undo" /\ creation'[o].error = "failed"
      /\ \A p \in Orgs \ {o} : creation'[p] = creation[p]
  BY <1>1, TenKnown, TenFailing
<1>3. Paired(o)' /\ Together(o)' /\ Tried(o)'
  BY <1>1, <1>2, TenKnown DEF Paired, Together, Tried, At, InProgress
<1> QED BY <1>1, <1>2, <1>3, TenKnown, TenCreationStep

LEMMA TenUndo ==
  ASSUME TenantsInv, NEW o \in Orgs, Undo(o)
  PROVE  TenantsInv'
<1>1. /\ At(o, "undo") /\ creation[o].error \in {"exhausted", "failed"} /\ Move(o, creation[o].error)
      /\ UNCHANGED <<org, spoken, minted, retired, rotated, crossed, setting, settings>>
  BY TenKnown DEF Undo, slugs, keyring, asked, Tried
<1>2. /\ creation' \in [Orgs -> Creations]
      /\ creation'[o].pc = creation[o].error
      /\ \A p \in Orgs \ {o} : creation'[p] = creation[p]
  BY <1>1, TenKnown, TenMoves DEF CreationPcs
<1>3. /\ owner' \subseteq Orgs /\ misled' \subseteq Orgs
      /\ \A p \in Orgs \ {o} : (p \in owner' <=> p \in owner) /\ (p \in misled' <=> p \in misled)
      /\ (o \notin owner' /\ misled' = misled) \/ o \in misled'
  BY TenKnown DEF Undo, WithoutOwner
<1>4. Taken' = Taken
  BY <1>1 DEF Taken, Organizations
<1>5. Paired(o)' /\ Tried(o)'
  BY <1>1, <1>2, <1>4, TenKnown DEF Paired, Tried, At
<1>6. Together(o)'
  BY <1>1, <1>2, <1>3, TenKnown DEF Paired, Together, At
<1> QED BY <1>1, <1>2, <1>3, <1>5, <1>6, TenCreationStep

\* A creation writes its organization: a slug that nobody has, a key of its own.
LEMMA TenWrites ==
  ASSUME TenantsInv, NEW o \in Orgs, At(o, "write"), creation[o].attempt \notin Taken,
         minted < MaxKeys, minted' = minted + 1, org' = [org EXCEPT ![o] = Created(o)],
         UNCHANGED <<spoken, owner, retired, rotated, crossed, setting, settings>>,
         creation' \in [Orgs -> Creations],
         \A p \in Orgs \ {o} : creation'[p] = creation[p],
         \/ creation'[o].pc = "created" /\ misled' = misled
         \/ creation'[o].pc = "undo" /\ creation'[o].error = "failed" /\ misled' = misled \cup {o}
  PROVE  TenantsInv'
<1>1. /\ ~org[o].exists /\ o \in owner /\ creation[o].attempt \in Nat
      /\ org \in [Orgs -> OrganizationDocs] /\ minted \in Nat /\ org[o] = NoOrganization
  BY TenKnown DEF Paired, TenantsInv, TenantsTyped, SlugsDiffer, Creations
<1> DEFINE d == Created(o)
           k == minted + 1
<1>2. /\ d \in OrganizationDocs /\ d.exists /\ d.slug = creation[o].attempt /\ d.key = k
  <2>1. k \in Nat /\ 0 \in Nat /\ TRUE \in BOOLEAN /\ FALSE \in BOOLEAN
    <3>1. k \in Nat
      BY <1>1
    <3> QED BY <3>1, Zenon
  <2>2. ASSUME NEW e \in BOOLEAN, NEW l \in BOOLEAN, NEW v \in Nat
        PROVE  LET r == [exists |-> e, slug |-> creation[o].attempt, key |-> k, listed |-> l, version |-> v]
               IN  /\ r \in OrganizationDocs
                   /\ r.exists = e /\ r.slug = creation[o].attempt /\ r.key = k
    BY <1>1, <2>1, TenDocs
  <2>3. d = [exists |-> TRUE, slug |-> creation[o].attempt, key |-> k, listed |-> FALSE, version |-> 0]
    BY DEF Created
  <2> HIDE DEF d, k
  <2>4. LET r == [exists |-> TRUE, slug |-> creation[o].attempt, key |-> k, listed |-> FALSE, version |-> 0]
        IN  /\ r \in OrganizationDocs
            /\ r.exists = TRUE /\ r.slug = creation[o].attempt /\ r.key = k
    BY <2>1, <2>2, Zenon
  <2> QED BY <2>3, <2>4, Zenon
<1>3. org' = [org EXCEPT ![o] = d]
  OBVIOUS
<1> HIDE DEF d
<1>4. /\ org' \in [Orgs -> OrganizationDocs] /\ org'[o] = d
      /\ \A p \in Orgs \ {o} : org'[p] = org[p]
  BY <1>1, <1>2, <1>3
<1>5. Taken \subseteq Taken'
  BY <1>1, <1>4 DEF Taken, Organizations
<1>6. TenantsTyped'
  <2>1. minted' \in Nat /\ minted' <= MaxKeys /\ misled' \subseteq Orgs
    BY <1>1, TenKnown, TenantsAssumption
  <2> QED BY <1>1, <1>2, <1>4, <2>1 DEF TenantsInv, TenantsTyped
<1>7. KeysStand'
  <2>1. \A p \in Orgs : org[p].key \in Nat /\ org[p].key <= minted
    BY <1>1 DEF TenantsInv, KeysStand, OrganizationDocs
  <2>2. \A n \in retired : n \in Nat /\ 0 < n /\ n <= minted
    BY DEF TenantsInv, TenantsTyped, KeysStand
  <2>3. \A p \in Orgs : org'[p].key <= minted'
    BY <1>1, <1>2, <1>4, <2>1
  <2>4. \A p, q \in Orgs : p # q /\ org'[p].key = org'[q].key => org'[p].key = NoKey
    <3> SUFFICES ASSUME NEW p \in Orgs, NEW q \in Orgs, p # q, org'[p].key = org'[q].key
                 PROVE  org'[p].key = NoKey
      OBVIOUS
    <3>1. \A r \in Orgs \ {o} : org'[r].key # k
      BY <1>1, <1>4, <2>1
    <3>2. p # o /\ q # o
      BY <1>2, <1>4, <3>1
    <3> QED BY <1>4, <3>2 DEF TenantsInv, KeysStand
  <2>5. \A n \in retired' : 0 < n /\ n <= minted'
    BY <1>1, <2>2
  <2>6. \A p \in Orgs : org'[p].key \notin retired'
    BY <1>1, <1>2, <1>4, <2>2 DEF TenantsInv, KeysStand
  <2> QED BY <2>3, <2>4, <2>5, <2>6 DEF TenantsInv, KeysStand
<1>8. SlugsDiffer'
  <2>1. \A p \in Orgs : org'[p].exists \/ org'[p] = NoOrganization
    BY <1>2, <1>4 DEF TenantsInv, SlugsDiffer
  <2>2. \A p \in Orgs \ {o} : org[p].exists => org[p].slug # d.slug
    BY <1>2 DEF Taken, Organizations
  <2> QED BY <1>4, <2>1, <2>2 DEF TenantsInv, SlugsDiffer
<1>9. ASSUME NEW p \in Orgs \ {o} PROVE Paired(p)' /\ Tried(p)' /\ Together(p)'
  <2>1. /\ Paired(p) /\ Tried(p) /\ Together(p) /\ org'[p] = org[p]
        /\ p \in misled' <=> p \in misled
    BY <1>4, TenKnown
  <2>2. Paired(p)' /\ Together(p)'
    BY <2>1 DEF Paired, Together, At, InProgress
  <2>3. Tried(p)'
    BY <1>5, <2>1 DEF Tried, At
  <2> QED BY <2>2, <2>3
<1>10. Paired(o)' /\ Tried(o)' /\ Together(o)'
  BY <1>1, <1>2, <1>4 DEF Paired, Tried, Together, At
<1>11. (\A p \in Orgs : Together(p)') => OwnerAndTenantTogether'
  BY DEF OwnerAndTenantTogether, Together
<1>12. \A p \in Orgs : Paired(p)' /\ Tried(p)' /\ Together(p)'
  BY <1>9, <1>10
<1> QED BY <1>6, <1>7, <1>8, <1>11, <1>12 DEF TenantsInv

LEMMA TenWriteOrganization ==
  ASSUME TenantsInv, NEW o \in Orgs, WriteOrganization(o)
  PROVE  TenantsInv'
<1>1. /\ At(o, "write")
      /\ UNCHANGED <<spoken, owner, retired, rotated, crossed, setting, settings>>
  BY DEF WriteOrganization, asked
<1>2. CASE creation[o].attempt \in Taken
  BY <1>1, <1>2, TenNextCandidate DEF WriteOrganization, AfterLostRace
<1>3. CASE creation[o].attempt \notin Taken
  <2>1. /\ minted < MaxKeys /\ minted' = minted + 1 /\ org' = [org EXCEPT ![o] = Created(o)]
        /\ \/ Move(o, "created") /\ misled' = misled
           \/ misled' = misled \cup {o} /\ creation' = Failing(o)
    BY <1>3 DEF WriteOrganization, Failing
  <2>2. /\ creation' \in [Orgs -> Creations]
        /\ \A p \in Orgs \ {o} : creation'[p] = creation[p]
        /\ \/ creation'[o].pc = "created" /\ misled' = misled
           \/ creation'[o].pc = "undo" /\ creation'[o].error = "failed" /\ misled' = misled \cup {o}
    BY <2>1, TenKnown, TenMoves, TenFailing DEF CreationPcs
  <2> QED BY <1>1, <1>3, <2>1, <2>2, TenWrites
<1> QED BY <1>2, <1>3

\* A step that is not a creation's leaves what creations have come to.
LEMMA TenCreationsKept ==
  ASSUME TenantsInv, UNCHANGED <<owner, creation, misled>>, Taken \subseteq Taken',
         \A o \in Orgs : org'[o].exists = org[o].exists
  PROVE  /\ \A o \in Orgs : Paired(o)' /\ Tried(o)'
         /\ OwnerAndTenantTogether'
<1>1. ASSUME NEW o \in Orgs PROVE Paired(o)' /\ Tried(o)' /\ Together(o)'
  <2>1. Paired(o) /\ Tried(o) /\ Together(o)
    BY TenKnown
  <2>2. Paired(o)' /\ Together(o)'
    BY <2>1 DEF Paired, Together, At, InProgress
  <2>3. Tried(o)'
    BY <2>1 DEF Tried, At
  <2> QED BY <2>2, <2>3
<1>2. (\A o \in Orgs : Together(o)') => OwnerAndTenantTogether'
  BY DEF OwnerAndTenantTogether, Together
<1> QED BY <1>1, <1>2

LEMMA TenElsewhere ==
  ASSUME TenantsInv, NEW c \in Candidates, Elsewhere(c)
  PROVE  TenantsInv'
<1>1. /\ spoken' = spoken \cup {c}
      /\ UNCHANGED <<org, owner, creation, minted, retired, rotated, crossed, setting, settings, misled>>
  BY DEF Elsewhere, keyring, asked
<1>2. c \in Nat
  BY TenantsAssumption DEF Candidates
<1>3. Taken \subseteq Taken'
  BY <1>1 DEF Taken, Organizations
<1>4. TenantsTyped' /\ KeysStand' /\ SlugsDiffer'
  BY <1>1, <1>2 DEF TenantsInv, TenantsTyped, KeysStand, SlugsDiffer
<1> QED BY <1>1, <1>3, <1>4, TenCreationsKept DEF TenantsInv

\* A step of a settings request that saves nothing.
LEMMA TenSettingStep ==
  ASSUME TenantsInv,
         UNCHANGED <<org, spoken, owner, creation, minted, retired, rotated, crossed, misled>>,
         setting' \in [Admins -> SettingCalls], settings' \in Nat,
         \A a \in Admins : setting'[a].pc # "idle" =>
           setting'[a].org \in Orgs /\ org[setting'[a].org].exists
  PROVE  TenantsInv'
<1>1. TenantsTyped' /\ KeysStand' /\ SlugsDiffer'
  BY DEF TenantsInv, TenantsTyped, KeysStand, SlugsDiffer
<1>2. Taken \subseteq Taken'
  BY DEF Taken, Organizations
<1> QED BY <1>1, <1>2, TenCreationsKept DEF TenantsInv

AskedFor(op, o, listed) == [NoSetting EXCEPT !.pc = "read", !.op = op, !.org = o, !.listed = listed]

LEMMA TenAskedFor ==
  ASSUME NEW op \in {"get", "replace", "rotate"}, NEW o \in Orgs, NEW listed \in BOOLEAN
  PROVE  AskedFor(op, o, listed) \in SettingCalls /\ AskedFor(op, o, listed).org = o
<1> DEFINE a == [NoSetting EXCEPT !.pc = "read"]
           b == [a EXCEPT !.op = op]
           c == [b EXCEPT !.org = o]
           d == [c EXCEPT !.listed = listed]
<1>1. a \in SettingCalls
  BY TenNoSetting DEF SettingCalls
<1> HIDE DEF a
<1>2. b \in SettingCalls
  BY <1>1 DEF SettingCalls
<1> HIDE DEF b
<1>3. c \in SettingCalls /\ c.org = o
  BY <1>2 DEF SettingCalls
<1> HIDE DEF c
<1>4. d \in SettingCalls /\ d.org = o
  BY <1>3 DEF SettingCalls
<1> HIDE DEF d
<1>5. AskedFor(op, o, listed) = d
  BY DEF AskedFor, d, c, b, a
<1> QED BY <1>4, <1>5

LEMMA TenAskSetting ==
  ASSUME TenantsInv, NEW a \in Admins, NEW o \in Orgs, NEW op \in {"get", "replace", "rotate"},
         AskSetting(a, o, op)
  PROVE  TenantsInv'
<1>1. /\ org[o].exists /\ settings' = settings + 1
      /\ UNCHANGED <<org, spoken, owner, creation, minted, retired, rotated, crossed, misled>>
      /\ setting \in [Admins -> SettingCalls] /\ settings \in Nat
  BY DEF AskSetting, slugs, keyring, TenantsInv, TenantsTyped
<1>2. PICK listed \in BOOLEAN : setting' = [setting EXCEPT ![a] = AskedFor(op, o, listed)]
  <2>1. FALSE \in BOOLEAN
    BY Zenon
  <2>2. PICK listed \in IF op = "replace" THEN BOOLEAN ELSE {FALSE} :
          setting' = [setting EXCEPT ![a] = AskedFor(op, o, listed)]
    BY DEF AskSetting, AskedFor
  <2>3. listed \in BOOLEAN
    BY <2>1, <2>2
  <2> QED BY <2>2, <2>3
<1>3. /\ setting' \in [Admins -> SettingCalls] /\ setting'[a].org = o
      /\ \A b \in Admins \ {a} : setting'[b] = setting[b]
  BY <1>1, <1>2, TenAskedFor
<1> QED BY <1>1, <1>3, TenSettingStep DEF TenantsInv, TenantsTyped

LEMMA TenSettingOver ==
  ASSUME TenantsInv, NEW a \in Admins, setting' = [setting EXCEPT ![a] = NoSetting]
  PROVE  /\ setting' \in [Admins -> SettingCalls] /\ setting'[a].pc = "idle"
         /\ \A b \in Admins \ {a} : setting'[b] = setting[b]
         /\ settings \in Nat
BY TenNoSetting DEF TenantsInv, TenantsTyped

ReadCall(s, o) ==
  [s EXCEPT !.pc = "save", !.key = o.key, !.version = o.version, !.was = o.listed]

LEMMA TenReadCall ==
  ASSUME NEW s \in SettingCalls, NEW o \in OrganizationDocs
  PROVE  ReadCall(s, o) \in SettingCalls /\ ReadCall(s, o).org = s.org
<1> DEFINE a == [s EXCEPT !.pc = "save"]
           b == [a EXCEPT !.key = o.key]
           c == [b EXCEPT !.version = o.version]
           d == [c EXCEPT !.was = o.listed]
<1>1. a \in SettingCalls /\ a.org = s.org
  BY DEF SettingCalls
<1>2. o.key \in Nat /\ o.version \in Nat /\ o.listed \in BOOLEAN
  BY DEF OrganizationDocs
<1> HIDE DEF a
<1>3. b \in SettingCalls /\ b.org = s.org
  BY <1>1, <1>2 DEF SettingCalls
<1> HIDE DEF b
<1>4. c \in SettingCalls /\ c.org = s.org
  BY <1>2, <1>3 DEF SettingCalls
<1> HIDE DEF c
<1>5. d \in SettingCalls /\ d.org = s.org
  BY <1>2, <1>4 DEF SettingCalls
<1> HIDE DEF d
<1>6. ReadCall(s, o) = d
  BY DEF ReadCall, d, c, b, a
<1> QED BY <1>5, <1>6

LEMMA TenReadSettings ==
  ASSUME TenantsInv, NEW a \in Admins, ReadSettings(a)
  PROVE  TenantsInv'
<1> DEFINE o == org[setting[a].org]
           s == ReadCall(setting[a], o)
<1>1. /\ setting[a].pc = "read" /\ setting[a].org \in Orgs /\ o.exists
      /\ UNCHANGED <<org, spoken, owner, creation, minted, retired, rotated, crossed, misled, settings>>
      /\ setting \in [Admins -> SettingCalls] /\ settings \in Nat /\ o \in OrganizationDocs
  BY DEF ReadSettings, slugs, keyring, TenantsInv, TenantsTyped
<1>2. s \in SettingCalls /\ s.org = setting[a].org
  BY <1>1, TenReadCall
<1>3. setting' = [setting EXCEPT ![a] = IF WritesKey(s) \/ WritesOrigins(s) THEN s ELSE NoSetting]
  BY DEF ReadSettings, ReadCall
<1> HIDE DEF s
<1>4. /\ setting' \in [Admins -> SettingCalls]
      /\ setting'[a].pc # "idle" => setting'[a].org = setting[a].org
      /\ \A b \in Admins \ {a} : setting'[b] = setting[b]
  BY <1>1, <1>2, <1>3, TenNoSetting
<1> QED BY <1>1, <1>4, TenSettingStep DEF TenantsInv, TenantsTyped

LEMMA TenSettingFails ==
  ASSUME TenantsInv, NEW a \in Admins, SettingFails(a)
  PROVE  TenantsInv'
<1>1. /\ setting' = [setting EXCEPT ![a] = NoSetting]
      /\ UNCHANGED <<org, spoken, owner, creation, minted, retired, rotated, crossed, misled, settings>>
  BY DEF SettingFails, slugs, keyring
<1> QED BY <1>1, TenSettingOver, TenSettingStep DEF TenantsInv, TenantsTyped

SavedDoc(d, inForce, listed, version) == [d EXCEPT !.key = inForce, !.listed = listed, !.version = version]

LEMMA TenSavedDoc ==
  ASSUME NEW d \in OrganizationDocs, NEW inForce \in Nat, NEW listed \in BOOLEAN, NEW version \in Nat
  PROVE  LET e == SavedDoc(d, inForce, listed, version)
         IN  /\ e \in OrganizationDocs
             /\ (e.exists <=> d.exists) /\ e.slug = d.slug /\ e.key = inForce
<1> DEFINE a == [d EXCEPT !.key = inForce]
           b == [a EXCEPT !.listed = listed]
           c == [b EXCEPT !.version = version]
<1>1. a \in OrganizationDocs /\ a.exists = d.exists /\ a.slug = d.slug /\ a.key = inForce
  BY DEF OrganizationDocs
<1> HIDE DEF a
<1>2. b \in OrganizationDocs /\ b.exists = a.exists /\ b.slug = a.slug /\ b.key = a.key
  BY <1>1 DEF OrganizationDocs
<1> HIDE DEF b
<1>3. c \in OrganizationDocs /\ c.exists = b.exists /\ c.slug = b.slug /\ c.key = b.key
  BY <1>2 DEF OrganizationDocs
<1> HIDE DEF c
<1>4. SavedDoc(d, inForce, listed, version) = c
  BY DEF SavedDoc, c, b, a
<1> QED BY <1>1, <1>2, <1>3, <1>4

\* What a save does to the organization's key and to the keys before it.
LEMMA TenSaved ==
  ASSUME TenantsInv, NEW a \in Admins, SaveSettings(a), keyring' # keyring \/ org' # org
  PROVE  LET s == setting[a]
             out == {org[s.org].key} \ {NoKey, org'[s.org].key}
         IN  /\ s.org \in Orgs
             /\ org' \in [Orgs -> OrganizationDocs]
             /\ \A p \in Orgs : /\ org'[p].exists = org[p].exists /\ org'[p].slug = org[p].slug
                                /\ p # s.org => org'[p] = org[p]
             /\ org[s.org].exists
             /\ retired' = retired \cup out
             /\ rotated' \cup crossed' = rotated \cup crossed \cup out
             /\ \/ org'[s.org].key = org[s.org].key /\ minted' = minted
                \/ org'[s.org].key = minted + 1 /\ minted' = minted + 1 /\ minted < MaxKeys
<1> DEFINE s == setting[a]
           old == org[s.org]
           inForce == IF Mints(s) THEN minted + 1 ELSE old.key
           out == {old.key} \ {NoKey, inForce}
           listed == IF WritesOrigins(s) THEN s.listed ELSE old.listed
           version == IF WritesOrigins(s) THEN old.version + 1 ELSE old.version
<1>1. /\ s.pc = "save" /\ s.org \in Orgs /\ old.exists
      /\ s \in SettingCalls /\ old \in OrganizationDocs /\ minted \in Nat
      /\ org \in [Orgs -> OrganizationDocs]
  BY DEF SaveSettings, TenantsInv, TenantsTyped
<1>2. /\ Mints(s) => minted < MaxKeys
      /\ org' = [org EXCEPT ![s.org] = SavedDoc(old, inForce, listed, version)]
      /\ minted' = IF Mints(s) THEN minted + 1 ELSE minted
      /\ retired' = retired \cup out
      /\ rotated' = IF s.op = "rotate" THEN rotated \cup out ELSE rotated
      /\ crossed' = IF s.key = NoKey THEN crossed \cup out ELSE crossed
  BY DEF SaveSettings, WritesKey, SavedDoc, keyring
<1>3. old.key \in Nat /\ old.version \in Nat /\ old.listed \in BOOLEAN /\ s.listed \in BOOLEAN
  BY <1>1 DEF OrganizationDocs, SettingCalls
<1>4. inForce \in Nat /\ listed \in BOOLEAN /\ version \in Nat
  BY <1>1, <1>3
<1>5. /\ ~Mints(s) => out = {} /\ inForce = old.key
      /\ Mints(s) => (s.op = "rotate" \/ s.key = NoKey) /\ inForce = minted + 1
  BY DEF Mints
<1> HIDE DEF inForce, out, listed, version
<1>6. PICK e : e = SavedDoc(old, inForce, listed, version)
  OBVIOUS
<1>7. e \in OrganizationDocs /\ e.exists = old.exists /\ e.slug = old.slug /\ e.key = inForce
  <2>1. LET x == SavedDoc(old, inForce, listed, version)
        IN  x \in OrganizationDocs /\ (x.exists <=> old.exists) /\ x.slug = old.slug /\ x.key = inForce
    <3> HIDE DEF old, s
    <3> QED BY <1>1, <1>4, TenSavedDoc
  <2>2. e \in OrganizationDocs /\ (e.exists <=> old.exists) /\ e.slug = old.slug /\ e.key = inForce
    BY <1>6, <2>1, Zenon
  <2> QED BY <1>1, <2>2 DEF OrganizationDocs
<1>8. /\ org' \in [Orgs -> OrganizationDocs] /\ org'[s.org] = e
      /\ \A p \in Orgs \ {s.org} : org'[p] = org[p]
  BY <1>1, <1>2, <1>6, <1>7
<1>9. \A p \in Orgs : org'[p].exists = org[p].exists /\ org'[p].slug = org[p].slug
                      /\ (p # s.org => org'[p] = org[p])
  BY <1>7, <1>8
<1>10. out = {old.key} \ {NoKey, org'[s.org].key}
  BY <1>7, <1>8 DEF out
<1>11. rotated' \cup crossed' = rotated \cup crossed \cup out
  BY <1>2, <1>5
<1>12. \/ org'[s.org].key = org[s.org].key /\ minted' = minted
       \/ org'[s.org].key = minted + 1 /\ minted' = minted + 1 /\ minted < MaxKeys
  BY <1>2, <1>5, <1>7, <1>8
<1> QED BY <1>1, <1>2, <1>8, <1>9, <1>10, <1>11, <1>12

LEMMA TenSaveSettings ==
  ASSUME TenantsInv, NEW a \in Admins, SaveSettings(a)
  PROVE  TenantsInv'
<1>1. /\ setting' = [setting EXCEPT ![a] = NoSetting]
      /\ UNCHANGED <<spoken, owner, creation, misled, settings>>
  BY DEF SaveSettings
<1>2. CASE keyring' = keyring /\ org' = org
  BY <1>1, <1>2, TenSettingOver, TenSettingStep DEF TenantsInv, TenantsTyped, keyring
<1>3. CASE keyring' # keyring \/ org' # org
  <2>1. PICK o \in Orgs :
          /\ org' \in [Orgs -> OrganizationDocs]
          /\ \A p \in Orgs : /\ org'[p].exists = org[p].exists /\ org'[p].slug = org[p].slug
                             /\ p # o => org'[p] = org[p]
          /\ org[o].exists
          /\ retired' = retired \cup ({org[o].key} \ {NoKey, org'[o].key})
          /\ rotated' \cup crossed' = rotated \cup crossed \cup ({org[o].key} \ {NoKey, org'[o].key})
          /\ \/ org'[o].key = org[o].key /\ minted' = minted
             \/ org'[o].key = minted + 1 /\ minted' = minted + 1 /\ minted < MaxKeys
    BY <1>3, TenSaved
  <2>2. /\ minted \in Nat /\ retired \subseteq Nat /\ rotated \cup crossed = retired
        /\ \A p \in Orgs : org[p].key \in Nat /\ org[p].key <= minted
        /\ \A n \in retired : 0 < n /\ n <= minted
    BY DEF TenantsInv, TenantsTyped, KeysStand, OrganizationDocs
  <2>3. minted' \in Nat /\ minted' <= MaxKeys /\ minted <= minted'
    BY <2>1, <2>2, TenantsAssumption DEF TenantsInv, TenantsTyped
  <2>4. KeysStand'
    <3>1. \A p \in Orgs : org'[p].key <= minted'
      BY <2>1, <2>2, <2>3
    <3>2. \A p, q \in Orgs : p # q /\ org'[p].key = org'[q].key => org'[p].key = NoKey
      <4> SUFFICES ASSUME NEW p \in Orgs, NEW q \in Orgs, p # q, org'[p].key = org'[q].key
                   PROVE  org'[p].key = NoKey
        OBVIOUS
      <4>1. CASE org'[o].key = org[o].key
        BY <2>1, <4>1 DEF TenantsInv, KeysStand
      <4>2. CASE org'[o].key = minted + 1
        <5>1. \A r \in Orgs \ {o} : org'[r].key # minted + 1
          BY <2>1, <2>2
        <5>2. p # o /\ q # o
          BY <4>2, <5>1
        <5> QED BY <2>1, <5>2 DEF TenantsInv, KeysStand
      <4> QED BY <2>1, <4>1, <4>2
    <3>3. \A n \in retired' : 0 < n /\ n <= minted'
      BY <2>1, <2>2, <2>3 DEF NoKey
    <3>4. \A p \in Orgs : org'[p].key \notin retired'
      <4>1. org'[o].key \notin retired'
        <5>1. org'[o].key \notin retired
          BY <2>1, <2>2 DEF TenantsInv, KeysStand
        <5> QED BY <2>1, <5>1
      <4>2. ASSUME NEW p \in Orgs \ {o} PROVE org'[p].key \notin retired'
        <5>1. org'[p] = org[p] /\ org[p].key \notin retired
              /\ (org[p].key = org[o].key => org[o].key = NoKey)
          BY <2>1 DEF TenantsInv, KeysStand
        <5> QED BY <2>1, <5>1
      <4> QED BY <4>1, <4>2
    <3>5. rotated' \cup crossed' = retired'
      BY <2>1, <2>2
    <3> QED BY <3>1, <3>2, <3>3, <3>4, <3>5 DEF KeysStand
  <2>5. SlugsDiffer'
    <3>1. \A p \in Orgs : org'[p].exists \/ org'[p] = NoOrganization
      BY <2>1 DEF TenantsInv, SlugsDiffer
    <3> QED BY <2>1, <3>1 DEF TenantsInv, SlugsDiffer
  <2>6. TenantsTyped'
    <3>1. retired' \subseteq Nat /\ rotated' \subseteq Nat /\ crossed' \subseteq Nat
      BY <2>1, <2>2
    <3>2. /\ setting' \in [Admins -> SettingCalls] /\ settings \in Nat
          /\ \A b \in Admins : setting'[b].pc # "idle" => setting'[b] = setting[b]
      BY <1>1, TenSettingOver
    <3> QED BY <1>1, <2>1, <2>3, <3>1, <3>2 DEF TenantsInv, TenantsTyped
  <2>7. Taken \subseteq Taken'
    BY <1>1, <2>1 DEF Taken, Organizations
  <2> QED BY <1>1, <2>1, <2>4, <2>5, <2>6, <2>7, TenCreationsKept DEF TenantsInv
<1> QED BY <1>2, <1>3

LEMMA TenCrash ==
  ASSUME TenantsInv, Crash
  PROVE  TenantsInv'
<1>1. /\ creation' = [o \in Orgs |-> IF InProgress(o) THEN [creation[o] EXCEPT !.pc = "died"]
                                                      ELSE creation[o]]
      /\ setting' = [a \in Admins |-> NoSetting]
      /\ misled' = misled \cup {o \in Orgs : InProgress(o)}
      /\ UNCHANGED <<org, spoken, owner, minted, retired, rotated, crossed, settings>>
  BY DEF Crash, slugs, keyring
<1>2. /\ creation' \in [Orgs -> Creations]
      /\ \A o \in Orgs : /\ InProgress(o) => creation'[o].pc = "died"
                         /\ ~InProgress(o) => creation'[o] = creation[o]
  <2>1. ASSUME NEW o \in Orgs
        PROVE  /\ [creation[o] EXCEPT !.pc = "died"] \in Creations
               /\ [creation[o] EXCEPT !.pc = "died"].pc = "died"
               /\ creation[o] \in Creations
    BY TenKnown DEF Creations, CreationPcs
  <2> QED BY <1>1, <2>1
<1>3. TenantsTyped' /\ KeysStand' /\ SlugsDiffer'
  BY <1>1, <1>2, TenNoSetting DEF TenantsInv, TenantsTyped, KeysStand, SlugsDiffer
<1>4. ASSUME NEW o \in Orgs PROVE Paired(o)' /\ Tried(o)' /\ Together(o)'
  <2>1. Paired(o) /\ Tried(o) /\ Together(o)
    BY TenKnown
  <2>2. Taken' = Taken
    BY <1>1 DEF Taken, Organizations
  <2>3. CASE InProgress(o)
    BY <1>1, <1>2, <2>3 DEF Paired, Tried, Together, At
  <2>4. CASE ~InProgress(o)
    <3>1. creation'[o] = creation[o] /\ (o \in misled' <=> o \in misled)
      BY <1>1, <1>2, <2>4
    <3> QED BY <1>1, <2>1, <2>2, <3>1 DEF Paired, Tried, Together, At, InProgress
  <2> QED BY <2>3, <2>4
<1>5. (\A o \in Orgs : Together(o)') => OwnerAndTenantTogether'
  BY DEF OwnerAndTenantTogether, Together
<1> QED BY <1>3, <1>4, <1>5 DEF TenantsInv

LEMMA TenantsStepOK == TenantsInv /\ [TenantsNext]_tenants => TenantsInv'
<1> SUFFICES ASSUME TenantsInv, [TenantsNext]_tenants PROVE TenantsInv'
  OBVIOUS
<1>1. ASSUME NEW o \in Orgs,
             \/ Gate(o) \/ CreateOwner(o) \/ Look(o) \/ WriteOrganization(o) \/ CreationFails(o)
             \/ Undo(o)
      PROVE  TenantsInv'
  BY <1>1, TenGate, TenCreateOwner, TenLook, TenWriteOrganization, TenCreationFails, TenUndo
<1>2. ASSUME NEW a \in Admins,
             \/ \E o \in Orgs, op \in {"get", "replace", "rotate"} : AskSetting(a, o, op)
             \/ ReadSettings(a) \/ SaveSettings(a) \/ SettingFails(a)
      PROVE  TenantsInv'
  BY <1>2, TenAskSetting, TenReadSettings, TenSaveSettings, TenSettingFails
<1>3. ASSUME UNCHANGED tenants PROVE TenantsInv'
  BY <1>3, TenSettingStep DEF tenants, TenantsInv, TenantsTyped
<1> QED BY <1>1, <1>2, <1>3, TenElsewhere, TenCrash DEF TenantsNext

LEMMA TenantsInvariant == TenantsSpec => []TenantsInv
BY TenantsInitially, TenantsStepOK, PTL DEF TenantsSpec

LEMMA TenantsTypes == TenantsInv => TenantsTypeOK
BY DEF TenantsInv, TenantsTyped, KeysStand, SlugsDiffer, Tried, At, Organizations, TenantsTypeOK

\* ADR-016, sections 3 and 4: an organization that exists has its owner's
\* membership, and a membership without its organization belongs to a creation
\* that is still under way, however creations (createOrganization, which writes
\* the owner first and takes it back when the organization cannot be written)
\* and settings requests interleave - except where a write was applied and
\* reported failed, the taking back failed, or the process died.
THEOREM TenantsOwnerAndTenantTogether == TenantsSpec => []OwnerAndTenantTogether
<1>1. TenantsInv => OwnerAndTenantTogether
  BY DEF TenantsInv
<1> QED BY <1>1, TenantsInvariant, PTL

\* createOrganization says that a name is exhausted only when every slug it may
\* try is reserved or taken: a candidate found free and lost to another creation
\* is taken by then, and stays taken.
THEOREM TenantsNotExhaustedFalsely == TenantsSpec => []NotExhaustedFalsely
<1>1. TenantsInv => NotExhaustedFalsely
  BY DEF TenantsInv, Tried, NotExhaustedFalsely
<1> QED BY <1>1, TenantsInvariant, PTL

\* A widget key that was replaced is in force nowhere again, and it was replaced
\* by a rotation, or by a request that had read the organization before it had a
\* key (ensureWidgetKey): saves of documents read earlier bring no older key back.
THEOREM TenantsKeyStandsUntilRotated == TenantsSpec => []KeyStandsUntilRotated
<1>1. TenantsInv => KeyStandsUntilRotated
  BY DEF TenantsInv, KeysStand, KeyStandsUntilRotated
<1> QED BY <1>1, TenantsInvariant, PTL

\* What a step of the organizations leaves: they stay, and whoever has another
\* key has a new one.
LEMMA TenantsOnward ==
  ASSUME TenantsInv, [TenantsNext]_tenants
  PROVE  /\ minted' \in Nat /\ minted <= minted'
         /\ \A o \in Orgs : /\ org[o].exists => org'[o].exists
                            /\ org'[o].key \in {org[o].key, minted + 1}
<1>1. minted \in Nat /\ org \in [Orgs -> OrganizationDocs]
  BY DEF TenantsInv, TenantsTyped
<1>2. CASE org' = org /\ minted' = minted
  BY <1>1, <1>2
<1>3. ASSUME NEW a \in Admins, SaveSettings(a), ~(org' = org /\ minted' = minted)
      PROVE  minted' \in Nat /\ minted <= minted'
             /\ \A o \in Orgs : (org[o].exists => org'[o].exists) /\ org'[o].key \in {org[o].key, minted + 1}
  <2>1. keyring' # keyring \/ org' # org
    BY <1>3 DEF keyring
  <2>2. PICK o \in Orgs :
          /\ \A p \in Orgs : org'[p].exists = org[p].exists /\ (p # o => org'[p] = org[p])
          /\ \/ org'[o].key = org[o].key /\ minted' = minted
             \/ org'[o].key = minted + 1 /\ minted' = minted + 1
    BY <1>3, <2>1, TenSaved
  <2> QED BY <1>1, <2>2
<1>4. ASSUME NEW o \in Orgs, WriteOrganization(o), ~(org' = org /\ minted' = minted)
      PROVE  minted' \in Nat /\ minted <= minted'
             /\ \A p \in Orgs : (org[p].exists => org'[p].exists) /\ org'[p].key \in {org[p].key, minted + 1}
  <2>1. org' = [org EXCEPT ![o] = Created(o)] /\ minted' = minted + 1
    BY <1>4 DEF WriteOrganization
  <2>2. Created(o).exists /\ Created(o).key = minted + 1
    BY DEF Created
  <2> QED BY <1>1, <2>1, <2>2
<1>5. \/ org' = org /\ minted' = minted
      \/ \E a \in Admins : SaveSettings(a)
      \/ \E o \in Orgs : WriteOrganization(o)
  BY DEF TenantsNext, tenants, slugs, keyring, Gate, CreateOwner, Look, CreationFails, Undo, Elsewhere,
     AskSetting, ReadSettings, SettingFails, Crash
<1> QED BY <1>2, <1>3, <1>4, <1>5

----------------------------------------------------------------------------
(* WidgetSessions: every step keeps the invariant.                         *)

\* What every step leaves of tenants, customers and expired tokens.
VisOnward ==
  /\ minted' \in Nat /\ minted <= minted'
  /\ \A o \in Orgs : /\ org[o].exists => org'[o].exists
                     /\ org'[o].key \in {org[o].key, minted + 1}
  /\ \A c \in Customers : c \in Customers' /\ customer'[c] = customer[c]
  /\ expired \subseteq expired'

\* A request is over, or goes on with its key and token.
VisPass ==
  \A v \in Visits :
    /\ v \in Visits'
    /\ visit'[v].step # "over" =>
         visit[v].step # "over" /\ visit'[v].key = visit[v].key /\ visit'[v].token = visit[v].token

LEMMA VisKnown ==
  ASSUME VisitsInv
  PROVE  /\ minted \in Nat /\ minted <= MaxKeys /\ MaxKeys \in Nat
         /\ org \in [Orgs -> OrganizationDocs] /\ \A o \in Orgs : org[o].key \in Nat /\ org[o].key <= minted
         /\ customer \in Seq(Orgs) /\ Len(customer) \in Nat
         /\ visit \in Seq(VisitRecords) /\ Visits = 1..Len(visit) /\ Len(visit) \in Nat
         /\ \A v \in Visits : visit[v] \in VisitRecords
         /\ \A t \in Tabs : page[t] \in Pages
         /\ \A t \in Tabs, k \in Keys : storage[t][k] \in Customers \cup {Nobody}
         /\ TenantsInv /\ Nobody \notin Customers
<1>1. VisitsTyped /\ TenantsInv /\ TenantsTyped /\ KeysStand
  BY DEF VisitsInv, TenantsInv
<1>2. visit \in Seq(VisitRecords) /\ Visits = 1..Len(visit) /\ Len(visit) \in Nat
  BY <1>1 DEF VisitsTyped, Visits
<1>3. \A v \in Visits : visit[v] \in VisitRecords
  BY <1>2
<1>4. \A o \in Orgs : org[o].key \in Nat /\ org[o].key <= minted
  BY <1>1 DEF TenantsTyped, KeysStand, OrganizationDocs
<1>5. \A t \in Tabs : storage[t] \in [Keys -> Customers \cup {Nobody}]
  BY <1>1 DEF VisitsTyped
<1>6. Nobody \notin Customers
  BY DEF Nobody, Customers
<1> QED BY <1>1, <1>2, <1>3, <1>4, <1>5, <1>6, TenantsAssumption DEF VisitsTyped, TenantsTyped

LEMMA VisOfKey ==
  ASSUME VisitsInv, VisOnward, NEW c, NEW k \in Nat, OfKey(c, k)
  PROVE  OfKey(c, k)'
<1> SUFFICES ASSUME c # Nobody PROVE OfKey(c, k)'
  BY DEF OfKey
<1>1. c \in Customers /\ k <= minted /\ minted \in Nat /\ minted' \in Nat /\ minted <= minted'
  BY VisKnown DEF OfKey, VisOnward
<1>2. \A o \in Orgs : org'[o].key = k => org[o].key = k
  BY <1>1 DEF VisOnward
<1> QED BY <1>1, <1>2 DEF OfKey, VisOnward

LEMMA VisVisitOK ==
  ASSUME VisitsInv, VisOnward, NEW v \in Visits, v \in Visits', visit'[v] = visit[v]
  PROVE  VisitOK(v)'
<1>1. /\ VisitOK(v) /\ visit[v] \in VisitRecords
      /\ minted \in Nat /\ minted' \in Nat /\ minted <= minted'
  BY VisKnown DEF VisitsInv, VisOnward
<1>2. visit[v].key \in Nat /\ visit[v].token \in Nat
  BY <1>1 DEF VisitRecords
<1>3. visit[v].step # "over" => visit[v].key <= minted' /\ OfKey(visit[v].token, visit[v].key)'
  BY <1>1, <1>2, VisOfKey DEF VisitOK
<1>4. visit[v].step \in {"resume", "create", "answer"} =>
        /\ visit[v].org \in Orgs /\ org'[visit[v].org].exists /\ visit[v].key # NoKey
        /\ \A o \in Orgs : org'[o].key = visit[v].key => o = visit[v].org
  <2> SUFFICES ASSUME visit[v].step \in {"resume", "create", "answer"}
               PROVE  /\ visit[v].org \in Orgs /\ org'[visit[v].org].exists /\ visit[v].key # NoKey
                      /\ \A o \in Orgs : org'[o].key = visit[v].key => o = visit[v].org
    OBVIOUS
  <2>1. visit[v].key <= minted
    BY <1>1 DEF VisitOK
  <2>2. \A o \in Orgs : org'[o].key = visit[v].key => org[o].key = visit[v].key
    BY <1>1, <1>2, <2>1 DEF VisOnward
  <2> QED BY <1>1, <2>2 DEF VisitOK, VisOnward
<1> QED BY <1>1, <1>3, <1>4 DEF VisitOK, VisOnward

LEMMA VisPageOK ==
  ASSUME VisitsInv, VisOnward, VisPass, NEW t \in Tabs, page'[t] = page[t], storage'[t] = storage[t]
  PROVE  PageOK(t)'
<1>1. /\ PageOK(t) /\ page[t] \in Pages
      /\ minted \in Nat /\ minted' \in Nat /\ minted <= minted'
  BY VisKnown DEF VisitsInv, VisOnward
<1>2. page[t].key \in Nat
  BY <1>1 DEF Pages, Keys
<1>3. page[t].key <= minted' /\ OfKey(page[t].customer, page[t].key)'
  BY <1>1, <1>2, VisOfKey DEF PageOK
<1>4. page[t].visit # 0 =>
        /\ page[t].visit \in Visits' /\ page[t].status \in {"loading", "ready"}
        /\ visit'[page[t].visit].step # "over" =>
             /\ visit'[page[t].visit].key = page[t].key
             /\ storage[t][page[t].key] \in {Nobody, visit'[page[t].visit].token} \cup expired'
             /\ page[t].status = "ready" => visit'[page[t].visit].token = page[t].customer
  BY <1>1 DEF PageOK, VisPass, VisOnward, Under
<1> QED BY <1>1, <1>3, <1>4 DEF PageOK, VisOnward, Under

\* The step of a tab, or of a request, that leaves tenants and customers alone.
LEMMA VisStill ==
  ASSUME VisitsInv, UNCHANGED <<tenants, customer>>, expired \subseteq expired'
  PROVE  VisOnward /\ TenantsInv'
<1>1. TenantsInv'
  BY TenantsStepOK DEF VisitsInv
<1>2. VisOnward
  BY VisKnown DEF VisOnward, tenants, Customers
<1> QED BY <1>1, <1>2

LEMMA WidgetSessionsInitially == WidgetSessionsInit => VisitsInv
<1> SUFFICES ASSUME WidgetSessionsInit PROVE VisitsInv
  OBVIOUS
<1>1. TenantsInv /\ TenantsTyped /\ KeysStand
  BY TenantsInitially DEF WidgetSessionsInit, TenantsInv
<1>2. /\ customer = <<>> /\ visit = <<>> /\ expired = {} /\ dropped = {}
      /\ embedded = [o \in Orgs |-> org[o].key]
      /\ storage = [t \in Tabs |-> [k \in Keys |-> Nobody]]
  BY DEF WidgetSessionsInit
<1>3. PICK o \in Orgs : page = [t \in Tabs |-> Page(o, NoKey, "none")]
  BY DEF WidgetSessionsInit
<1>4. Customers = {} /\ Visits = {}
  BY <1>2 DEF Customers, Visits
<1>5. NoKey \in Keys /\ MaxKeys \in Nat /\ minted \in Nat
  BY <1>1, TenantsAssumption DEF NoKey, Keys, TenantsTyped
<1>6. /\ Page(o, NoKey, "none") \in Pages
      /\ Page(o, NoKey, "none").key = NoKey /\ Page(o, NoKey, "none").visit = 0
      /\ Page(o, NoKey, "none").status = "none"
      /\ Page(o, NoKey, "none").customer = Nobody /\ Page(o, NoKey, "none").shown = Nobody
  BY <1>5 DEF Page, Pages, PageStates, Nobody
<1>7. VisitsTyped
  <2>1. \A o1 \in Orgs : org[o1].key \in Nat /\ org[o1].key <= minted
    BY <1>1 DEF TenantsTyped, KeysStand, OrganizationDocs
  <2> QED BY <1>2, <1>3, <1>4, <1>6, <2>1 DEF VisitsTyped
<1>8. \A t \in Tabs : PageOK(t)
  BY <1>3, <1>5, <1>6 DEF PageOK, OfKey, NoKey
<1>9. \A t \in Tabs, k \in Keys : OfKey(storage[t][k], k)
  BY <1>2 DEF OfKey
<1> QED BY <1>1, <1>4, <1>7, <1>8, <1>9 DEF VisitsInv

\* A tenant's step.
LEMMA VisTenants ==
  ASSUME VisitsInv, [TenantsNext]_tenants, UNCHANGED sessions
  PROVE  VisitsInv'
<1>1. TenantsInv' /\ UNCHANGED <<customer, embedded, page, storage, visit, expired, dropped>>
  BY TenantsStepOK DEF VisitsInv, sessions
<1>2. VisOnward
  BY <1>1, VisKnown, TenantsOnward DEF VisOnward, Customers
<1>3. VisPass
  BY <1>1 DEF VisPass, Visits
<1>4. VisitsTyped'
  <2>1. \A o \in Orgs : embedded[o] <= minted'
    BY <1>2, VisKnown DEF VisitsInv, VisitsTyped, VisOnward
  <2>2. \A c \in Customers : customer[c] \in Orgs /\ org'[customer[c]].exists
    <3>1. \A c \in Customers : customer[c] \in Orgs
      BY VisKnown DEF Customers
    <3> QED BY <1>2, <3>1 DEF VisitsInv, VisitsTyped, VisOnward
  <2> QED BY <1>1, <2>1, <2>2 DEF VisitsInv, VisitsTyped, Customers
<1>5. \A t \in Tabs, k \in Keys : OfKey(storage[t][k], k)'
  <2>1. \A k \in Keys : k \in Nat
    BY DEF Keys
  <2> QED BY <1>1, <1>2, <2>1, VisOfKey DEF VisitsInv
<1>6. \A v \in Visits' : VisitOK(v)'
  BY <1>1, <1>2, VisVisitOK DEF Visits
<1>7. \A t \in Tabs : PageOK(t)'
  BY <1>1, <1>2, <1>3, VisPageOK
<1>8. \A c \in Customers' \ (dropped' \cup expired') : Kept(c)'
  BY <1>1 DEF VisitsInv, Customers, Kept, OnItsWay, Visits
<1> QED BY <1>1, <1>4, <1>5, <1>6, <1>7, <1>8 DEF VisitsInv

\* A step of one tab, which makes no request and forgets, at most, tokens.
LEMMA VisTabStep ==
  ASSUME VisitsInv, NEW t \in Tabs, UNCHANGED <<tenants, customer, embedded, visit, expired>>,
         page' \in [Tabs -> Pages], storage' \in [Tabs -> [Keys -> Customers \cup {Nobody}]],
         dropped \subseteq dropped', dropped' \subseteq Customers,
         \A u \in Tabs \ {t} : page'[u] = page[u] /\ storage'[u] = storage[u],
         \A k \in Keys : /\ storage'[t][k] \in {storage[t][k], Nobody}
                         /\ storage'[t][k] # storage[t][k] =>
                              storage[t][k] \in dropped' \cup expired \cup {Nobody},
         PageOK(t)'
  PROVE  VisitsInv'
<1>1. VisOnward /\ TenantsInv' /\ VisPass /\ Customers' = Customers /\ Visits' = Visits
  BY VisStill DEF VisPass, Visits, Customers
<1>2. VisitsTyped'
  BY <1>1 DEF VisitsInv, VisitsTyped, tenants
<1>3. \A u \in Tabs, k \in Keys : OfKey(storage[u][k], k)'
  <2> SUFFICES ASSUME NEW u \in Tabs, NEW k \in Keys PROVE OfKey(storage[u][k], k)'
    OBVIOUS
  <2>1. storage'[u][k] = storage[u][k] \/ storage'[u][k] = Nobody
    OBVIOUS
  <2>2. k \in Nat /\ OfKey(storage[u][k], k)
    BY DEF VisitsInv, Keys
  <2>3. CASE storage'[u][k] = Nobody
    BY <2>3 DEF OfKey
  <2>4. CASE storage'[u][k] = storage[u][k]
    <3>1. PICK c : c = storage[u][k]
      OBVIOUS
    <3>2. OfKey(c, k)'
      BY <1>1, <2>2, <3>1, VisOfKey
    <3> QED BY <2>4, <3>1, <3>2 DEF OfKey
  <2> QED BY <2>1, <2>3, <2>4
<1>4. \A v \in Visits' : VisitOK(v)'
  BY <1>1, VisVisitOK
<1>5. \A u \in Tabs : PageOK(u)'
  BY <1>1, VisPageOK
<1>6. \A c \in Customers' \ (dropped' \cup expired') : Kept(c)'
  <2> SUFFICES ASSUME NEW c \in Customers \ (dropped' \cup expired) PROVE Kept(c)'
    BY <1>1
  <2>1. Kept(c) /\ c # Nobody
    BY VisKnown DEF VisitsInv
  <2>2. ASSUME OnItsWay(c) PROVE OnItsWay(c)'
    BY <2>2 DEF OnItsWay, Visits
  <2>3. ASSUME NEW u \in Tabs, NEW k \in Keys, storage[u][k] = c PROVE storage'[u][k] = c
    BY <2>1, <2>3
  <2> QED BY <2>1, <2>2, <2>3 DEF Kept
<1> QED BY <1>1, <1>2, <1>3, <1>4, <1>5, <1>6 DEF VisitsInv

\* A page that waits for nothing and shows nobody.
LEMMA VisBlank ==
  ASSUME VisitsInv, UNCHANGED tenants, NEW t \in Tabs, NEW o \in Orgs, NEW k \in Keys, k <= minted,
         NEW status \in {"none", "closed", "error"},
         page' = [page EXCEPT ![t] = Page(o, k, status)]
  PROVE  /\ page' \in [Tabs -> Pages] /\ PageOK(t)'
         /\ \A u \in Tabs \ {t} : page'[u] = page[u]
<1>1. /\ Page(o, k, status) \in Pages
      /\ Page(o, k, status).key = k /\ Page(o, k, status).visit = 0
      /\ Page(o, k, status).status = status
      /\ Page(o, k, status).customer = Nobody /\ Page(o, k, status).shown = Nobody
  BY DEF Page, Pages, PageStates, Nobody
<1>2. page' \in [Tabs -> Pages] /\ page'[t] = Page(o, k, status)
      /\ \A u \in Tabs \ {t} : page'[u] = page[u]
  BY <1>1 DEF VisitsInv, VisitsTyped
<1>3. PageOK(t)'
  BY <1>1, <1>2 DEF PageOK, OfKey, tenants
<1> QED BY <1>2, <1>3

LEMMA VisLoad ==
  ASSUME VisitsInv, NEW t \in Tabs, NEW o \in Orgs, Load(t, o)
  PROVE  VisitsInv'
<1>1. /\ page' = [page EXCEPT ![t] = Page(o, embedded[o], "closed")]
      /\ UNCHANGED <<tenants, customer, embedded, storage, visit, expired, dropped>>
  BY DEF Load
<1>2. embedded[o] \in Keys /\ embedded[o] <= minted
  BY VisKnown DEF VisitsInv, VisitsTyped, Keys
<1>3. /\ page' \in [Tabs -> Pages] /\ PageOK(t)'
      /\ \A u \in Tabs \ {t} : page'[u] = page[u]
  BY <1>1, <1>2, VisBlank
<1>4. /\ storage' \in [Tabs -> [Keys -> Customers \cup {Nobody}]] /\ dropped \subseteq Customers
  BY <1>1 DEF VisitsInv, VisitsTyped
<1> QED BY <1>1, <1>3, <1>4, VisTabStep

LEMMA VisResolved ==
  ASSUME VisitsInv, NEW t \in Tabs, Resolved(t)
  PROVE  VisitsInv'
<1> DEFINE p == page[t]
           q == [page EXCEPT ![t].status = "ready"]
<1>1. /\ p.status = "resolving" /\ p \in Pages /\ PageOK(t)
      /\ page' = [q EXCEPT ![t].shown = p.customer]
      /\ UNCHANGED <<tenants, customer, embedded, storage, visit, expired, dropped>>
      /\ page \in [Tabs -> Pages]
  BY DEF Resolved, VisitsInv, VisitsTyped
<1>2. /\ q \in [Tabs -> Pages] /\ q[t].status = "ready" /\ q[t].org = p.org /\ q[t].key = p.key
      /\ q[t].visit = p.visit /\ q[t].customer = p.customer
      /\ \A u \in Tabs \ {t} : q[u] = page[u]
  BY <1>1 DEF Pages, PageStates
<1> HIDE DEF q
<1>3. p.customer \in Nat
  BY <1>1 DEF Pages
<1>4. /\ page' \in [Tabs -> Pages] /\ page'[t].status = "ready" /\ page'[t].key = p.key
      /\ page'[t].visit = p.visit /\ page'[t].customer = p.customer /\ page'[t].shown = p.customer
      /\ \A u \in Tabs \ {t} : page'[u] = page[u]
  BY <1>1, <1>2, <1>3 DEF Pages
<1>5. PageOK(t)'
  <2>1. p.visit = 0 /\ p.customer # Nobody
    BY <1>1 DEF PageOK
  <2>2. OfKey(p.customer, p.key)'
    <3>1. VisOnward /\ p.key \in Nat /\ OfKey(p.customer, p.key)
      BY <1>1, VisStill DEF PageOK, Pages, Keys
    <3>2. PICK c, k : c = p.customer /\ k = p.key
      OBVIOUS
    <3>3. OfKey(c, k)'
      BY <3>1, <3>2, VisOfKey
    <3> QED BY <1>4, <3>2, <3>3 DEF OfKey
  <2> QED BY <1>1, <1>4, <2>1, <2>2 DEF PageOK, tenants
<1>6. /\ storage' \in [Tabs -> [Keys -> Customers \cup {Nobody}]] /\ dropped \subseteq Customers
  BY <1>1 DEF VisitsInv, VisitsTyped
<1> QED BY <1>1, <1>4, <1>5, <1>6, VisTabStep

LEMMA VisClears ==
  ASSUME VisitsInv, NEW t \in Tabs, ClearStored(t)
  PROVE  LET held == storage[t][page[t].key]
         IN  /\ storage' \in [Tabs -> [Keys -> Customers \cup {Nobody}]]
             /\ page[t].key \in Keys /\ page[t].key <= minted
             /\ storage'[t][page[t].key] = Nobody
             /\ \A k \in Keys \ {page[t].key} : storage'[t][k] = storage[t][k]
             /\ \A u \in Tabs \ {t} : storage'[u] = storage[u]
             /\ held \in dropped' \cup expired \cup {Nobody}
             /\ dropped \subseteq dropped' /\ dropped' \subseteq Customers
<1> DEFINE k == page[t].key
<1>1. /\ k \in Keys /\ k <= minted /\ dropped \subseteq Customers
      /\ storage \in [Tabs -> [Keys -> Customers \cup {Nobody}]]
  BY VisKnown DEF VisitsInv, VisitsTyped, PageOK, Pages
<1>2. /\ storage' = [storage EXCEPT ![t][k] = Nobody]
      /\ dropped' = dropped \cup ({storage[t][k]} \ (expired \cup {Nobody}))
  BY DEF ClearStored
<1> HIDE DEF k
<1>3. storage[t] \in [Keys -> Customers \cup {Nobody}] /\ storage[t][k] \in Customers \cup {Nobody}
  BY <1>1
<1>4. /\ storage' \in [Tabs -> [Keys -> Customers \cup {Nobody}]]
      /\ storage'[t][k] = Nobody
      /\ \A j \in Keys \ {k} : storage'[t][j] = storage[t][j]
      /\ \A u \in Tabs \ {t} : storage'[u] = storage[u]
  BY <1>1, <1>2
<1> QED BY <1>1, <1>2, <1>3, <1>4 DEF k

LEMMA VisTokenRefused ==
  ASSUME VisitsInv, NEW t \in Tabs, TokenRefused(t)
  PROVE  VisitsInv'
<1>1. /\ page' = [page EXCEPT ![t] = Page(page[t].org, page[t].key, "error")]
      /\ ClearStored(t)
      /\ UNCHANGED <<tenants, customer, embedded, visit, expired>>
  BY DEF TokenRefused
<1>2. page[t].org \in Orgs /\ page[t].key \in Keys /\ page[t].key <= minted
  BY <1>1, VisKnown, VisClears DEF Pages
<1>3. /\ page' \in [Tabs -> Pages] /\ PageOK(t)'
      /\ \A u \in Tabs \ {t} : page'[u] = page[u]
  BY <1>1, <1>2, VisBlank
<1> QED BY <1>1, <1>3, VisClears, VisTabStep

LEMMA VisHandshakeRefused ==
  ASSUME VisitsInv, NEW t \in Tabs, HandshakeRefused(t)
  PROVE  VisitsInv'
<1>1. /\ ClearStored(t) /\ UNCHANGED <<tenants, customer, embedded, page, visit, expired>>
      /\ page \in [Tabs -> Pages] /\ PageOK(t) /\ page[t].key \in Nat
      /\ page[t].status # "none"
  BY DEF HandshakeRefused, VisitsInv, VisitsTyped, Pages, Keys
<1>2. PageOK(t)'
  <2>1. storage'[t][page[t].key] = Nobody
    BY <1>1, VisClears
  <2>2. OfKey(page[t].customer, page[t].key)'
    <3>1. VisOnward /\ OfKey(page[t].customer, page[t].key)
      BY <1>1, VisStill DEF PageOK
    <3>2. PICK c, k : c = page[t].customer /\ k = page[t].key
      OBVIOUS
    <3>3. OfKey(c, k)'
      BY <1>1, <3>1, <3>2, VisOfKey
    <3> QED BY <1>1, <3>2, <3>3 DEF OfKey
  <2>3. UNCHANGED <<page, visit, expired, minted>>
    BY <1>1 DEF tenants
  <2> QED BY <1>1, <2>1, <2>2, <2>3 DEF PageOK, Visits, Under
<1> QED BY <1>1, <1>2, VisClears, VisTabStep

LEMMA VisCloseTab ==
  ASSUME VisitsInv, NEW t \in Tabs, CloseTab(t)
  PROVE  VisitsInv'
<1>1. /\ page' = [page EXCEPT ![t] = Page(page[t].org, NoKey, "none")]
      /\ storage' = [storage EXCEPT ![t] = [k \in Keys |-> Nobody]]
      /\ dropped' = dropped \cup ({storage[t][k] : k \in Keys} \ {Nobody})
      /\ UNCHANGED <<tenants, customer, embedded, visit, expired>>
  BY DEF CloseTab
<1>2. page[t].org \in Orgs /\ NoKey \in Keys /\ NoKey <= minted
  BY VisKnown DEF Pages, Keys, NoKey
<1>3. /\ page' \in [Tabs -> Pages] /\ PageOK(t)'
      /\ \A u \in Tabs \ {t} : page'[u] = page[u]
  BY <1>1, <1>2, VisBlank
<1>4. /\ storage \in [Tabs -> [Keys -> Customers \cup {Nobody}]] /\ dropped \subseteq Customers
      /\ \A k \in Keys : storage[t][k] \in Customers \cup {Nobody}
  BY VisKnown DEF VisitsInv, VisitsTyped
<1>5. /\ storage' \in [Tabs -> [Keys -> Customers \cup {Nobody}]]
      /\ \A k \in Keys : storage'[t][k] = Nobody
      /\ \A u \in Tabs \ {t} : storage'[u] = storage[u]
      /\ dropped \subseteq dropped' /\ dropped' \subseteq Customers
      /\ \A k \in Keys : storage[t][k] \in dropped' \cup {Nobody}
  BY <1>1, <1>4
<1> QED BY <1>1, <1>3, <1>5, VisTabStep

LEMMA VisEmbed ==
  ASSUME VisitsInv, NEW o \in Orgs, Embed(o)
  PROVE  VisitsInv'
<1>1. /\ embedded' = [embedded EXCEPT ![o] = org[o].key]
      /\ UNCHANGED <<tenants, customer, page, storage, visit, expired, dropped>>
  BY DEF Embed
<1>2. VisOnward /\ TenantsInv' /\ VisPass /\ Customers' = Customers /\ Visits' = Visits
  BY <1>1, VisStill DEF VisPass, Visits, Customers
<1>3. embedded' \in [Orgs -> Nat] /\ \A p \in Orgs : embedded'[p] <= minted
  BY <1>1, VisKnown DEF VisitsInv, VisitsTyped
<1>4. VisitsTyped'
  BY <1>1, <1>2, <1>3 DEF VisitsInv, VisitsTyped, tenants
<1>5. \A u \in Tabs, k \in Keys : OfKey(storage[u][k], k)'
  BY <1>1 DEF VisitsInv, OfKey, tenants, Customers
<1>6. \A v \in Visits' : VisitOK(v)'
  BY <1>1, <1>2, VisVisitOK
<1>7. \A u \in Tabs : PageOK(u)'
  BY <1>1, <1>2, VisPageOK
<1>8. \A c \in Customers' \ (dropped' \cup expired') : Kept(c)'
  BY <1>1, <1>2 DEF VisitsInv, Kept, OnItsWay
<1> QED BY <1>2, <1>4, <1>5, <1>6, <1>7, <1>8 DEF VisitsInv

LEMMA VisExpire ==
  ASSUME VisitsInv, NEW c \in Customers, Expire(c)
  PROVE  VisitsInv'
<1>1. /\ expired' = expired \cup {c}
      /\ UNCHANGED <<tenants, customer, embedded, page, storage, visit, dropped>>
  BY DEF Expire
<1>2. VisOnward /\ TenantsInv' /\ VisPass /\ Customers' = Customers /\ Visits' = Visits
  BY <1>1, VisStill DEF VisPass, Visits, Customers
<1>3. VisitsTyped'
  BY <1>1, <1>2 DEF VisitsInv, VisitsTyped, tenants
<1>4. \A u \in Tabs, k \in Keys : OfKey(storage[u][k], k)'
  BY <1>1 DEF VisitsInv, OfKey, tenants, Customers
<1>5. \A v \in Visits' : VisitOK(v)'
  BY <1>1, <1>2, VisVisitOK
<1>6. \A u \in Tabs : PageOK(u)'
  BY <1>1, <1>2, VisPageOK
<1>7. \A d \in Customers' \ (dropped' \cup expired') : Kept(d)'
  BY <1>1, <1>2 DEF VisitsInv, Kept, OnItsWay
<1> QED BY <1>2, <1>3, <1>4, <1>5, <1>6, <1>7 DEF VisitsInv

\* A sequence of requests one of which is replaced.
LEMMA VisPut ==
  ASSUME NEW s \in Seq(VisitRecords), NEW v \in DOMAIN s, NEW r \in VisitRecords
  PROVE  LET q == [s EXCEPT ![v] = r]
         IN  /\ q \in Seq(VisitRecords) /\ Len(q) = Len(s) /\ DOMAIN q = DOMAIN s
             /\ q[v] = r /\ \A u \in DOMAIN s \ {v} : q[u] = s[u]
OBVIOUS

LEMMA VisAdvanced ==
  ASSUME visit \in Seq(VisitRecords), NEW v \in Visits, NEW step \in VisitSteps,
         NEW o \in Orgs \cup {"none"}, NEW c \in Nat, Advanced(v, step, o, c)
  PROVE  /\ visit' \in Seq(VisitRecords) /\ Len(visit') = Len(visit) /\ Visits' = Visits
         /\ visit'[v].step = step /\ visit'[v].org = o /\ visit'[v].customer = c
         /\ visit'[v].key = visit[v].key /\ visit'[v].token = visit[v].token
         /\ \A u \in Visits \ {v} : visit'[u] = visit[u]
<1> DEFINE r == visit[v]
           r1 == [r EXCEPT !.step = step]
           r2 == [r1 EXCEPT !.org = o]
           r3 == [r2 EXCEPT !.customer = c]
           q1 == [visit EXCEPT ![v] = r1]
           q2 == [q1 EXCEPT ![v].org = o]
           q3 == [q2 EXCEPT ![v].customer = c]
<1>1. r \in VisitRecords /\ v \in DOMAIN visit
  BY DEF Visits
<1> HIDE DEF r
<1>2. r1 \in VisitRecords /\ r1.step = step /\ r1.key = r.key /\ r1.token = r.token
  BY <1>1 DEF VisitRecords
<1> HIDE DEF r1
<1>3. /\ r2 \in VisitRecords /\ r2.step = step /\ r2.org = o /\ r2.key = r.key /\ r2.token = r.token
  BY <1>2 DEF VisitRecords
<1> HIDE DEF r2
<1>4. /\ r3 \in VisitRecords /\ r3.step = step /\ r3.org = o /\ r3.customer = c
      /\ r3.key = r.key /\ r3.token = r.token
  BY <1>3 DEF VisitRecords
<1> HIDE DEF r3
<1>5. /\ q1 \in Seq(VisitRecords) /\ Len(q1) = Len(visit) /\ DOMAIN q1 = DOMAIN visit
      /\ q1[v] = r1 /\ \A u \in DOMAIN visit \ {v} : q1[u] = visit[u]
  BY <1>1, <1>2, VisPut
<1> HIDE DEF q1
<1>6. q2 = [q1 EXCEPT ![v] = r2]
  BY <1>5 DEF r2
<1>7. /\ q2 \in Seq(VisitRecords) /\ Len(q2) = Len(visit) /\ DOMAIN q2 = DOMAIN visit
      /\ q2[v] = r2 /\ \A u \in DOMAIN visit \ {v} : q2[u] = visit[u]
  <2>1. v \in DOMAIN q1 /\ DOMAIN q1 = DOMAIN visit
    BY <1>1, <1>5
  <2>2. LET q == [q1 EXCEPT ![v] = r2]
        IN  /\ q \in Seq(VisitRecords) /\ Len(q) = Len(q1) /\ DOMAIN q = DOMAIN q1
            /\ q[v] = r2 /\ \A u \in DOMAIN q1 \ {v} : q[u] = q1[u]
    BY <1>3, <1>5, <2>1, VisPut
  <2> QED BY <1>5, <1>6, <2>1, <2>2
<1> HIDE DEF q2
<1>8. q3 = [q2 EXCEPT ![v] = r3]
  BY <1>7 DEF r3
<1>9. /\ q3 \in Seq(VisitRecords) /\ Len(q3) = Len(visit) /\ DOMAIN q3 = DOMAIN visit
      /\ q3[v] = r3 /\ \A u \in DOMAIN visit \ {v} : q3[u] = visit[u]
  <2>1. v \in DOMAIN q2 /\ DOMAIN q2 = DOMAIN visit
    BY <1>1, <1>7
  <2>2. LET q == [q2 EXCEPT ![v] = r3]
        IN  /\ q \in Seq(VisitRecords) /\ Len(q) = Len(q2) /\ DOMAIN q = DOMAIN q2
            /\ q[v] = r3 /\ \A u \in DOMAIN q2 \ {v} : q[u] = q2[u]
    BY <1>4, <1>7, <2>1, VisPut
  <2> QED BY <1>7, <1>8, <2>1, <2>2
<1>10. visit' = q3
  BY DEF Advanced, q3, q2, q1, r1, r
<1> HIDE DEF q3
<1> QED BY <1>4, <1>9, <1>10 DEF Visits, r

\* A request is over, whatever becomes of its answer.
LEMMA VisEnded ==
  ASSUME visit \in Seq(VisitRecords), NEW v \in Visits, Ended(v)
  PROVE  /\ visit' \in Seq(VisitRecords) /\ Len(visit') = Len(visit) /\ Visits' = Visits
         /\ visit'[v].step = "over" /\ visit'[v].customer = Nobody
         /\ \A u \in Visits \ {v} : visit'[u] = visit[u]
<1>1. Over \in VisitRecords /\ Over.step = "over" /\ Over.customer = Nobody
  BY DEF Over, VisitRecords, VisitSteps, NoKey, Nobody
<1>2. v \in DOMAIN visit /\ visit' = [visit EXCEPT ![v] = Over]
  BY DEF Ended, Visits
<1> QED BY <1>1, <1>2, VisPut DEF Visits

\* A step of a request on the server.
LEMMA VisServerStep ==
  ASSUME VisitsInv, NEW v \in Visits, UNCHANGED <<tenants, embedded, page, storage, expired, dropped>>,
         visit' \in Seq(VisitRecords), Len(visit') = Len(visit),
         visit[v].step # "over", visit'[v].key = visit[v].key, visit'[v].token = visit[v].token,
         \A u \in Visits \ {v} : visit'[u] = visit[u],
         visit[v].step \in {"resume", "answer"} =>
           visit'[v].step \in {"resume", "answer"} /\ visit'[v].customer = visit[v].customer,
         customer' \in Seq(Orgs), \A c \in Customers : c \in Customers' /\ customer'[c] = customer[c],
         \A c \in Customers' : org[customer'[c]].exists,
         \A c \in Customers' \ Customers : OnItsWay(c)',
         VisitOK(v)'
  PROVE  VisitsInv'
<1>1. TenantsInv' /\ Visits' = Visits /\ VisPass
  <2>1. Visits' = Visits
    BY VisKnown DEF Visits
  <2> QED BY <2>1, TenantsStepOK DEF VisitsInv, VisPass
<1>2. VisOnward
  BY VisKnown DEF VisOnward, tenants
<1>3. VisitsTyped'
  BY <1>1 DEF VisitsInv, VisitsTyped, tenants
<1>4. \A u \in Tabs, k \in Keys : OfKey(storage[u][k], k)'
  <2> SUFFICES ASSUME NEW u \in Tabs, NEW k \in Keys PROVE OfKey(storage[u][k], k)'
    OBVIOUS
  <2>1. PICK c : c = storage[u][k]
    OBVIOUS
  <2>2. k \in Nat /\ OfKey(c, k)
    BY <2>1 DEF VisitsInv, Keys
  <2>3. OfKey(c, k)'
    BY <1>2, <2>2, VisOfKey
  <2> QED BY <2>1, <2>3 DEF OfKey
<1>5. \A u \in Visits' : VisitOK(u)'
  BY <1>1, <1>2, VisVisitOK
<1>6. \A u \in Tabs : PageOK(u)'
  BY <1>1, <1>2, VisPageOK
<1>7. \A c \in Customers' \ (dropped' \cup expired') : Kept(c)'
  <2>1. ASSUME NEW c \in Customers, OnItsWay(c) PROVE OnItsWay(c)'
    BY <1>1, <2>1 DEF OnItsWay
  <2> QED BY <2>1 DEF VisitsInv, Kept
<1> QED BY <1>1, <1>3, <1>4, <1>5, <1>6, <1>7 DEF VisitsInv

\* What is known of a request before its step.
LEMMA VisVisitKnown ==
  ASSUME VisitsInv, NEW v \in Visits
  PROVE  /\ VisitOK(v) /\ visit[v] \in VisitRecords /\ visit \in Seq(VisitRecords)
         /\ visit[v].key \in Nat /\ visit[v].token \in Nat /\ visit[v].customer \in Nat
         /\ visit[v].org \in Orgs \cup {"none"} /\ visit[v].step \in VisitSteps
         /\ customer \in Seq(Orgs) /\ \A c \in Customers : org[customer[c]].exists
         /\ dropped \subseteq Customers
BY VisKnown DEF VisitsInv, VisitsTyped, VisitRecords

LEMMA VisFind ==
  ASSUME VisitsInv, NEW v \in Visits, Find(v)
  PROVE  VisitsInv'
<1> DEFINE q == visit[v]
<1>1. /\ q.step = "find" /\ q.key <= minted /\ OfKey(q.token, q.key) /\ q.customer = Nobody
      /\ UNCHANGED <<tenants, customer, embedded, page, storage, expired, dropped>>
      /\ UNCHANGED <<org, minted>>
  BY VisVisitKnown DEF Find, Under, VisitOK, tenants
<1>2. \A step \in VisitSteps, o \in Orgs \cup {"none"}, c \in Nat :
        Advanced(v, step, o, c) =>
          /\ visit' \in Seq(VisitRecords) /\ Len(visit') = Len(visit) /\ Visits' = Visits
          /\ visit'[v].step = step /\ visit'[v].org = o /\ visit'[v].customer = c
          /\ visit'[v].key = visit[v].key /\ visit'[v].token = visit[v].token
          /\ \A u \in Visits \ {v} : visit'[u] = visit[u]
  BY VisVisitKnown, VisAdvanced
<1>3. PICK d, k : d = q.token /\ k = q.key
  OBVIOUS
<1>7. OfKey(d, k)'
  <2>1. OfKey(d, k) /\ Customers' = Customers
    BY <1>1, <1>3 DEF Customers
  <2> QED BY <1>1, <2>1 DEF OfKey
<1>4. ASSUME VisitOK(v)', visit' \in Seq(VisitRecords), Len(visit') = Len(visit),
             visit'[v].key = visit[v].key, visit'[v].token = visit[v].token,
             \A u \in Visits \ {v} : visit'[u] = visit[u]
      PROVE  VisitsInv'
  <2>1. Customers' = Customers /\ customer' = customer
    BY <1>1 DEF Customers
  <2> QED BY <1>1, <1>4, <2>1, VisVisitKnown, VisServerStep
<1>5. CASE Advanced(v, "refuse", "none", Nobody)
  <2>1. "refuse" \in VisitSteps /\ Nobody \in Nat
    BY DEF VisitSteps, Nobody
  <2>2. /\ visit' \in Seq(VisitRecords) /\ Len(visit') = Len(visit) /\ Visits' = Visits
        /\ visit'[v].step = "refuse" /\ visit'[v].customer = Nobody
        /\ visit'[v].key = visit[v].key /\ visit'[v].token = visit[v].token
        /\ \A u \in Visits \ {v} : visit'[u] = visit[u]
    BY <1>2, <1>5, <2>1
  <2>3. VisitOK(v)'
    BY <1>1, <1>3, <1>7, <2>2 DEF VisitOK
  <2> QED BY <1>4, <2>2, <2>3
<1>6. ASSUME NEW o \in Orgs, org[o].exists, org[o].key # NoKey, org[o].key = q.key,
             \/ Resumes(v, o) /\ Advanced(v, "resume", o, q.token)
             \/ ~Resumes(v, o) /\ Advanced(v, "create", o, Nobody)
      PROVE  VisitsInv'
  <2>1. \A p \in Orgs : org[p].key = q.key => p = o
    BY <1>6 DEF VisitsInv, TenantsInv, KeysStand
  <2>2. q.token # Nobody => q.token \in Customers /\ customer[q.token] = o
    BY <1>1, <1>6 DEF OfKey
  <2>3. CASE Resumes(v, o) /\ Advanced(v, "resume", o, q.token)
    <3>1. "resume" \in VisitSteps /\ q.token \in Nat
      BY VisVisitKnown DEF VisitSteps
    <3>2. /\ visit' \in Seq(VisitRecords) /\ Len(visit') = Len(visit) /\ Visits' = Visits
          /\ visit'[v].step = "resume" /\ visit'[v].org = o /\ visit'[v].customer = q.token
          /\ visit'[v].key = q.key /\ visit'[v].token = q.token
          /\ \A u \in Visits \ {v} : visit'[u] = visit[u]
      BY <1>2, <2>3, <3>1
    <3>3. q.token # Nobody
      BY <2>3 DEF Resumes
    <3>4. VisitOK(v)'
      BY <1>1, <1>3, <1>6, <1>7, <2>1, <2>2, <3>2, <3>3 DEF VisitOK, Customers
    <3> QED BY <1>4, <3>2, <3>4
  <2>4. CASE ~Resumes(v, o) /\ Advanced(v, "create", o, Nobody)
    <3>1. "create" \in VisitSteps /\ Nobody \in Nat
      BY DEF VisitSteps, Nobody
    <3>2. /\ visit' \in Seq(VisitRecords) /\ Len(visit') = Len(visit) /\ Visits' = Visits
          /\ visit'[v].step = "create" /\ visit'[v].org = o /\ visit'[v].customer = Nobody
          /\ visit'[v].key = q.key /\ visit'[v].token = q.token
          /\ \A u \in Visits \ {v} : visit'[u] = visit[u]
      BY <1>2, <2>4, <3>1
    <3>3. q.token # Nobody => q.token \in expired
      BY <2>2, <2>4 DEF Resumes
    <3>4. VisitOK(v)'
      BY <1>1, <1>3, <1>6, <1>7, <2>1, <3>2, <3>3 DEF VisitOK
    <3> QED BY <1>4, <3>2, <3>4
  <2> QED BY <1>6, <2>3, <2>4
<1> QED BY <1>5, <1>6 DEF Find

LEMMA VisResume ==
  ASSUME VisitsInv, NEW v \in Visits, Resume(v)
  PROVE  VisitsInv'
<1> DEFINE q == visit[v]
           r == [q EXCEPT !.step = "answer"]
<1>1. /\ q.step = "resume" /\ VisitOK(v) /\ q \in VisitRecords /\ v \in DOMAIN visit
      /\ visit' = [visit EXCEPT ![v] = r]
      /\ UNCHANGED <<tenants, customer, embedded, page, storage, expired, dropped>>
      /\ UNCHANGED <<org, minted>> /\ visit \in Seq(VisitRecords)
  BY VisVisitKnown DEF Resume, Under, tenants, Visits
<1>2. /\ r \in VisitRecords /\ r.step = "answer" /\ r.key = q.key /\ r.token = q.token
      /\ r.org = q.org /\ r.customer = q.customer
  BY <1>1 DEF VisitRecords, VisitSteps
<1> HIDE DEF r
<1>3. /\ visit' \in Seq(VisitRecords) /\ Len(visit') = Len(visit)
      /\ visit'[v] = r /\ \A u \in Visits \ {v} : visit'[u] = visit[u]
  BY <1>1, <1>2, VisPut DEF Visits
<1>4. VisitOK(v)'
  BY <1>1, <1>2, <1>3 DEF VisitOK, OfKey, Customers
<1>5. Customers' = Customers /\ customer' = customer
  BY <1>1 DEF Customers
<1> QED BY <1>1, <1>2, <1>3, <1>4, <1>5, VisVisitKnown, VisServerStep

LEMMA VisCreateCustomer ==
  ASSUME VisitsInv, NEW v \in Visits, CreateCustomer(v)
  PROVE  VisitsInv'
<1> DEFINE q == visit[v]
<1>1. /\ q.step = "create" /\ VisitOK(v) /\ q.org \in Orgs /\ q.customer = Nobody
      /\ customer' = Append(customer, q.org)
      /\ Advanced(v, "answer", q.org, Len(customer) + 1)
      /\ UNCHANGED <<tenants, embedded, page, storage, expired, dropped>>
      /\ UNCHANGED <<org, minted>>
      /\ customer \in Seq(Orgs) /\ Len(customer) \in Nat
  BY VisKnown, VisVisitKnown DEF CreateCustomer, Under, tenants, VisitOK
<1>2. PICK c : c = Len(customer) + 1
  OBVIOUS
<1>3. /\ customer' \in Seq(Orgs) /\ Customers' = Customers \cup {c} /\ customer'[c] = q.org
      /\ \A d \in Customers : d \in Customers' /\ customer'[d] = customer[d]
      /\ c \in Nat
  BY <1>1, <1>2 DEF Customers
<1>4. /\ visit' \in Seq(VisitRecords) /\ Len(visit') = Len(visit) /\ Visits' = Visits
      /\ visit'[v].step = "answer" /\ visit'[v].org = q.org /\ visit'[v].customer = c
      /\ visit'[v].key = q.key /\ visit'[v].token = q.token
      /\ \A u \in Visits \ {v} : visit'[u] = visit[u]
  <2>1. "answer" \in VisitSteps
    BY DEF VisitSteps
  <2> QED BY <1>1, <1>2, <1>3, <2>1, VisVisitKnown, VisAdvanced
<1>5. VisOnward
  <2>1. minted' = minted /\ minted \in Nat /\ org' = org /\ expired' = expired
    BY <1>1, VisKnown
  <2>2. \A d \in Customers : d \in Customers' /\ customer'[d] = customer[d]
    BY <1>3
  <2> QED BY <2>1, <2>2 DEF VisOnward
<1>6. OfKey(q.token, q.key)'
  <2>1. PICK d, k : d = q.token /\ k = q.key
    OBVIOUS
  <2>2. k \in Nat /\ OfKey(d, k)
    BY <1>1, <2>1, VisVisitKnown DEF VisitOK
  <2>3. OfKey(d, k)'
    BY <1>5, <2>2, VisOfKey
  <2> QED BY <1>4, <2>1, <2>3 DEF OfKey
<1>7. VisitOK(v)'
  BY <1>1, <1>3, <1>4, <1>6 DEF VisitOK
<1>8. \A d \in Customers' \ Customers : OnItsWay(d)'
  BY <1>3, <1>4 DEF OnItsWay
<1>9. \A d \in Customers' : org[customer'[d]].exists
  <2>1. org[q.org].exists
    BY <1>1 DEF VisitOK
  <2> QED BY <1>3, <2>1, VisVisitKnown
<1> QED BY <1>1, <1>3, <1>4, <1>7, <1>8, <1>9, VisServerStep

LEMMA VisRequest ==
  ASSUME VisitsInv, NEW t \in Tabs, NEW status \in {"loading", "ready"}, NEW c \in Nat,
         Request(t, status, c),
         OfKey(c, page[t].key), storage[t][page[t].key] \in {Nobody, c} \cup expired,
         status = "ready" => page[t].status = "ready" /\ c = page[t].customer,
         status = "loading" => page[t].status \in {"closed", "error"}
  PROVE  VisitsInv'
<1> DEFINE p == page[t]
           q == [page EXCEPT ![t].status = status]
<1>1. PICK n : n = Len(visit) + 1
  OBVIOUS
<1>2. PICK k : k = p.key
  OBVIOUS
<1>3. PICK r : r = [step |-> "find", key |-> k, org |-> "none", token |-> c, customer |-> Nobody]
  OBVIOUS
<1>4. /\ p \in Pages /\ PageOK(t) /\ page \in [Tabs -> Pages]
      /\ page' = [q EXCEPT ![t].visit = n] /\ visit' = Append(visit, r)
      /\ UNCHANGED <<tenants, customer, embedded, storage, expired, dropped>>
      /\ visit \in Seq(VisitRecords) /\ Len(visit) \in Nat /\ n \in Nat /\ n # 0
  BY <1>1, <1>2, <1>3, VisKnown DEF Request, VisitsInv, VisitsTyped
<1>5. /\ q \in [Tabs -> Pages] /\ q[t].status = status /\ q[t].key = p.key
      /\ q[t].customer = p.customer /\ q[t].shown = p.shown
      /\ \A u \in Tabs \ {t} : q[u] = page[u]
  BY <1>4 DEF Pages, PageStates
<1> HIDE DEF q
<1>6. /\ page' \in [Tabs -> Pages] /\ page'[t].status = status /\ page'[t].key = p.key
      /\ page'[t].customer = p.customer /\ page'[t].shown = p.shown /\ page'[t].visit = n
      /\ \A u \in Tabs \ {t} : page'[u] = page[u]
  BY <1>4, <1>5 DEF Pages
<1>7. k \in Nat /\ k <= minted
  BY <1>2, <1>4 DEF Pages, Keys, PageOK
<1>8. /\ r \in VisitRecords /\ r.step = "find" /\ r.key = k /\ r.token = c /\ r.customer = Nobody
  BY <1>3, <1>7 DEF VisitRecords, VisitSteps, Nobody
<1>9. /\ visit' \in Seq(VisitRecords) /\ Visits' = Visits \cup {n} /\ n \notin Visits
      /\ visit'[n] = r /\ \A v \in Visits : visit'[v] = visit[v]
  BY <1>1, <1>4, <1>8 DEF Visits
<1>10. VisOnward /\ TenantsInv' /\ VisPass /\ Customers' = Customers
  BY <1>4, <1>9, VisStill DEF VisPass, Customers
<1>11. VisitsTyped'
  BY <1>4, <1>6, <1>9, <1>10 DEF VisitsInv, VisitsTyped, tenants
<1>12. \A u \in Tabs, j \in Keys : OfKey(storage[u][j], j)'
  BY <1>4 DEF VisitsInv, OfKey, tenants, Customers
<1>13. OfKey(c, k)'
  BY <1>2, <1>4, <1>7, <1>10, VisOfKey
<1>14. \A v \in Visits' : VisitOK(v)'
  <2>1. VisitOK(n)'
    BY <1>4, <1>7, <1>8, <1>9, <1>13 DEF VisitOK, tenants
  <2> QED BY <1>9, <1>10, <2>1, VisVisitOK
<1>15. PageOK(t)'
  <2>1. PICK d : d = p.customer
    OBVIOUS
  <2>2. OfKey(d, k)'
    BY <1>2, <1>4, <1>7, <1>10, <2>1, VisOfKey DEF PageOK
  <2>3. minted' = minted /\ storage' = storage /\ expired' = expired
    BY <1>4 DEF tenants
  <2>4. page'[t].key <= minted' /\ OfKey(page[t].customer, page[t].key)'
    BY <1>2, <1>6, <1>7, <2>1, <2>2, <2>3 DEF OfKey
  <2>5. /\ visit'[n].key = page'[t].key
        /\ storage'[t][page'[t].key] \in {Nobody, visit'[n].token} \cup expired'
        /\ page'[t].status = "ready" => visit'[n].token = page'[t].customer
    BY <1>2, <1>6, <1>8, <1>9, <2>3
  <2>6. /\ status = "loading" => page'[t].customer = Nobody /\ page'[t].shown = Nobody
        /\ status = "ready" => /\ page'[t].customer # Nobody /\ page'[t].shown = page'[t].customer
                               /\ storage'[t][page'[t].key] \in {Nobody, page'[t].customer} \cup expired'
    BY <1>2, <1>4, <1>6, <2>3 DEF PageOK
  <2>7. n \in Visits'
    BY <1>9
  <2> QED BY <1>6, <2>4, <2>5, <2>6, <2>7 DEF PageOK
<1>16. \A u \in Tabs : PageOK(u)'
  BY <1>4, <1>6, <1>10, <1>15, VisPageOK
<1>17. \A d \in Customers' \ (dropped' \cup expired') : Kept(d)'
  <2>1. ASSUME NEW d \in Customers, OnItsWay(d) PROVE OnItsWay(d)'
    BY <1>9, <2>1 DEF OnItsWay
  <2> QED BY <1>4, <1>10, <2>1 DEF VisitsInv, Kept
<1> QED BY <1>10, <1>11, <1>12, <1>14, <1>16, <1>17 DEF VisitsInv

LEMMA VisOpenWidget ==
  ASSUME VisitsInv, NEW t \in Tabs, OpenWidget(t)
  PROVE  VisitsInv'
<1>1. PICK k, c : k = page[t].key /\ c = storage[t][k]
  OBVIOUS
<1>2. k \in Keys /\ c \in Nat /\ OfKey(c, k)
  BY <1>1, VisKnown DEF VisitsInv, Pages, Customers, Nobody
<1> QED BY <1>1, <1>2, VisRequest DEF OpenWidget

LEMMA VisSubmitDetails ==
  ASSUME VisitsInv, NEW t \in Tabs, SubmitDetails(t)
  PROVE  VisitsInv'
<1>1. PICK c : c = page[t].customer
  OBVIOUS
<1>2. page[t] \in Pages /\ PageOK(t) /\ page[t].status = "ready"
  BY VisKnown DEF VisitsInv, SubmitDetails
<1>3. c \in Nat /\ OfKey(c, page[t].key) /\ storage[t][page[t].key] \in {Nobody, c} \cup expired
  BY <1>1, <1>2 DEF PageOK, Pages
<1> QED BY <1>1, <1>2, <1>3, VisRequest DEF SubmitDetails

\* A request comes to an end: its customer is in a tab's storage, expired or lost.
LEMMA VisOver ==
  ASSUME VisitsInv, NEW v \in Visits, Ended(v), UNCHANGED <<tenants, customer, embedded, expired>>,
         page' \in [Tabs -> Pages], storage' \in [Tabs -> [Keys -> Customers \cup {Nobody}]],
         dropped \subseteq dropped', dropped' \subseteq Customers,
         \A t \in Tabs, k \in Keys :
           /\ OfKey(storage'[t][k], k)
           /\ storage'[t][k] # storage[t][k] =>
                storage[t][k] \in {Nobody, visit[v].customer} \cup expired,
         \/ visit[v].customer \in dropped' \cup expired \cup {Nobody}
         \/ \E t \in Tabs, k \in Keys : storage'[t][k] = visit[v].customer,
         \A t \in Tabs : PageOK(t)'
  PROVE  VisitsInv'
<1>1. /\ visit' \in Seq(VisitRecords) /\ Visits' = Visits
      /\ visit'[v].step = "over" /\ visit'[v].customer = Nobody
      /\ \A u \in Visits \ {v} : visit'[u] = visit[u]
  BY VisVisitKnown, VisEnded
<1>2. VisOnward /\ TenantsInv' /\ Customers' = Customers
  BY VisStill DEF Customers
<1>3. VisitsTyped'
  BY <1>1, <1>2 DEF VisitsInv, VisitsTyped, tenants
<1>4. \A t \in Tabs, k \in Keys : OfKey(storage[t][k], k)'
  <2> SUFFICES ASSUME NEW t \in Tabs, NEW k \in Keys PROVE OfKey(storage[t][k], k)'
    OBVIOUS
  <2>1. PICK c : c = storage'[t][k]
    OBVIOUS
  <2>2. k \in Nat /\ OfKey(c, k)
    BY <2>1 DEF Keys
  <2>3. OfKey(c, k)'
    BY <1>2, <2>2, VisOfKey
  <2> QED BY <2>1, <2>3 DEF OfKey
<1>5. \A u \in Visits' : VisitOK(u)'
  <2>1. VisitOK(v)'
    BY <1>1 DEF VisitOK
  <2> QED BY <1>1, <1>2, <2>1, VisVisitOK
<1>6. \A c \in Customers' \ (dropped' \cup expired') : Kept(c)'
  <2> SUFFICES ASSUME NEW c \in Customers \ (dropped' \cup expired) PROVE Kept(c)'
    BY <1>2
  <2>1. Kept(c) /\ c # Nobody
    BY VisKnown DEF VisitsInv
  <2>2. CASE c = visit[v].customer
    BY <2>1, <2>2 DEF Kept
  <2>3. CASE c # visit[v].customer
    <3>1. ASSUME OnItsWay(c) PROVE OnItsWay(c)'
      BY <1>1, <2>3, <3>1 DEF OnItsWay
    <3>2. ASSUME NEW t \in Tabs, NEW k \in Keys, storage[t][k] = c PROVE storage'[t][k] = c
      BY <2>1, <2>3, <3>2
    <3> QED BY <2>1, <3>1, <3>2 DEF Kept
  <2> QED BY <2>2, <2>3
<1> QED BY <1>2, <1>3, <1>4, <1>5, <1>6 DEF VisitsInv

\* The pages whose request is over, when it has failed.
LEMMA VisFailPage ==
  ASSUME VisitsInv, NEW v \in Visits, Ended(v), FailPage(v),
         UNCHANGED <<tenants, customer, embedded, storage, expired>>
  PROVE  page' \in [Tabs -> Pages] /\ \A t \in Tabs : PageOK(t)'
<1>1. VisOnward
  BY VisStill
<1>2. VisPass
  BY VisVisitKnown, VisEnded DEF VisPass
<1>3. v # 0
  BY VisKnown
<1>4. ASSUME NEW t \in Tabs PROVE page'[t] \in Pages /\ PageOK(t)'
  <2> DEFINE p == page[t]
             q == [p EXCEPT !.visit = 0]
             r == [q EXCEPT !.status = IF @ = "ready" THEN "ready" ELSE "error"]
  <2>1. p \in Pages /\ PageOK(t)
    BY VisKnown DEF VisitsInv
  <2>2. CASE ~Waits(t, v)
    <3>1. page'[t] = page[t] /\ storage'[t] = storage[t]
      BY <2>2 DEF FailPage
    <3> QED BY <1>1, <1>2, <2>1, <3>1, VisPageOK
  <2>3. CASE Waits(t, v)
    <3>1. page'[t] = r
      BY <2>3 DEF FailPage
    <3>2. /\ q \in Pages /\ q.visit = 0 /\ q.status = p.status /\ q.key = p.key
          /\ q.customer = p.customer /\ q.shown = p.shown
      BY <2>1 DEF Pages
    <3> HIDE DEF q
    <3>3. /\ r \in Pages /\ r.visit = 0 /\ r.key = p.key /\ r.customer = p.customer /\ r.shown = p.shown
          /\ r.status = (IF p.status = "ready" THEN "ready" ELSE "error")
      BY <3>2 DEF Pages, PageStates
    <3> HIDE DEF r
    <3>4. p.status \in {"loading", "ready"}
      BY <1>3, <2>1, <2>3 DEF PageOK, Waits
    <3>5. PICK c, k : c = p.customer /\ k = p.key
      OBVIOUS
    <3>6. k \in Nat /\ k <= minted /\ OfKey(c, k)
      BY <2>1, <3>5 DEF PageOK, Pages, Keys
    <3>7. OfKey(c, k)' /\ k <= minted' /\ storage' = storage /\ expired' = expired
      BY <1>1, <3>6, VisOfKey DEF tenants
    <3>8. OfKey(page[t].customer, page[t].key)'
      BY <3>1, <3>3, <3>5, <3>7 DEF OfKey
    <3>9. PageOK(t)'
      BY <2>1, <3>1, <3>3, <3>4, <3>5, <3>7, <3>8 DEF PageOK
    <3> QED BY <3>1, <3>3, <3>9
  <2> QED BY <2>2, <2>3
<1>5. page' = [t \in Tabs |-> page'[t]]
  BY DEF FailPage
<1> QED BY <1>4, <1>5

LEMMA VisRefused ==
  ASSUME VisitsInv, NEW v \in Visits, Refused(v)
  PROVE  VisitsInv'
<1>1. /\ Ended(v) /\ FailPage(v) /\ visit[v].step = "refuse"
      /\ UNCHANGED <<tenants, customer, embedded, storage, expired, dropped>>
  BY DEF Refused, Under
<1>2. page' \in [Tabs -> Pages] /\ \A t \in Tabs : PageOK(t)'
  BY <1>1, VisFailPage
<1>3. visit[v].customer = Nobody
  BY <1>1, VisVisitKnown DEF VisitOK
<1>4. /\ storage' \in [Tabs -> [Keys -> Customers \cup {Nobody}]] /\ dropped' \subseteq Customers
      /\ \A t \in Tabs, k \in Keys : OfKey(storage'[t][k], k)
  BY <1>1 DEF VisitsInv, VisitsTyped
<1> QED BY <1>1, <1>2, <1>3, <1>4, VisOver

LEMMA VisLost ==
  ASSUME VisitsInv, NEW v \in Visits, Lost(v)
  PROVE  VisitsInv'
<1>1. /\ Ended(v) /\ FailPage(v)
      /\ dropped' = dropped \cup (Unkept(v) \ {Nobody})
      /\ UNCHANGED <<tenants, customer, embedded, storage, expired>>
  BY DEF Lost
<1>2. page' \in [Tabs -> Pages] /\ \A t \in Tabs : PageOK(t)'
  BY <1>1, VisFailPage
<1>3. visit[v].customer \in Customers \cup {Nobody}
  BY VisVisitKnown DEF VisitOK, VisitSteps
<1>4. /\ storage' \in [Tabs -> [Keys -> Customers \cup {Nobody}]]
      /\ \A t \in Tabs, k \in Keys : OfKey(storage'[t][k], k)
  BY <1>1 DEF VisitsInv, VisitsTyped
<1>5. dropped \subseteq dropped' /\ dropped' \subseteq Customers
  BY <1>1, <1>3, VisVisitKnown DEF Unkept
<1>6. \/ visit[v].customer \in dropped' \cup expired \cup {Nobody}
      \/ \E t \in Tabs, k \in Keys : storage'[t][k] = visit[v].customer
  BY <1>1 DEF Unkept
<1> QED BY <1>1, <1>2, <1>4, <1>5, <1>6, VisOver

\* A page that its answer reaches, and the storage of its tab.
LEMMA VisTaken ==
  ASSUME VisitsInv, NEW v \in Visits, NEW t \in Tabs, NEW c, c = visit[v].customer,
         Under(v, "answer"), Ended(v), Waits(t, v),
         UNCHANGED <<tenants, customer, embedded, expired>>,
         page' = [page EXCEPT
           ![t].visit = 0, ![t].customer = c,
           ![t].status = IF @ = "ready" THEN "saved" ELSE "resolving"],
         \A u \in Tabs \ {t} : storage'[u] = storage[u],
         storage'[t][page[t].key] \in {storage[t][page[t].key], c}
  PROVE  /\ page' \in [Tabs -> Pages] /\ \A u \in Tabs : PageOK(u)'
         /\ OfKey(c, page[t].key) /\ storage[t][page[t].key] \in {Nobody, c} \cup expired
<1> DEFINE p == page[t]
           q1 == [page EXCEPT ![t].visit = 0]
           q2 == [q1 EXCEPT ![t].customer = c]
           q3 == [q2 EXCEPT ![t].status = IF @ = "ready" THEN "saved" ELSE "resolving"]
<1>1. VisOnward
  BY VisStill
<1>2. VisPass
  BY VisVisitKnown, VisEnded DEF VisPass
<1>3. /\ p \in Pages /\ PageOK(t) /\ page \in [Tabs -> Pages] /\ p.visit = v /\ v # 0 /\ v \in Visits
      /\ p.key \in Keys
  BY VisKnown DEF VisitsInv, VisitsTyped, Waits, Pages
<1>4. PICK d : d = visit[v].token
  OBVIOUS
<1>5. /\ p.status \in {"loading", "ready"} /\ visit[v].key = p.key
      /\ storage[t][p.key] \in {Nobody, d} \cup expired
      /\ p.status = "ready" => d = p.customer
  BY <1>3, <1>4 DEF PageOK, Under
<1>6. /\ c \in Customers /\ customer[c] = visit[v].org
      /\ \A o \in Orgs : org[o].key = visit[v].key => o = visit[v].org
      /\ d # Nobody /\ c # d => d \in expired
  BY <1>4, VisVisitKnown DEF VisitOK, Under
<1>7. /\ q1 \in [Tabs -> Pages] /\ q1[t].visit = 0 /\ q1[t].key = p.key
      /\ q1[t].status = p.status /\ q1[t].shown = p.shown
      /\ \A u \in Tabs \ {t} : q1[u] = page[u]
  BY <1>3 DEF Pages
<1> HIDE DEF q1
<1>8. /\ q2 \in [Tabs -> Pages] /\ q2[t].visit = 0 /\ q2[t].key = p.key /\ q2[t].customer = c
      /\ q2[t].status = p.status /\ q2[t].shown = p.shown
      /\ \A u \in Tabs \ {t} : q2[u] = page[u]
  <2>1. c \in Nat
    BY <1>6 DEF Customers
  <2> QED BY <1>7, <2>1 DEF Pages
<1> HIDE DEF q2
<1>9. /\ q3 \in [Tabs -> Pages] /\ q3[t].visit = 0 /\ q3[t].key = p.key /\ q3[t].customer = c
      /\ q3[t].status = (IF p.status = "ready" THEN "saved" ELSE "resolving")
      /\ q3[t].shown = p.shown
      /\ \A u \in Tabs \ {t} : q3[u] = page[u]
  BY <1>8 DEF Pages, PageStates
<1>10. page' = q3
  BY DEF q3, q2, q1
<1> HIDE DEF q3
<1>11. OfKey(c, p.key)
  BY <1>3, <1>5, <1>6 DEF OfKey, PageOK
<1>12. storage[t][p.key] \in {Nobody, c} \cup expired
  BY <1>5, <1>6
<1>13. PageOK(t)'
  <2>1. PICK k : k = p.key
    OBVIOUS
  <2>2. OfKey(c, k)' /\ k <= minted' /\ expired' = expired
    BY <1>1, <1>3, <1>11, <2>1, VisOfKey DEF tenants, Keys, PageOK
  <2>3. OfKey(page[t].customer, page[t].key)'
    BY <1>9, <1>10, <2>1, <2>2 DEF OfKey
  <2>4. page'[t].key = k /\ page'[t].visit = 0 /\ page'[t].customer = c /\ page'[t].shown = p.shown
        /\ page'[t].status = (IF p.status = "ready" THEN "saved" ELSE "resolving")
    BY <1>9, <1>10, <2>1
  <2>5. c # Nobody /\ storage'[t][k] \in {Nobody, c} \cup expired
    BY <1>6, <1>12, <2>1, VisKnown
  <2>6. page'[t].shown # Nobody <=> page'[t].status \in {"ready", "saved"}
    BY <1>3, <1>5, <2>4 DEF PageOK
  <2>7. page'[t].shown \notin {Nobody, c} => page'[t].shown \in expired
    BY <1>3, <1>5, <1>6, <2>4 DEF PageOK
  <2>8. page'[t].status \in {"saved", "resolving"}
    BY <2>4
  <2>9. page'[t].status = "resolving" =>
          page'[t].customer # Nobody /\ storage'[t][page'[t].key] \in {Nobody, page'[t].customer} \cup expired'
    BY <2>2, <2>4, <2>5
  <2> HIDE DEF p
  <2>10. /\ page'[t].key <= minted' /\ page'[t].visit = 0
         /\ page'[t].shown \notin {Nobody, page'[t].customer} => page'[t].shown \in expired'
    BY <2>2, <2>4, <2>7
  <2> QED BY <2>3, <2>6, <2>8, <2>9, <2>10 DEF PageOK
<1>14. \A u \in Tabs \ {t} : PageOK(u)'
  BY <1>1, <1>2, <1>9, <1>10, VisPageOK
<1> QED BY <1>9, <1>10, <1>11, <1>12, <1>13, <1>14

LEMMA VisAnswered ==
  ASSUME VisitsInv, NEW v \in Visits, Answered(v)
  PROVE  VisitsInv'
<1>1. PICK c : c = visit[v].customer
  OBVIOUS
<1>2. /\ Under(v, "answer") /\ Ended(v) /\ UNCHANGED <<tenants, customer, embedded, expired>>
      /\ c \in Customers /\ dropped \subseteq Customers
      /\ storage \in [Tabs -> [Keys -> Customers \cup {Nobody}]]
      /\ \A t \in Tabs, k \in Keys : OfKey(storage[t][k], k)
  BY <1>1, VisVisitKnown DEF Answered, VisitOK, Under, VisitsInv, VisitsTyped
<1>3. ASSUME dropped' = dropped \cup Unkept(v)
      PROVE  /\ dropped \subseteq dropped' /\ dropped' \subseteq Customers
             /\ c \in dropped' \/ \E t \in Tabs, k \in Keys : storage[t][k] = c
  BY <1>1, <1>2, <1>3 DEF Unkept
<1>4. ASSUME NEW t \in Tabs, Waits(t, v),
             page' = [page EXCEPT
               ![t].visit = 0, ![t].customer = c,
               ![t].status = IF @ = "ready" THEN "saved" ELSE "resolving"],
             \/ storage' = [storage EXCEPT ![t] = Store(t, v)] /\ UNCHANGED dropped
             \/ UNCHANGED storage /\ dropped' = dropped \cup Unkept(v)
      PROVE  VisitsInv'
  <2>1. page[t].key \in Keys
    BY VisKnown DEF Pages
  <2>2. CASE storage' = [storage EXCEPT ![t] = Store(t, v)] /\ UNCHANGED dropped
    <3>1. PICK k : k = page[t].key
      OBVIOUS
    <3>2. /\ storage' = [storage EXCEPT ![t] = [storage[t] EXCEPT ![k] = c]] /\ k \in Keys
          /\ storage[t] \in [Keys -> Customers \cup {Nobody}]
      BY <1>1, <1>2, <2>1, <2>2, <3>1 DEF Store
    <3>3. /\ storage' \in [Tabs -> [Keys -> Customers \cup {Nobody}]]
          /\ storage'[t][k] = c /\ \A u \in Tabs \ {t} : storage'[u] = storage[u]
          /\ \A j \in Keys \ {k} : storage'[t][j] = storage[t][j]
      BY <1>2, <3>2
    <3>4. /\ page' \in [Tabs -> Pages] /\ \A u \in Tabs : PageOK(u)'
          /\ OfKey(c, k) /\ storage[t][k] \in {Nobody, c} \cup expired
      BY <1>1, <1>2, <1>4, <3>1, <3>3, VisTaken
    <3>5. \A u \in Tabs, j \in Keys :
            /\ OfKey(storage'[u][j], j)
            /\ storage'[u][j] # storage[u][j] => storage[u][j] \in {Nobody, visit[v].customer} \cup expired
      <4> SUFFICES ASSUME NEW u \in Tabs, NEW j \in Keys
                   PROVE  /\ OfKey(storage'[u][j], j)
                          /\ storage'[u][j] # storage[u][j] =>
                               storage[u][j] \in {Nobody, visit[v].customer} \cup expired
        OBVIOUS
      <4>1. CASE u = t /\ j = k
        BY <1>1, <3>3, <3>4, <4>1
      <4>2. CASE ~(u = t /\ j = k)
        <5>1. storage'[u][j] = storage[u][j]
          BY <3>3, <4>2
        <5> QED BY <1>2, <5>1
      <4> QED BY <4>1, <4>2
    <3>6. \E u \in Tabs, j \in Keys : storage'[u][j] = visit[v].customer
      BY <1>1, <3>2, <3>3
    <3> QED BY <1>2, <2>2, <3>3, <3>4, <3>5, <3>6, VisOver
  <2>3. CASE UNCHANGED storage /\ dropped' = dropped \cup Unkept(v)
    <3>1. page' \in [Tabs -> Pages] /\ \A u \in Tabs : PageOK(u)'
      BY <1>1, <1>2, <1>4, <2>3, VisTaken
    <3>2. /\ dropped \subseteq dropped' /\ dropped' \subseteq Customers
          /\ c \in dropped' \/ \E u \in Tabs, k \in Keys : storage'[u][k] = c
      BY <1>3, <2>3
    <3> QED BY <1>1, <1>2, <2>3, <3>1, <3>2, VisOver
  <2> QED BY <1>4, <2>2, <2>3
<1>5. ASSUME ~\E t \in Tabs : Waits(t, v), dropped' = dropped \cup Unkept(v), UNCHANGED <<page, storage>>
      PROVE  VisitsInv'
  <2>1. VisOnward
    BY <1>2, VisStill
  <2>2. VisPass
    BY <1>2, VisVisitKnown, VisEnded DEF VisPass
  <2>3. page' \in [Tabs -> Pages] /\ \A t \in Tabs : PageOK(t)'
    BY <1>5, <2>1, <2>2, VisPageOK DEF VisitsInv, VisitsTyped
  <2>4. /\ dropped \subseteq dropped' /\ dropped' \subseteq Customers
        /\ c \in dropped' \/ \E t \in Tabs, k \in Keys : storage'[t][k] = c
    BY <1>3, <1>5
  <2> QED BY <1>1, <1>2, <1>5, <2>3, <2>4, VisOver
<1> QED BY <1>1, <1>4, <1>5 DEF Answered

LEMMA VisitsStepOK ==
  VisitsInv /\ [WidgetSessionsNext]_<<tenants, sessions>> => VisitsInv'
<1> SUFFICES ASSUME VisitsInv, [WidgetSessionsNext]_<<tenants, sessions>> PROVE VisitsInv'
  OBVIOUS
<1>1. CASE UNCHANGED <<tenants, sessions>>
  BY <1>1, VisTenants
<1>2. CASE TenantsNext /\ UNCHANGED sessions
  BY <1>2, VisTenants
<1>3. ASSUME NEW t \in Tabs, OpenWidget(t) \/ SubmitDetails(t) \/ Resolved(t)
             \/ TokenRefused(t) \/ HandshakeRefused(t) \/ CloseTab(t)
             \/ \E o \in Orgs : Load(t, o)
      PROVE  VisitsInv'
  BY <1>3, VisOpenWidget, VisSubmitDetails, VisResolved, VisTokenRefused, VisHandshakeRefused,
     VisCloseTab, VisLoad
<1>4. ASSUME NEW v \in Visits, Find(v) \/ Resume(v) \/ CreateCustomer(v)
             \/ Answered(v) \/ Refused(v) \/ Lost(v)
      PROVE  VisitsInv'
  BY <1>4, VisFind, VisResume, VisCreateCustomer, VisAnswered, VisRefused, VisLost
<1> QED BY <1>1, <1>2, <1>3, <1>4, VisEmbed, VisExpire DEF WidgetSessionsNext

LEMMA WidgetSessionsInvariant == WidgetSessionsSpec => []VisitsInv
<1>1. VisitsInv /\ [WidgetSessionsNext]_<<tenants, sessions>> => VisitsInv'
  BY VisitsStepOK
<1> QED BY <1>1, WidgetSessionsInitially, PTL DEF WidgetSessionsSpec

LEMMA VisitsTypes == VisitsInv => WidgetSessionsTypeOK
<1> SUFFICES ASSUME VisitsInv PROVE WidgetSessionsTypeOK
  OBVIOUS
<1>1. TenantsTypeOK
  BY TenantsTypes DEF VisitsInv
<1>2. \A t \in Tabs : /\ page[t].visit \in Visits \cup {0}
                      /\ page[t].shown # Nobody <=> page[t].status \in {"ready", "saved"}
  BY DEF VisitsInv, PageOK
<1> QED BY <1>1, <1>2, VisKnown DEF WidgetSessionsTypeOK, VisitsInv, VisitsTyped

\* ADR-019, section 6 and ADR-021, section 6: every customer that createSession
\* makes is kept by the token in a tab's storage, or its token is on its way,
\* unless the token expired or was lost; no tab keeps a token under a key of
\* another tenant; and the token that a widget holds is that of the customer
\* whose conversation it shows, unless that customer's had expired.
THEOREM WidgetSessionsCustomersHeld == WidgetSessionsSpec => []CustomersHeld
<1>1. VisitsInv => CustomersHeld
  <2> SUFFICES ASSUME VisitsInv PROVE CustomersHeld
    OBVIOUS
  <2>1. \A t \in Tabs, o \in Orgs :
          org[o].key # NoKey /\ storage[t][org[o].key] # Nobody => customer[storage[t][org[o].key]] = o
    <3> SUFFICES ASSUME NEW t \in Tabs, NEW o \in Orgs, org[o].key # NoKey,
                        storage[t][org[o].key] # Nobody
                 PROVE  customer[storage[t][org[o].key]] = o
      OBVIOUS
    <3>1. org[o].key \in Keys
      BY VisKnown DEF Keys
    <3>2. OfKey(storage[t][org[o].key], org[o].key)
      BY <3>1 DEF VisitsInv
    <3> QED BY <3>2 DEF OfKey
  <2>2. \A t \in Tabs : page[t].shown \notin {Nobody, page[t].customer} => page[t].shown \in expired
    BY DEF VisitsInv, PageOK
  <2> QED BY <2>1, <2>2 DEF VisitsInv, Kept, CustomersHeld
<1> QED BY <1>1, WidgetSessionsInvariant, PTL

----------------------------------------------------------------------------
(* Accounts: every step keeps the invariant.                               *)

\* One call goes on, and no other.
OneMoves(k) ==
  req' \in [Requests -> AccountCalls] /\ \A j \in Requests \ {k} : req'[j] = req[j]

LEMMA AccCallGoes ==
  ASSUME AccountsTyped, NEW k \in Requests, NEW pc \in CallPcs, Goto(k, pc)
  PROVE  /\ OneMoves(k) /\ req'[k].pc = pc /\ req'[k].op = req[k].op
         /\ req'[k].code = req[k].code /\ req'[k].at = req[k].at
         /\ req'[k].since = req[k].since /\ req'[k].locks = req[k].locks
         /\ req'[k].against = req[k].against
BY DEF OneMoves, Goto, AccountsTyped, AccountCalls

LEMMA AccNoCall ==
  /\ NoRequest \in AccountCalls
  /\ NoRequest.op = "none" /\ NoRequest.pc = "idle" /\ NoRequest.against = {}
<1>1. ASSUME NEW b \in BOOLEAN
      PROVE  LET r == [op |-> "none", pc |-> "idle", code |-> Wrong, at |-> 0, since |-> 0,
                       locks |-> 0, verified |-> b, against |-> {}]
             IN  /\ r \in AccountCalls
                 /\ r.op = "none" /\ r.pc = "idle" /\ r.against = {}
  BY DEF AccountCalls, CallPcs, Wrong
<1>2. FALSE \in BOOLEAN
  BY Zenon
<1> QED BY <1>1, <1>2, Zenon DEF NoRequest

LEMMA AccCallOver ==
  ASSUME AccountsTyped, NEW k \in Requests, Done(k)
  PROVE  OneMoves(k) /\ req'[k] = NoRequest
BY AccNoCall DEF OneMoves, Done, AccountsTyped

\* The calls when one goes on and keeps what it saw.
Reading(k, pc, n) == [req EXCEPT ![k].pc = pc, ![k].since = n]
Carrying(k, pc, n) == [req EXCEPT ![k].pc = pc, ![k].code = n]
Locking(k, pc, n) == [req EXCEPT ![k].pc = pc, ![k].locks = n]
Against(k, pc, s) == [req EXCEPT ![k].pc = pc, ![k].against = s]
Seeing(k, pc, b) == [req EXCEPT ![k].pc = pc, ![k].verified = b]

LEMMA AccReading ==
  ASSUME AccountsTyped, NEW k \in Requests, NEW pc \in CallPcs, NEW n \in Nat,
         req' = Reading(k, pc, n)
  PROVE  /\ OneMoves(k) /\ req'[k].pc = pc /\ req'[k].since = n
         /\ req'[k].op = req[k].op /\ req'[k].against = req[k].against
<1> DEFINE q == [req EXCEPT ![k].pc = pc]
<1>1. /\ q \in [Requests -> AccountCalls] /\ q[k].pc = pc /\ q[k].op = req[k].op
      /\ q[k].against = req[k].against
      /\ \A j \in Requests \ {k} : q[j] = req[j]
  BY DEF AccountsTyped, AccountCalls
<1>2. req' = [q EXCEPT ![k].since = n]
  BY DEF Reading
<1> HIDE DEF q
<1> QED BY <1>1, <1>2 DEF OneMoves, AccountCalls

LEMMA AccCarrying ==
  ASSUME AccountsTyped, NEW k \in Requests, NEW pc \in CallPcs, NEW n \in Nat,
         req' = Carrying(k, pc, n)
  PROVE  /\ OneMoves(k) /\ req'[k].pc = pc /\ req'[k].code = n
         /\ req'[k].op = req[k].op /\ req'[k].against = req[k].against
<1> DEFINE q == [req EXCEPT ![k].pc = pc]
<1>1. /\ q \in [Requests -> AccountCalls] /\ q[k].pc = pc /\ q[k].op = req[k].op
      /\ q[k].against = req[k].against
      /\ \A j \in Requests \ {k} : q[j] = req[j]
  BY DEF AccountsTyped, AccountCalls
<1>2. req' = [q EXCEPT ![k].code = n]
  BY DEF Carrying
<1> HIDE DEF q
<1> QED BY <1>1, <1>2 DEF OneMoves, AccountCalls

LEMMA AccLocking ==
  ASSUME AccountsTyped, NEW k \in Requests, NEW pc \in CallPcs, NEW n \in Nat,
         req' = Locking(k, pc, n)
  PROVE  /\ OneMoves(k) /\ req'[k].pc = pc /\ req'[k].locks = n
         /\ req'[k].op = req[k].op /\ req'[k].against = req[k].against
<1> DEFINE q == [req EXCEPT ![k].pc = pc]
<1>1. /\ q \in [Requests -> AccountCalls] /\ q[k].pc = pc /\ q[k].op = req[k].op
      /\ q[k].against = req[k].against
      /\ \A j \in Requests \ {k} : q[j] = req[j]
  BY DEF AccountsTyped, AccountCalls
<1>2. req' = [q EXCEPT ![k].locks = n]
  BY DEF Locking
<1> HIDE DEF q
<1> QED BY <1>1, <1>2 DEF OneMoves, AccountCalls

LEMMA AccAgainst ==
  ASSUME AccountsTyped, NEW k \in Requests, NEW pc \in CallPcs, NEW s \in SUBSET Tokens,
         req' = Against(k, pc, s)
  PROVE  /\ OneMoves(k) /\ req'[k].pc = pc /\ req'[k].against = s
         /\ req'[k].op = req[k].op /\ req'[k].at = req[k].at
<1> DEFINE q == [req EXCEPT ![k].pc = pc]
<1>1. /\ q \in [Requests -> AccountCalls] /\ q[k].pc = pc /\ q[k].op = req[k].op
      /\ q[k].at = req[k].at
      /\ \A j \in Requests \ {k} : q[j] = req[j]
  BY DEF AccountsTyped, AccountCalls
<1>2. req' = [q EXCEPT ![k].against = s]
  BY DEF Against
<1> HIDE DEF q
<1> QED BY <1>1, <1>2 DEF OneMoves, AccountCalls

LEMMA AccSeeing ==
  ASSUME AccountsTyped, NEW k \in Requests, NEW pc \in CallPcs, NEW b \in BOOLEAN,
         req' = Seeing(k, pc, b)
  PROVE  /\ OneMoves(k) /\ req'[k].pc = pc
         /\ req'[k].op = req[k].op /\ req'[k].against = req[k].against
<1> DEFINE q == [req EXCEPT ![k].pc = pc]
<1>1. /\ q \in [Requests -> AccountCalls] /\ q[k].pc = pc /\ q[k].op = req[k].op
      /\ q[k].against = req[k].against
      /\ \A j \in Requests \ {k} : q[j] = req[j]
  BY DEF AccountsTyped, AccountCalls
<1>2. req' = [q EXCEPT ![k].verified = b]
  BY DEF Seeing
<1> HIDE DEF q
<1> QED BY <1>1, <1>2 DEF OneMoves, AccountCalls

\* A call that starts.
Asking(op, code, at) ==
  [[[[NoRequest EXCEPT !.op = op] EXCEPT !.pc = "lookup"] EXCEPT !.code = code] EXCEPT !.at = at]

Sending(op) == [[NoRequest EXCEPT !.op = op] EXCEPT !.pc = "lookup"]

LEMMA AccSending ==
  ASSUME NEW op \in {"register", "resend", "verify", "login"}
  PROVE  /\ Sending(op) \in AccountCalls
         /\ Sending(op).op = op /\ Sending(op).pc = "lookup" /\ Sending(op).against = {}
<1> DEFINE a == [NoRequest EXCEPT !.op = op]
<1>1. a \in AccountCalls /\ a.op = op /\ a.against = {}
  BY AccNoCall DEF AccountCalls
<1>2. Sending(op) = [a EXCEPT !.pc = "lookup"]
  BY DEF Sending
<1> HIDE DEF a
<1> QED BY <1>1, <1>2 DEF AccountCalls, CallPcs

LEMMA AccAsking ==
  ASSUME NEW op \in {"register", "resend", "verify", "login"}, NEW code \in Nat, NEW at \in Nat
  PROVE  /\ Asking(op, code, at) \in AccountCalls
         /\ Asking(op, code, at).op = op /\ Asking(op, code, at).pc = "lookup"
         /\ Asking(op, code, at).against = {}
<1> DEFINE a == [NoRequest EXCEPT !.op = op]
           b == [a EXCEPT !.pc = "lookup"]
           c == [b EXCEPT !.code = code]
           d == [c EXCEPT !.at = at]
<1>1. a \in AccountCalls /\ a.op = op /\ a.against = {}
  BY AccNoCall DEF AccountCalls
<1> HIDE DEF a
<1>2. b \in AccountCalls /\ b.op = op /\ b.against = {} /\ b.pc = "lookup"
  BY <1>1 DEF AccountCalls, CallPcs
<1> HIDE DEF b
<1>3. c \in AccountCalls /\ c.op = op /\ c.against = {} /\ c.pc = "lookup"
  BY <1>2 DEF AccountCalls
<1> HIDE DEF c
<1>4. d \in AccountCalls /\ d.op = op /\ d.against = {} /\ d.pc = "lookup"
  BY <1>3 DEF AccountCalls
<1> HIDE DEF d
<1>5. Asking(op, code, at) = d
  BY DEF Asking, d, c, b, a
<1> QED BY <1>4, <1>5

LEMMA AccountsInitially == AccountsInit => AccountsInv
<1> SUFFICES ASSUME AccountsInit PROVE AccountsInv
  OBVIOUS
<1>1. user \in UserDocs /\ user.failures = 0 /\ user.lockedUntil = 0 /\ (user.verified => user.exists)
  <2>1. ASSUME NEW e \in BOOLEAN, NEW v \in BOOLEAN
        PROVE  LET u == [exists |-> e, verified |-> v, failures |-> 0, lockedUntil |-> 0]
               IN  /\ u \in UserDocs /\ u.failures = 0 /\ u.lockedUntil = 0
                   /\ u.exists = e /\ u.verified = v
    BY DEF UserDocs
  <2>2. TRUE \in BOOLEAN /\ FALSE \in BOOLEAN
    BY Zenon
  <2>3. CASE user = NoAccount
    BY <2>1, <2>2, <2>3, Zenon DEF NoAccount
  <2>4. CASE user = [NoAccount EXCEPT !.exists = TRUE, !.verified = TRUE]
    <3>1. user = [exists |-> TRUE, verified |-> TRUE, failures |-> 0, lockedUntil |-> 0]
      BY <2>4 DEF NoAccount
    <3> QED BY <2>1, <2>2, <3>1, Zenon
  <2> QED BY <2>3, <2>4 DEF AccountsInit
<1>2. /\ token = [t \in Tokens |-> NoToken] /\ issued = 0 /\ mailed = {} /\ now = 0
      /\ req = [k \in Requests |-> NoRequest] /\ guesses = 0 /\ tested = [t \in Tokens |-> 0]
      /\ mischarged = {} /\ raced = {} /\ locks = 0
  BY DEF AccountsInit
<1>3. NoToken \in TokenDocs /\ NoToken.state = "absent" /\ NoToken.attempts = 0
  BY DEF NoToken, TokenDocs
<1>4. Issuers = {}
  BY <1>2, AccNoCall DEF Issuers
<1>5. AccountsTyped
  <2>1. issued + Cardinality(Issuers) <= MaxTokens
    BY <1>2, <1>4, FS_EmptySet, AccountsAssumption
  <2> QED BY <1>1, <1>2, <1>3, <2>1, AccNoCall DEF AccountsTyped
<1>6. UserOK
  BY <1>1, <1>2, AccountsAssumption DEF UserOK, UserDocs
<1>7. \A k \in Requests : CallOK(k)
  BY <1>2, AccNoCall DEF CallOK
<1>8. \A t \in Tokens : TokenOK(t) /\ Charged(t) /\ ~Live(t)
  BY <1>2, <1>3, AccountsAssumption DEF TokenOK, Charged, Live, Tokens
<1> QED BY <1>5, <1>6, <1>7, <1>8 DEF AccountsInv, OneCodeUnlessRaced

LEMMA AccIssuersFinite == IsFiniteSet(Issuers) /\ Cardinality(Issuers) \in Nat
<1>1. Issuers \subseteq Requests /\ IsFiniteSet(Requests)
  BY AccountsAssumption DEF Issuers
<1> QED BY <1>1, FS_Subset, FS_CardinalityType

\* No call becomes one that issues a code.
LEMMA AccNoNewIssuer ==
  ASSUME AccountsTyped, issued' = issued, Issuers' \subseteq Issuers
  PROVE  issued' + Cardinality(Issuers)' <= MaxTokens
<1>1. Cardinality(Issuers') \in Nat /\ Cardinality(Issuers') <= Cardinality(Issuers)
  BY AccIssuersFinite, FS_Subset, FS_CardinalityType
<1>2. issued \in Nat /\ issued + Cardinality(Issuers) <= MaxTokens /\ Cardinality(Issuers) \in Nat
  BY AccIssuersFinite DEF AccountsTyped
<1> QED BY <1>1, <1>2, AccountsAssumption

\* The requests that count a guess against a token, and do in the next state.
Counters(t) == {k \in Requests : Is(k, "count") /\ t \in req[k].against}

LEMMA AccCountersFinite ==
  ASSUME NEW t
  PROVE  IsFiniteSet(Counters(t)) /\ Cardinality(Counters(t)) \in Nat /\ Uncounted(t) = Cardinality(Counters(t))
<1>1. Counters(t) \subseteq Requests /\ IsFiniteSet(Requests)
  BY AccountsAssumption DEF Counters
<1>2. Uncounted(t) = Cardinality(Counters(t))
  BY DEF Uncounted, Counters
<1> QED BY <1>1, <1>2, FS_Subset, FS_CardinalityType

LEMMA AccUncountedKept ==
  ASSUME NEW t, Counters(t)' = Counters(t)
  PROVE  Uncounted(t)' = Uncounted(t)
BY DEF Uncounted, Counters

\* What no step takes back.
Onward ==
  /\ user.exists => user'.exists
  /\ issued <= issued' /\ locks <= locks' /\ now <= now'
  /\ locks' = locks => user'.lockedUntil <= user.lockedUntil
  /\ \A t \in 1..issued : token'[t].expires = token[t].expires /\ (Live(t)' => Live(t))

LEMMA AccIssued ==
  ASSUME AccountsTyped
  PROVE  /\ issued \in Nat /\ issued <= MaxTokens /\ MaxTokens \in Nat
         /\ 1..issued \subseteq Tokens
<1>1. issued \in Nat /\ Cardinality(Issuers) \in Nat /\ issued + Cardinality(Issuers) <= MaxTokens
      /\ MaxTokens \in Nat
  BY AccIssuersFinite, AccountsAssumption DEF AccountsTyped
<1> QED BY <1>1 DEF Tokens

LEMMA AccOthersOK ==
  ASSUME AccountsInv, AccountsTyped', Onward, NEW j \in Requests, req'[j] = req[j]
  PROVE  CallOK(j)'
<1>1. /\ CallOK(j) /\ issued \in Nat /\ issued' \in Nat /\ issued <= issued'
      /\ locks \in Nat /\ locks' \in Nat /\ now \in Nat /\ now' \in Nat
      /\ req[j] \in AccountCalls /\ user \in UserDocs /\ user' \in UserDocs
  BY DEF AccountsInv, AccountsTyped, Onward
<1>2. req[j].pc = "mail" => req[j].code \in 1..issued'
  BY <1>1 DEF CallOK
<1>3. req[j].against \subseteq 1..issued'
  BY <1>1 DEF CallOK
<1>4. req[j].pc = "count" => \A t \in req[j].against : token'[t].expires > req[j].at
  BY <1>1 DEF CallOK, Onward
<1>5. req[j].pc = "issue" =>
        req[j].since <= issued' /\ \A t \in Tokens : t <= req[j].since => ~Live(t)'
  <2> SUFFICES ASSUME req[j].pc = "issue", NEW t \in Tokens, t <= req[j].since PROVE ~Live(t)'
    BY <1>1 DEF CallOK, AccountCalls
  <2>1. req[j].since \in Nat /\ req[j].since <= issued
    BY <1>1 DEF CallOK, AccountCalls
  <2>2. t \in 1..issued
    BY <1>1, <2>1 DEF Tokens
  <2> QED BY <1>1, <2>2 DEF CallOK, Onward
<1>6. req[j].pc = "clearLock" =>
        req[j].locks <= locks' /\ (req[j].locks = locks' => user'.lockedUntil <= now')
  BY <1>1 DEF CallOK, Onward, AccountCalls, UserDocs
<1>7. /\ req[j].pc \in {"create", "invalidate", "issue"} => req[j].op \in {"register", "resend"}
      /\ req[j].pc \in CallPcs \ {"idle", "lookup", "create"} => user'.exists
  BY <1>1 DEF CallOK, Onward
<1> QED BY <1>2, <1>3, <1>4, <1>5, <1>6, <1>7 DEF CallOK

LEMMA AccDeleteLive ==
  ASSUME AccountsTyped
  PROVE  /\ DeleteLive \in [Tokens -> TokenDocs]
         /\ \A t \in Tokens :
              /\ DeleteLive[t].attempts = token[t].attempts
              /\ DeleteLive[t].expires = token[t].expires
              /\ DeleteLive[t].state # "live"
              /\ DeleteLive[t].state = "absent" <=> token[t].state = "absent"
<1>1. token \in [Tokens -> TokenDocs]
  BY DEF AccountsTyped
<1>2. ASSUME NEW t \in Tokens
      PROVE  /\ DeleteLive[t] \in TokenDocs
             /\ DeleteLive[t].attempts = token[t].attempts
             /\ DeleteLive[t].expires = token[t].expires
             /\ DeleteLive[t].state # "live"
             /\ DeleteLive[t].state = "absent" <=> token[t].state = "absent"
  <2>1. token[t] \in TokenDocs /\ [token[t] EXCEPT !.state = "deleted"] \in TokenDocs
    BY <1>1 DEF TokenDocs
  <2>2. DeleteLive[t] = IF Live(t) THEN [token[t] EXCEPT !.state = "deleted"] ELSE token[t]
    BY DEF DeleteLive
  <2>3. CASE Live(t)
    BY <2>1, <2>2, <2>3 DEF Live, TokenDocs
  <2>4. CASE ~Live(t)
    BY <2>1, <2>2, <2>4 DEF Live
  <2> QED BY <2>3, <2>4
<1>3. DeleteLive = [t \in Tokens |-> DeleteLive[t]]
  BY DEF DeleteLive
<1> HIDE DEF DeleteLive
<1> QED BY <1>2, <1>3

\* A step that does no more to tokens than spending or deleting live ones.
Withdrawn ==
  /\ token' \in [Tokens -> TokenDocs]
  /\ \A t \in Tokens :
       /\ token'[t].attempts = token[t].attempts
       /\ token'[t].expires = token[t].expires
       /\ \/ token'[t].state = token[t].state
          \/ Live(t) /\ token'[t].state \in {"deleted", "spent"}

LEMMA AccWithdrawn ==
  ASSUME AccountsInv, token' \in {token, DeleteLive}
  PROVE  Withdrawn
<1>1. token \in [Tokens -> TokenDocs]
  BY DEF AccountsInv, AccountsTyped
<1>2. CASE token' = token
  BY <1>1, <1>2 DEF Withdrawn
<1>3. CASE token' = DeleteLive
  <2>1. \A t \in Tokens : Live(t) => DeleteLive[t].state = "deleted"
    <3> SUFFICES ASSUME NEW t \in Tokens, Live(t) PROVE DeleteLive[t].state = "deleted"
      OBVIOUS
    <3>1. token[t] \in TokenDocs
      BY <1>1
    <3> QED BY <3>1 DEF DeleteLive, TokenDocs
  <2>2. \A t \in Tokens : ~Live(t) => DeleteLive[t].state = token[t].state
    BY DEF DeleteLive
  <2> QED BY <1>3, <2>1, <2>2, AccDeleteLive DEF AccountsInv, Withdrawn
<1> QED BY <1>2, <1>3

LEMMA AccTokensKept ==
  ASSUME AccountsInv, UNCHANGED <<issued, tested, mischarged, raced>>, Withdrawn,
         \A t \in Tokens : Counters(t)' = Counters(t)
  PROVE  /\ \A t \in Tokens : TokenOK(t)' /\ Charged(t)'
         /\ OneCodeUnlessRaced'
         /\ \A t \in Tokens : token'[t].expires = token[t].expires /\ (Live(t)' => Live(t))
         /\ token' \in [Tokens -> TokenDocs]
<1>1. /\ token' \in [Tokens -> TokenDocs]
      /\ \A t \in Tokens :
           /\ token'[t].attempts = token[t].attempts
           /\ token'[t].expires = token[t].expires
           /\ Live(t)' => Live(t)
           /\ token'[t].state = "absent" <=> token[t].state = "absent"
  BY DEF Withdrawn, Live
<1>2. ASSUME NEW t \in Tokens PROVE TokenOK(t)' /\ Charged(t)'
  <2>1. TokenOK(t) /\ Charged(t) /\ Uncounted(t)' = Uncounted(t)
    BY AccUncountedKept DEF AccountsInv
  <2>2. TokenOK(t)'
    BY <1>1, <2>1 DEF TokenOK
  <2>3. Charged(t)'
    BY <1>1, <2>1 DEF Charged
  <2> QED BY <2>2, <2>3
<1>3. OneCodeUnlessRaced'
  BY <1>1 DEF AccountsInv, OneCodeUnlessRaced
<1> QED BY <1>1, <1>2, <1>3

\* A step of a call that neither issues a code nor counts a guess.
LEMMA AccQuiet ==
  ASSUME AccountsInv, NEW k \in Requests, OneMoves(k), req[k].pc # "count", req'[k].pc # "count",
         UNCHANGED <<now, issued, tested, mischarged, raced>>,
         Withdrawn,
         user' \in UserDocs, UserOK', user.exists => user'.exists,
         mailed' \subseteq 1..issued, guesses' \in Nat,
         locks' \in Nat, locks <= locks', locks' = locks => user'.lockedUntil <= user.lockedUntil,
         k \in Issuers' => k \in Issuers,
         AccountsTyped' /\ Onward => CallOK(k)'
  PROVE  AccountsInv'
<1>1. \A t \in Tokens : Counters(t)' = Counters(t)
  <2> SUFFICES ASSUME NEW t \in Tokens, NEW j \in Requests
               PROVE Is(j, "count")' /\ t \in req'[j].against <=> Is(j, "count") /\ t \in req[j].against
    BY DEF Counters
  <2> QED BY DEF OneMoves, Is
<1>2. /\ \A t \in Tokens : TokenOK(t)' /\ Charged(t)'
      /\ OneCodeUnlessRaced'
      /\ \A t \in Tokens : token'[t].expires = token[t].expires /\ (Live(t)' => Live(t))
      /\ token' \in [Tokens -> TokenDocs]
  BY <1>1, AccTokensKept
<1>3. Issuers' \subseteq Issuers
  BY DEF OneMoves, Issuers
<1>4. AccountsTyped'
  <2>1. issued' + Cardinality(Issuers)' <= MaxTokens
    BY <1>3, AccNoNewIssuer DEF AccountsInv
  <2> QED BY <1>2, <2>1 DEF AccountsInv, AccountsTyped, OneMoves
<1>5. Onward
  <2>1. issued \in Nat /\ now \in Nat /\ 1..issued \subseteq Tokens
    BY AccIssued DEF AccountsInv, AccountsTyped
  <2> QED BY <1>2, <2>1 DEF Onward
<1>6. \A j \in Requests : CallOK(j)'
  BY <1>4, <1>5, AccOthersOK DEF OneMoves
<1> QED BY <1>2, <1>4, <1>6 DEF AccountsInv

\* The account as it is.
LEMMA AccUserKept ==
  ASSUME AccountsInv, UNCHANGED <<user, issued, now, locks>>
  PROVE  /\ user' \in UserDocs /\ UserOK' /\ (user.exists => user'.exists)
         /\ locks' \in Nat /\ locks <= locks'
         /\ (locks' = locks => user'.lockedUntil <= user.lockedUntil)
         /\ mailed \subseteq 1..issued /\ guesses \in Nat /\ AccountsTyped
BY DEF AccountsInv, AccountsTyped, UserOK, UserDocs

\* A call that is over, or has just begun, promises nothing.
LEMMA AccAtRest ==
  ASSUME NEW k \in Requests, req'[k].pc \in {"idle", "lookup"}, req'[k].against = {}
  PROVE  CallOK(k)'
BY DEF CallOK

LEMMA AccEnds ==
  ASSUME AccountsInv, NEW k \in Requests, req[k].pc # "count", Done(k),
         UNCHANGED <<user, now, issued, locks, tested, mischarged, raced, guesses>>,
         token' \in {token, DeleteLive}, mailed' \subseteq 1..issued
  PROVE  AccountsInv'
<1>1. OneMoves(k) /\ req'[k] = NoRequest
  BY AccCallOver DEF AccountsInv
<1>2. req'[k].pc = "idle" /\ CallOK(k)' /\ k \notin Issuers'
  BY <1>1, AccNoCall, AccAtRest DEF Issuers
<1> QED BY <1>1, <1>2, AccUserKept, AccQuiet, AccWithdrawn

LEMMA AccAsk ==
  ASSUME AccountsInv, NEW k \in Requests, Ask(k)
  PROVE  AccountsInv'
<1>1. AccountsTyped /\ req[k].pc = "idle" /\ UNCHANGED <<user, token, issued, mailed, now, past>>
  BY DEF AccountsInv, Ask, Is, tokens
<1>2. CASE \E op \in {"register", "resend"} :
             /\ issued + Cardinality({j \in Requests : req[j].op \in {"register", "resend"}})
                  < MaxTokens
             /\ req' = [req EXCEPT ![k] = [NoRequest EXCEPT !.op = op, !.pc = "lookup"]]
             /\ UNCHANGED guesses
  <2> DEFINE S == {j \in Requests : req[j].op \in {"register", "resend"}}
  <2>1. PICK op \in {"register", "resend"} :
          req' = [req EXCEPT ![k] = [NoRequest EXCEPT !.op = op, !.pc = "lookup"]]
    BY <1>2
  <2>2. [NoRequest EXCEPT !.op = op, !.pc = "lookup"] = Sending(op)
    BY DEF Sending
  <2>3. req' = [req EXCEPT ![k] = Sending(op)]
    BY <2>1, <2>2
  <2>4. /\ OneMoves(k) /\ req'[k].op = op /\ req'[k].pc = "lookup" /\ req'[k].against = {}
    BY <1>1, <2>3, AccSending DEF OneMoves, AccountsTyped
  <2>5. Issuers' \subseteq S \cup {k}
    BY <2>4 DEF OneMoves, Issuers
  <2>6. IsFiniteSet(S) /\ Cardinality(S) \in Nat
    BY FS_Subset, FS_CardinalityType, AccountsAssumption
  <2>7. /\ IsFiniteSet(S \cup {k})
        /\ Cardinality(S \cup {k}) \in Nat /\ Cardinality(S \cup {k}) <= Cardinality(S) + 1
    <3> HIDE DEF S
    <3>1. CASE k \in S
      <4>1. S \cup {k} = S
        BY <3>1
      <4>2. Cardinality(S \cup {k}) = Cardinality(S) /\ (IsFiniteSet(S) => IsFiniteSet(S \cup {k}))
        BY <4>1, Zenon
      <4> QED BY <2>6, <4>2
    <3>2. CASE k \notin S
      BY <2>6, <3>2, FS_AddElement
    <3> QED BY <3>1, <3>2
  <2>8. Cardinality(Issuers') \in Nat /\ Cardinality(Issuers') <= Cardinality(S \cup {k})
    BY <2>5, <2>7, FS_Subset, FS_CardinalityType
  <2>9. issued' + Cardinality(Issuers)' <= MaxTokens
    <3>1. issued + Cardinality(S) < MaxTokens
      BY <1>2
    <3> QED BY <1>1, <2>6, <2>7, <2>8, <3>1, AccountsAssumption DEF AccountsTyped
  <2>10. \A t \in Tokens : Counters(t)' = Counters(t)
    BY <1>1, <2>4 DEF OneMoves, Is, Counters
  <2>11. UNCHANGED <<issued, tested, mischarged, raced, locks>> /\ token' \in {token, DeleteLive}
    BY <1>1 DEF past
  <2>12. /\ \A t \in Tokens : TokenOK(t)' /\ Charged(t)'
         /\ OneCodeUnlessRaced'
         /\ \A t \in Tokens : token'[t].expires = token[t].expires /\ (Live(t)' => Live(t))
    BY <2>10, <2>11, AccWithdrawn, AccTokensKept
  <2>13. AccountsTyped'
    BY <1>1, <1>2, <2>4, <2>9, <2>11 DEF AccountsTyped, OneMoves
  <2>14. UserOK' /\ Onward
    <3>1. issued \in Nat /\ now \in Nat /\ 1..issued \subseteq Tokens
      BY <1>1, AccIssued DEF AccountsTyped
    <3> QED BY <1>1, <2>11, <2>12, <3>1, AccUserKept DEF Onward
  <2>15. \A j \in Requests : CallOK(j)'
    BY <2>4, <2>13, <2>14, AccAtRest, AccOthersOK DEF OneMoves
  <2> QED BY <2>12, <2>13, <2>14, <2>15 DEF AccountsInv
<1>3. CASE \E op \in {"verify", "login"} :
             /\ guesses < MaxGuesses /\ guesses' = guesses + 1
             /\ \E code \in {Wrong} \cup (IF op = "login" THEN {Right} ELSE mailed) :
                  /\ req' = [req EXCEPT ![k] =
                       [NoRequest EXCEPT !.op = op, !.pc = "lookup", !.code = code, !.at = now]]
  <2>1. PICK op \in {"verify", "login"} :
          /\ guesses' = guesses + 1
          /\ \E code \in {Wrong} \cup (IF op = "login" THEN {Right} ELSE mailed) :
               req' = [req EXCEPT ![k] =
                 [NoRequest EXCEPT !.op = op, !.pc = "lookup", !.code = code, !.at = now]]
    BY <1>3
  <2>2. PICK code \in {Wrong} \cup (IF op = "login" THEN {Right} ELSE mailed) :
          req' = [req EXCEPT ![k] =
            [NoRequest EXCEPT !.op = op, !.pc = "lookup", !.code = code, !.at = now]]
    BY <2>1
  <2>3. code \in Nat /\ now \in Nat
    <3>1. \A m \in mailed : m \in Nat
      BY <1>1 DEF AccountsTyped
    <3> QED BY <1>1, <2>2, <3>1 DEF AccountsTyped, Wrong, Right
  <2>4. [NoRequest EXCEPT !.op = op, !.pc = "lookup", !.code = code, !.at = now] = Asking(op, code, now)
    BY DEF Asking
  <2>5. req' = [req EXCEPT ![k] = Asking(op, code, now)]
    BY <2>2, <2>4
  <2>6. OneMoves(k) /\ req'[k].op = op /\ req'[k].pc = "lookup" /\ req'[k].against = {}
    BY <1>1, <2>3, <2>5, AccAsking DEF OneMoves, AccountsTyped
  <2>7. k \notin Issuers' /\ CallOK(k)'
    BY <2>6, AccAtRest DEF Issuers
  <2>8. UNCHANGED <<now, issued, tested, mischarged, raced, locks>> /\ token' = token /\ mailed' = mailed
    BY <1>1 DEF past
  <2>9. mailed' \subseteq 1..issued /\ guesses' \in Nat
    BY <1>1, <2>1, <2>8 DEF AccountsTyped
  <2> QED BY <1>1, <2>6, <2>7, <2>8, <2>9, AccUserKept, AccQuiet, AccWithdrawn
<1> QED BY <1>2, <1>3 DEF Ask

\* A call that goes on with what needs nothing but the account.
LEMMA AccGoesOn ==
  ASSUME AccountsInv, NEW k \in Requests, req[k].pc # "count", OneMoves(k),
         req'[k].pc \in {"create", "invalidate", "consume", "mark", "clearCodes", "fail"},
         req'[k].pc \in {"create", "invalidate"} =>
           req[k].pc = "lookup" /\ req[k].op \in {"register", "resend"},
         req'[k].pc # "create" => user'.exists,
         req'[k].op = req[k].op, req'[k].against = req[k].against,
         UNCHANGED <<now, issued, mailed, locks, tested, mischarged, raced, guesses>>,
         Withdrawn,
         user' \in UserDocs, UserOK', user.exists => user'.exists, user'.lockedUntil <= user.lockedUntil
  PROVE  AccountsInv'
<1>1. CallOK(k)'
  BY DEF AccountsInv, CallOK, CallPcs
<1>2. k \in Issuers' => k \in Issuers
  BY DEF Issuers
<1>3. mailed' \subseteq 1..issued /\ guesses' \in Nat /\ locks' \in Nat /\ locks <= locks'
  BY DEF AccountsInv, AccountsTyped
<1> QED BY <1>1, <1>2, <1>3, AccQuiet, AccWithdrawn

LEMMA AccLookup ==
  ASSUME AccountsInv, NEW k \in Requests, Lookup(k)
  PROVE  AccountsInv'
<1>1. /\ AccountsTyped /\ req[k].pc = "lookup" /\ req[k].op # "login" /\ req[k] \in AccountCalls
      /\ UNCHANGED <<user, now, issued, mailed, locks, tested, mischarged, raced, guesses, token>>
      /\ user \in UserDocs
  BY DEF AccountsInv, AccountsTyped, Lookup, Is, tokens, past
<1>2. CASE Done(k)
  BY <1>1, <1>2, AccEnds, AccUserKept
<1>3. CASE Goto(k, "create") /\ req[k].op = "register"
  <2>1. OneMoves(k) /\ req'[k].pc = "create" /\ req'[k].op = req[k].op /\ req'[k].against = req[k].against
    BY <1>1, <1>3, AccCallGoes DEF CallPcs
  <2> QED BY <1>1, <1>3, <2>1, AccUserKept, AccGoesOn, AccWithdrawn
<1>4. CASE Goto(k, "invalidate") /\ req[k].op = "resend" /\ user.exists
  <2>1. OneMoves(k) /\ req'[k].pc = "invalidate" /\ req'[k].op = req[k].op /\ req'[k].against = req[k].against
    BY <1>1, <1>4, AccCallGoes DEF CallPcs
  <2> QED BY <1>1, <1>4, <2>1, AccUserKept, AccGoesOn, AccWithdrawn
<1>5. CASE req' = Seeing(k, "consume", user.verified) /\ user.exists
  <2>1. OneMoves(k) /\ req'[k].pc = "consume" /\ req'[k].op = req[k].op /\ req'[k].against = req[k].against
    BY <1>1, <1>5, AccSeeing DEF CallPcs, UserDocs
  <2> QED BY <1>1, <1>5, <2>1, AccUserKept, AccGoesOn, AccWithdrawn
<1>6. CASE req[k].op = "register"
  BY <1>1, <1>2, <1>3, <1>6 DEF Lookup
<1>7. CASE req[k].op = "resend"
  BY <1>1, <1>2, <1>4, <1>7 DEF Lookup
<1>8. CASE req[k].op \notin {"register", "resend"}
  <2>1. Done(k) \/ (user.exists /\ req' = Seeing(k, "consume", user.verified))
    BY <1>8 DEF Lookup, Seeing
  <2> QED BY <1>2, <1>5, <2>1
<1> QED BY <1>6, <1>7, <1>8

\* A call that is about to issue a code has just made sure that none is live, or
\* the account is new.
LEMMA AccReadies ==
  ASSUME AccountsInv, NEW k \in Requests, req[k].pc \in {"create", "invalidate"},
         req' = Reading(k, "issue", issued),
         UNCHANGED <<now, issued, mailed, locks, tested, mischarged, raced, guesses>>,
         token' \in {token, DeleteLive}, token' = DeleteLive \/ issued = 0,
         user' \in UserDocs, UserOK', user'.exists, user'.lockedUntil <= user.lockedUntil
  PROVE  AccountsInv'
<1>1. /\ OneMoves(k) /\ req'[k].pc = "issue" /\ req'[k].since = issued
      /\ req'[k].op = req[k].op /\ req'[k].against = req[k].against
  <2>1. AccountsTyped /\ issued \in Nat /\ "issue" \in CallPcs
    BY DEF AccountsInv, AccountsTyped, CallPcs
  <2> QED BY <2>1, AccReading
<1>2. k \in Issuers
  BY DEF AccountsInv, CallOK, Issuers
<1>3. \A t \in Tokens : t <= issued => ~Live(t)'
  <2>1. CASE token' = DeleteLive
    BY <2>1, AccDeleteLive DEF AccountsInv, Live
  <2>2. CASE issued = 0
    BY <2>2 DEF Tokens
  <2> QED BY <2>1, <2>2
<1>4. CallOK(k)'
  <2>1. issued \in Nat
    BY DEF AccountsInv, AccountsTyped
  <2> QED BY <1>1, <1>3, <2>1 DEF AccountsInv, CallOK
<1>5. mailed' \subseteq 1..issued /\ guesses' \in Nat /\ locks' \in Nat /\ locks <= locks'
  BY DEF AccountsInv, AccountsTyped
<1> QED BY <1>1, <1>2, <1>4, <1>5, AccQuiet, AccWithdrawn

LEMMA AccCreateUser ==
  ASSUME AccountsInv, NEW k \in Requests, CreateUser(k)
  PROVE  AccountsInv'
<1>1. /\ AccountsTyped /\ req[k].pc = "create"
      /\ UNCHANGED <<now, issued, mailed, locks, tested, mischarged, raced, guesses, token>>
  BY DEF AccountsInv, CreateUser, Is, tokens, past
<1>2. CASE user.exists
  <2>1. Done(k) /\ user' = user
    BY <1>2 DEF CreateUser
  <2> QED BY <1>1, <2>1, AccEnds, AccUserKept
<1>3. CASE ~user.exists
  <2>1. user' = [NoAccount EXCEPT !.exists = TRUE] /\ req' = Reading(k, "issue", issued)
    BY <1>3 DEF CreateUser, Reading
  <2>2. issued = 0 /\ user.lockedUntil = 0 /\ now \in Nat
    BY <1>1, <1>3 DEF AccountsInv, UserOK, AccountsTyped
  <2>3. user' \in UserDocs /\ user'.exists /\ ~user'.verified /\ user'.failures = 0 /\ user'.lockedUntil = 0
    <3>1. user' = [exists |-> TRUE, verified |-> FALSE, failures |-> 0, lockedUntil |-> 0]
      BY <2>1 DEF NoAccount
    <3>2. ASSUME NEW e \in BOOLEAN, NEW v \in BOOLEAN
          PROVE  LET u == [exists |-> e, verified |-> v, failures |-> 0, lockedUntil |-> 0]
                 IN  /\ u \in UserDocs /\ u.failures = 0 /\ u.lockedUntil = 0
                     /\ u.exists = e /\ u.verified = v
      BY DEF UserDocs
    <3>3. TRUE \in BOOLEAN /\ FALSE \in BOOLEAN
      BY Zenon
    <3> QED BY <3>1, <3>2, <3>3, Zenon
  <2>4. UserOK'
    BY <1>1, <2>2, <2>3, AccountsAssumption DEF UserOK
  <2>5. user'.lockedUntil <= user.lockedUntil
    BY <2>2, <2>3
  <2>6. /\ req[k].pc \in {"create", "invalidate"} /\ token' \in {token, DeleteLive}
        /\ token' = DeleteLive \/ issued = 0
    BY <1>1, <2>2
  <2> QED BY <1>1, <2>1, <2>3, <2>4, <2>5, <2>6, AccReadies
<1> QED BY <1>2, <1>3

LEMMA AccInvalidate ==
  ASSUME AccountsInv, NEW k \in Requests, Invalidate(k)
  PROVE  AccountsInv'
<1>1. /\ req[k].pc = "invalidate" /\ token' = DeleteLive /\ req' = Reading(k, "issue", issued)
      /\ UNCHANGED <<user, now, issued, mailed, locks, tested, mischarged, raced, guesses>>
  BY DEF Invalidate, Is, past, Reading
<1>2. user.exists
  BY <1>1 DEF AccountsInv, CallOK, CallPcs
<1> QED BY <1>1, <1>2, AccUserKept, AccReadies

LEMMA AccMail ==
  ASSUME AccountsInv, NEW k \in Requests, Mail(k)
  PROVE  AccountsInv'
<1>1. /\ req[k].pc = "mail" /\ Done(k)
      /\ UNCHANGED <<user, now, issued, locks, tested, mischarged, raced, guesses, token>>
      /\ mailed' \in {mailed \cup {req[k].code}, mailed}
  BY DEF Mail, Is, past
<1>2. mailed' \subseteq 1..issued
  BY <1>1 DEF AccountsInv, AccountsTyped, CallOK
<1> QED BY <1>1, <1>2, AccEnds

LEMMA AccMark ==
  ASSUME AccountsInv, NEW k \in Requests, Mark(k)
  PROVE  AccountsInv'
<1>1. /\ AccountsTyped /\ req[k].pc = "mark" /\ Goto(k, "clearCodes")
      /\ user' = [user EXCEPT !.verified = TRUE]
      /\ UNCHANGED <<now, issued, mailed, locks, tested, mischarged, raced, guesses, token>>
  BY DEF AccountsInv, Mark, Is, tokens, past
<1>2. OneMoves(k) /\ req'[k].pc = "clearCodes" /\ req'[k].op = req[k].op /\ req'[k].against = req[k].against
  BY <1>1, AccCallGoes DEF CallPcs
<1>3. user.exists /\ user \in UserDocs
  BY <1>1 DEF AccountsInv, AccountsTyped, CallOK, CallPcs
<1>4. /\ user' \in UserDocs /\ user'.exists = user.exists /\ user'.failures = user.failures
      /\ user'.lockedUntil = user.lockedUntil
  BY <1>1, <1>3 DEF UserDocs
<1>5. UserOK'
  BY <1>1, <1>3, <1>4 DEF AccountsInv, UserOK
<1>6. user'.lockedUntil <= user.lockedUntil
  BY <1>3, <1>4 DEF UserDocs
<1> QED BY <1>1, <1>2, <1>3, <1>4, <1>5, <1>6, AccGoesOn, AccWithdrawn

LEMMA AccClearCodes ==
  ASSUME AccountsInv, NEW k \in Requests, ClearCodes(k)
  PROVE  AccountsInv'
<1>1. /\ req[k].pc = "clearCodes" /\ Done(k) /\ token' = DeleteLive
      /\ UNCHANGED <<user, now, issued, mailed, locks, tested, mischarged, raced, guesses>>
  BY DEF ClearCodes, Is, past
<1> QED BY <1>1, AccUserKept, AccEnds

LEMMA AccStepFails ==
  ASSUME AccountsInv, NEW k \in Requests, StepFails(k)
  PROVE  AccountsInv'
<1>1. /\ req[k].pc # "count" /\ Done(k)
      /\ UNCHANGED <<user, now, issued, mailed, locks, tested, mischarged, raced, guesses, token>>
  BY DEF StepFails, tokens, past
<1> QED BY <1>1, AccUserKept, AccEnds

\* Signing in.
LEMMA AccLoginLookup ==
  ASSUME AccountsInv, NEW k \in Requests, LoginLookup(k)
  PROVE  AccountsInv'
<1>1. /\ AccountsTyped /\ req[k].pc = "lookup" /\ req[k].op = "login"
      /\ UNCHANGED <<user, now, issued, mailed, locks, tested, mischarged, raced, guesses, token>>
      /\ user \in UserDocs /\ now \in Nat /\ locks \in Nat
  BY DEF AccountsInv, AccountsTyped, LoginLookup, Is, tokens, past
<1>2. CASE Done(k)
  BY <1>1, <1>2, AccEnds, AccUserKept
<1>3. CASE ~Done(k)
  <2>1. /\ user.exists /\ ~Locked(user.lockedUntil)
        /\ req' = Locking(k, IF req[k].code = Wrong THEN "fail" ELSE "clearLock", locks)
    BY <1>3 DEF LoginLookup, Locking
  <2>2. PICK pc \in {"fail", "clearLock"} : req' = Locking(k, pc, locks)
    BY <2>1
  <2>3. /\ OneMoves(k) /\ req'[k].pc = pc /\ req'[k].locks = locks /\ req'[k].op = req[k].op
        /\ req'[k].against = req[k].against
    BY <1>1, <2>2, AccLocking DEF CallPcs
  <2>4. user.lockedUntil <= now
    BY <1>1, <2>1 DEF Locked, UserDocs
  <2>5. CallOK(k)'
    BY <1>1, <2>1, <2>3, <2>4 DEF AccountsInv, CallOK
  <2>6. k \notin Issuers'
    BY <1>1, <2>3 DEF Issuers
  <2> QED BY <1>1, <2>3, <2>5, <2>6, AccUserKept, AccQuiet, AccWithdrawn
<1> QED BY <1>2, <1>3

LEMMA AccFail ==
  ASSUME AccountsInv, NEW k \in Requests, Fail(k)
  PROVE  AccountsInv'
<1>1. /\ AccountsTyped /\ req[k].pc = "fail" /\ Done(k)
      /\ UNCHANGED <<now, issued, mailed, tested, mischarged, raced, guesses, token>>
      /\ user \in UserDocs /\ now \in Nat /\ locks \in Nat /\ user.exists /\ UserOK
  BY DEF AccountsInv, AccountsTyped, Fail, Is, tokens, CallOK, CallPcs
<1>2. OneMoves(k) /\ req'[k] = NoRequest
  BY <1>1, AccCallOver
<1>3. req'[k].pc = "idle" /\ CallOK(k)' /\ k \notin Issuers'
  BY <1>2, AccNoCall, AccAtRest DEF Issuers
<1>4. CASE /\ user.failures + 1 >= MaxFailures
           /\ user' = [user EXCEPT !.failures = 0, !.lockedUntil = now + LockTime]
           /\ locks' = locks + 1
  <2>1. /\ user' \in UserDocs /\ user'.exists = user.exists /\ user'.verified = user.verified
        /\ user'.failures = 0 /\ user'.lockedUntil = now + LockTime
    <3>1. now + LockTime \in Nat
      BY <1>1, AccountsAssumption
    <3>2. ASSUME NEW n \in Nat
          PROVE  LET u == [user EXCEPT !.failures = 0, !.lockedUntil = n]
                 IN  /\ u \in UserDocs /\ u.exists = user.exists /\ u.verified = user.verified
                     /\ u.failures = 0 /\ u.lockedUntil = n
      BY <1>1 DEF UserDocs
    <3> QED BY <1>4, <3>1, <3>2
  <2>2. UserOK'
    BY <1>1, <2>1, AccountsAssumption DEF UserOK
  <2>3. mailed' \subseteq 1..issued /\ guesses' \in Nat /\ locks' \in Nat /\ locks <= locks' /\ locks' # locks
    BY <1>1, <1>4 DEF AccountsTyped
  <2> QED BY <1>1, <1>2, <1>3, <2>1, <2>2, <2>3, AccQuiet, AccWithdrawn
<1>5. CASE /\ ~(user.failures + 1 >= MaxFailures)
           /\ user' = [user EXCEPT !.failures = @ + 1]
           /\ locks' = locks
  <2>1. /\ user' \in UserDocs /\ user'.exists = user.exists /\ user'.verified = user.verified
        /\ user'.failures = user.failures + 1 /\ user'.lockedUntil = user.lockedUntil
    <3>1. user.failures + 1 \in Nat
      BY <1>1 DEF UserDocs
    <3>2. ASSUME NEW n \in Nat
          PROVE  LET u == [user EXCEPT !.failures = n]
                 IN  /\ u \in UserDocs /\ u.exists = user.exists /\ u.verified = user.verified
                     /\ u.failures = n /\ u.lockedUntil = user.lockedUntil
      BY <1>1 DEF UserDocs
    <3>3. user' = [user EXCEPT !.failures = user.failures + 1]
      BY <1>5
    <3> QED BY <3>1, <3>2, <3>3
  <2>2. UserOK'
    BY <1>1, <1>5, <2>1, AccountsAssumption DEF UserOK, UserDocs
  <2>3. mailed' \subseteq 1..issued /\ guesses' \in Nat /\ locks' \in Nat /\ locks <= locks'
        /\ user'.lockedUntil <= user.lockedUntil
    BY <1>1, <1>5, <2>1 DEF AccountsTyped, UserDocs
  <2> QED BY <1>1, <1>2, <1>3, <2>1, <2>2, <2>3, AccQuiet, AccWithdrawn
<1> QED BY <1>4, <1>5 DEF Fail

LEMMA AccClearLock ==
  ASSUME AccountsInv, NEW k \in Requests, ClearLock(k)
  PROVE  AccountsInv'
<1>1. /\ AccountsTyped /\ req[k].pc = "clearLock" /\ Done(k)
      /\ user' = [user EXCEPT !.failures = 0, !.lockedUntil = 0]
      /\ UNCHANGED <<now, issued, mailed, locks, tested, mischarged, raced, guesses, token>>
      /\ user \in UserDocs /\ now \in Nat /\ locks \in Nat /\ user.exists /\ UserOK
  BY DEF AccountsInv, AccountsTyped, ClearLock, Is, tokens, past, CallOK, CallPcs
<1>2. OneMoves(k) /\ req'[k] = NoRequest
  BY <1>1, AccCallOver
<1>3. req'[k].pc = "idle" /\ CallOK(k)' /\ k \notin Issuers'
  BY <1>2, AccNoCall, AccAtRest DEF Issuers
<1>4. /\ user' \in UserDocs /\ user'.exists = user.exists /\ user'.verified = user.verified
      /\ user'.failures = 0 /\ user'.lockedUntil = 0
  BY <1>1 DEF UserDocs
<1>5. UserOK'
  BY <1>1, <1>4, AccountsAssumption DEF UserOK
<1>6. mailed' \subseteq 1..issued /\ guesses' \in Nat /\ locks' \in Nat /\ locks <= locks'
      /\ user'.lockedUntil <= user.lockedUntil
  BY <1>1, <1>4 DEF AccountsTyped, UserDocs
<1> QED BY <1>1, <1>2, <1>3, <1>4, <1>5, <1>6, AccQuiet, AccWithdrawn

\* Redeeming a code.
LEMMA AccConsume ==
  ASSUME AccountsInv, NEW k \in Requests, Consume(k)
  PROVE  AccountsInv'
<1> DEFINE met == {t \in Tokens : Redeemable(t, k)}
<1>1. /\ AccountsTyped /\ req[k].pc = "consume" /\ CallOK(k) /\ req[k] \in AccountCalls
      /\ UNCHANGED <<user, now, issued, mailed, locks, mischarged, raced, guesses>>
      /\ user.exists /\ token \in [Tokens -> TokenDocs]
  BY DEF AccountsInv, AccountsTyped, Consume, Is, CallOK, CallPcs
<1>2. CASE req[k].code \in met
  <2> DEFINE c == req[k].code
  <2>1. /\ c \in Tokens /\ Live(c) /\ token' = [token EXCEPT ![c].state = "spent"]
        /\ tested' = tested
        /\ \E pc \in {"mark", "clearCodes"} : Goto(k, pc)
    BY <1>2 DEF Consume, Redeemable
  <2>2. Withdrawn
    BY <1>1, <2>1 DEF Withdrawn, TokenDocs
  <2>3. PICK pc \in {"mark", "clearCodes"} : Goto(k, pc)
    BY <2>1
  <2>4. OneMoves(k) /\ req'[k].pc = pc /\ req'[k].op = req[k].op /\ req'[k].against = req[k].against
    BY <1>1, <2>3, AccCallGoes DEF CallPcs
  <2> QED BY <1>1, <2>1, <2>2, <2>4, AccUserKept, AccGoesOn
<1>3. CASE req[k].code \notin met
  <2>1. /\ tested' = [t \in Tokens |-> IF t \in met THEN tested[t] + 1 ELSE tested[t]]
        /\ req' = Against(k, "count", met) /\ token' = token
    BY <1>3 DEF Consume, Against
  <2>2. met \in SUBSET Tokens /\ met \subseteq 1..issued /\ \A t \in met : Live(t)
    <3>1. ASSUME NEW t \in met PROVE t \in 1..issued /\ Live(t)
      <4>1. t \in Tokens /\ Live(t) /\ token[t].state # "absent"
        BY DEF Redeemable, Live
      <4>2. ~(t > issued)
        BY <4>1 DEF AccountsInv, TokenOK
      <4> QED BY <1>1, <4>1, <4>2 DEF AccountsTyped, Tokens
    <3> QED BY <3>1
  <2>3. \A t \in met : token[t].expires > req[k].at
    BY DEF Redeemable
  <2> HIDE DEF met
  <2>4. /\ OneMoves(k) /\ req'[k].pc = "count" /\ req'[k].against = met /\ req'[k].op = req[k].op
        /\ req'[k].at = req[k].at
    BY <1>1, <2>1, <2>2, AccAgainst DEF CallPcs
  <2>5. /\ tested \in [Tokens -> Nat] /\ tested' \in [Tokens -> Nat]
        /\ \A t \in met : tested'[t] = tested[t] + 1
        /\ \A t \in Tokens \ met : tested'[t] = tested[t]
    BY <1>1, <2>1, <2>2 DEF AccountsTyped
  <2>6. Issuers' \subseteq Issuers
    BY <2>4 DEF OneMoves, Issuers
  <2>7. AccountsTyped'
    BY <1>1, <2>1, <2>4, <2>5, <2>6, AccNoNewIssuer DEF AccountsTyped, OneMoves
  <2>8. Onward /\ UserOK'
    <3>1. issued \in Nat /\ now \in Nat /\ 1..issued \subseteq Tokens
      BY <1>1, AccIssued DEF AccountsTyped
    <3> QED BY <1>1, <2>1, <3>1, AccUserKept DEF Onward, Live
  <2>9. \A j \in Requests : CallOK(j)'
    <3>1. CallOK(k)'
      BY <1>1, <2>1, <2>2, <2>3, <2>4 DEF CallOK
    <3> QED BY <2>4, <2>7, <2>8, <3>1, AccOthersOK DEF OneMoves
  <2>10. \A t \in met : Uncounted(t)' = Uncounted(t) + 1
    <3> SUFFICES ASSUME NEW t \in met PROVE Uncounted(t)' = Uncounted(t) + 1
      OBVIOUS
    <3>1. Counters(t)' = Counters(t) \cup {k} /\ k \notin Counters(t)
      BY <1>1, <2>4 DEF OneMoves, Counters, Is
    <3>2. IsFiniteSet(Counters(t)) /\ Uncounted(t) = Cardinality(Counters(t))
      BY AccCountersFinite
    <3>3. Uncounted(t)' = Cardinality(Counters(t)')
      BY DEF Uncounted, Counters
    <3>4. Cardinality(Counters(t) \cup {k}) = Cardinality(Counters(t)) + 1
      BY <3>1, <3>2, FS_AddElement
    <3> QED BY <3>1, <3>2, <3>3, <3>4
  <2>11. \A t \in Tokens \ met : Uncounted(t)' = Uncounted(t)
    <3> SUFFICES ASSUME NEW t \in Tokens \ met PROVE Uncounted(t)' = Uncounted(t)
      OBVIOUS
    <3>1. Counters(t)' = Counters(t)
      BY <1>1, <2>4 DEF OneMoves, Counters, Is
    <3> QED BY <3>1, AccUncountedKept
  <2>12. ASSUME NEW t \in Tokens PROVE TokenOK(t)' /\ Charged(t)'
    <3>1. /\ TokenOK(t) /\ Charged(t) /\ token[t] \in TokenDocs /\ tested[t] \in Nat
          /\ Uncounted(t) \in Nat /\ Uncounted(t)' \in Nat /\ t \in Nat /\ issued \in Nat
      BY <1>1, <2>5, <2>10, <2>11, AccCountersFinite DEF AccountsInv, AccountsTyped, Tokens
    <3>2. TokenOK(t)'
      BY <1>1, <2>1, <2>2, <2>5, <3>1 DEF TokenOK, Live
    <3>3. Charged(t)'
      <4>1. CASE t \in met
        BY <1>1, <2>1, <2>5, <2>10, <3>1, <4>1 DEF Charged, Live, TokenDocs
      <4>2. CASE t \notin met
        BY <1>1, <2>1, <2>5, <2>11, <3>1, <4>2 DEF Charged, Live
      <4> QED BY <4>1, <4>2
    <3> QED BY <3>2, <3>3
  <2>13. OneCodeUnlessRaced'
    BY <1>1, <2>1 DEF AccountsInv, OneCodeUnlessRaced, Live
  <2> QED BY <2>7, <2>8, <2>9, <2>12, <2>13 DEF AccountsInv
<1> QED BY <1>2, <1>3

\* A call that has counted, or will not.
LEMMA AccSettles ==
  ASSUME AccountsInv, NEW k \in Requests, req[k].pc = "count", Done(k), NEW t \in Tokens
  PROVE  /\ t \in req[k].against => Uncounted(t)' = Uncounted(t) - 1 /\ Uncounted(t) > 0
         /\ t \notin req[k].against => Uncounted(t)' = Uncounted(t)
         /\ Uncounted(t) \in Nat /\ Uncounted(t)' \in Nat
<1>1. /\ OneMoves(k) /\ req'[k].pc = "idle"
      /\ IsFiniteSet(Counters(t)) /\ Cardinality(Counters(t)) \in Nat
      /\ Uncounted(t) = Cardinality(Counters(t))
  BY AccCallOver, AccNoCall, AccCountersFinite DEF AccountsInv
<1>2. Uncounted(t)' = Cardinality(Counters(t)')
  BY DEF Uncounted, Counters
<1>3. CASE t \in req[k].against
  <2>1. k \in Counters(t) /\ Counters(t)' = Counters(t) \ {k}
    BY <1>1, <1>3 DEF OneMoves, Counters, Is
  <2>2. Cardinality(Counters(t) \ {k}) = Cardinality(Counters(t)) - 1
        /\ IsFiniteSet(Counters(t) \ {k})
    BY <1>1, <2>1, FS_RemoveElement
  <2>3. Cardinality(Counters(t) \ {k}) \in Nat
    BY <2>2, FS_CardinalityType
  <2> QED BY <1>1, <1>2, <1>3, <2>1, <2>2, <2>3
<1>4. CASE t \notin req[k].against
  <2>1. Counters(t)' = Counters(t)
    BY <1>1, <1>4 DEF OneMoves, Counters, Is
  <2> QED BY <1>1, <1>2, <1>4, <2>1
<1> QED BY <1>3, <1>4

\* The account, the codes issued and the calls when one has counted.
LEMMA AccCounted ==
  ASSUME AccountsInv, NEW k \in Requests, req[k].pc = "count", Done(k),
         UNCHANGED <<user, issued, mailed, now, guesses, tested, raced, locks>>,
         token' \in [Tokens -> TokenDocs],
         \A t \in Tokens : token'[t].expires = token[t].expires /\ (Live(t)' => Live(t)),
         mischarged' \subseteq 1..issued,
         \A t \in Tokens : TokenOK(t)' /\ Charged(t)'
  PROVE  AccountsInv'
<1>1. OneMoves(k) /\ req'[k] = NoRequest /\ req'[k].pc = "idle" /\ CallOK(k)'
  BY AccCallOver, AccNoCall, AccAtRest DEF AccountsInv
<1>2. Issuers' \subseteq Issuers
  BY <1>1 DEF OneMoves, Issuers
<1>3. AccountsTyped'
  BY <1>1, <1>2, AccNoNewIssuer DEF AccountsInv, AccountsTyped, OneMoves
<1>4. Onward /\ UserOK'
  <2>1. issued \in Nat /\ now \in Nat /\ 1..issued \subseteq Tokens
    BY AccIssued DEF AccountsInv, AccountsTyped
  <2> QED BY <2>1, AccUserKept DEF Onward
<1>5. \A j \in Requests : CallOK(j)'
  BY <1>1, <1>3, <1>4, AccOthersOK DEF OneMoves
<1>6. OneCodeUnlessRaced'
  BY DEF AccountsInv, OneCodeUnlessRaced
<1> QED BY <1>3, <1>4, <1>5, <1>6 DEF AccountsInv

Budgeted(t) ==
  [token EXCEPT ![t].attempts = @ + 1, ![t].state = AfterCount(token[t].attempts + 1)]

LEMMA AccBudgeted ==
  ASSUME token \in [Tokens -> TokenDocs], NEW t \in Tokens, token' = Budgeted(t)
  PROVE  /\ token' \in [Tokens -> TokenDocs]
         /\ token'[t].attempts = token[t].attempts + 1
         /\ token'[t].state = AfterCount(token[t].attempts + 1)
         /\ token'[t].expires = token[t].expires
         /\ \A s \in Tokens \ {t} : token'[s] = token[s]
<1> DEFINE n == token[t].attempts + 1
           q == [token EXCEPT ![t].attempts = @ + 1]
           a == AfterCount(n)
<1>1. n \in Nat /\ a \in {"spent", "live"}
  BY DEF TokenDocs, AfterCount
<1>2. /\ q \in [Tokens -> TokenDocs] /\ q[t].attempts = n /\ q[t].expires = token[t].expires
      /\ \A s \in Tokens \ {t} : q[s] = token[s]
  BY <1>1 DEF TokenDocs
<1>3. token' = [q EXCEPT ![t].state = a]
  BY DEF Budgeted
<1> HIDE DEF q, a
<1>4. /\ token' \in [Tokens -> TokenDocs]
      /\ token'[t].attempts = n /\ token'[t].state = a /\ token'[t].expires = token[t].expires
      /\ \A s \in Tokens \ {t} : token'[s] = token[s]
  BY <1>1, <1>2, <1>3 DEF TokenDocs
<1> QED BY <1>4 DEF a

LEMMA AccCount ==
  ASSUME AccountsInv, NEW k \in Requests, Count(k)
  PROVE  AccountsInv'
<1> DEFINE met == {t \in Tokens : Redeemable(t, k)}
<1>1. /\ AccountsTyped /\ req[k].pc = "count" /\ CallOK(k) /\ req[k] \in AccountCalls /\ Done(k)
      /\ UNCHANGED <<user, issued, mailed, now, guesses, tested, raced, locks>>
      /\ token \in [Tokens -> TokenDocs] /\ tested \in [Tokens -> Nat] /\ issued \in Nat
  BY DEF AccountsInv, AccountsTyped, Count, Is
<1>2. CASE met = {}
  <2>1. token' = token /\ mischarged' = mischarged
    BY <1>2 DEF Count
  <2>2. \A t \in req[k].against : t \in Tokens /\ ~Live(t)
    BY <1>1, <1>2 DEF CallOK, Redeemable, AccountCalls
  <2>3. ASSUME NEW t \in Tokens PROVE TokenOK(t)' /\ Charged(t)'
    <3>1. TokenOK(t) /\ Charged(t)
      BY DEF AccountsInv
    <3>2. TokenOK(t)'
      BY <1>1, <2>1, <3>1 DEF TokenOK, Live
    <3>3. Live(t) => Uncounted(t)' = Uncounted(t)
      BY <1>1, <2>2, AccSettles
    <3> QED BY <1>1, <2>1, <3>1, <3>2, <3>3 DEF Charged, Live
  <2>4. mischarged' \subseteq 1..issued /\ \A t \in Tokens : Live(t)' => Live(t)
    BY <1>1, <2>1 DEF AccountsTyped, Live
  <2> QED BY <1>1, <2>1, <2>3, <2>4, AccCounted
<1>3. CASE met # {}
  <2>1. PICK t \in met :
          /\ token' = Budgeted(t)
          /\ mischarged' = mischarged \cup (req[k].against \ {t}) \cup ({t} \ req[k].against)
    BY <1>3 DEF Count, Budgeted
  <2>2. t \in Tokens /\ Live(t) /\ TokenOK(t) /\ token[t] \in TokenDocs
    BY <1>1 DEF Redeemable, AccountsInv
  <2>3. /\ token' \in [Tokens -> TokenDocs]
        /\ token'[t].attempts = token[t].attempts + 1
        /\ token'[t].state = AfterCount(token[t].attempts + 1)
        /\ token'[t].expires = token[t].expires
        /\ \A s \in Tokens \ {t} : token'[s] = token[s]
    BY <1>1, <2>1, <2>2, AccBudgeted
  <2>4. /\ token[t].attempts \in Nat /\ token[t].attempts < MaxAttempts
        /\ MaxAttempts \in Nat /\ ~(t > issued)
    BY <2>2, AccountsAssumption DEF TokenOK, TokenDocs, Live
  <2>5. TokenOK(t)'
    BY <1>1, <2>3, <2>4 DEF TokenOK, Live, AfterCount
  <2>6. Charged(t)'
    <3> SUFFICES ASSUME t \notin mischarged' PROVE Charged(t)'
      BY DEF Charged
    <3>1. t \notin mischarged /\ t \in req[k].against
      BY <2>1
    <3>2. Uncounted(t)' = Uncounted(t) - 1 /\ Uncounted(t) > 0 /\ Uncounted(t) \in Nat
      BY <1>1, <2>2, <3>1, AccSettles
    <3>3. tested[t] = token[t].attempts + Uncounted(t)
      BY <2>2, <3>1 DEF AccountsInv, Charged
    <3> QED BY <1>1, <2>2, <2>3, <2>4, <3>2, <3>3 DEF Charged
  <2>7. ASSUME NEW s \in Tokens \ {t} PROVE TokenOK(s)' /\ Charged(s)'
    <3>1. TokenOK(s) /\ Charged(s) /\ token'[s] = token[s]
      BY <2>3 DEF AccountsInv
    <3>2. TokenOK(s)'
      BY <1>1, <3>1 DEF TokenOK, Live
    <3>3. s \notin mischarged' => s \notin mischarged /\ Uncounted(s)' = Uncounted(s)
      BY <1>1, <2>1, AccSettles
    <3> QED BY <1>1, <3>1, <3>2, <3>3 DEF Charged, Live
  <2>8. mischarged' \subseteq 1..issued
    <3>1. t \in 1..issued
      BY <1>1, <2>2, <2>4 DEF Tokens
    <3> QED BY <1>1, <2>1, <3>1 DEF AccountsTyped, CallOK
  <2>9. \A s \in Tokens : token'[s].expires = token[s].expires /\ (Live(s)' => Live(s))
    BY <2>2, <2>3 DEF Live
  <2> QED BY <1>1, <2>3, <2>5, <2>6, <2>7, <2>8, <2>9, AccCounted
<1> QED BY <1>2, <1>3

LEMMA AccCountFails ==
  ASSUME AccountsInv, NEW k \in Requests, CountFails(k)
  PROVE  AccountsInv'
<1>1. /\ AccountsTyped /\ req[k].pc = "count" /\ CallOK(k) /\ Done(k)
      /\ UNCHANGED <<user, issued, mailed, now, guesses, tested, raced, locks, token>>
      /\ mischarged' = mischarged \cup req[k].against
      /\ token \in [Tokens -> TokenDocs]
  BY DEF AccountsInv, AccountsTyped, CountFails, Is, tokens
<1>2. ASSUME NEW t \in Tokens PROVE TokenOK(t)' /\ Charged(t)'
  <2>1. TokenOK(t) /\ Charged(t)
    BY DEF AccountsInv
  <2>2. TokenOK(t)'
    BY <1>1, <2>1 DEF TokenOK, Live
  <2>3. t \notin mischarged' => t \notin mischarged /\ Uncounted(t)' = Uncounted(t)
    BY <1>1, AccSettles
  <2> QED BY <1>1, <2>1, <2>2, <2>3 DEF Charged, Live
<1>3. mischarged' \subseteq 1..issued /\ \A t \in Tokens : Live(t)' => Live(t)
  BY <1>1 DEF AccountsTyped, CallOK, Live
<1> QED BY <1>1, <1>2, <1>3, AccCounted

LEMMA AccIssue ==
  ASSUME AccountsInv, NEW k \in Requests, Issue(k)
  PROVE  AccountsInv'
<1>0. PICK n : n = issued + 1
  OBVIOUS
<1> DEFINE fresh == [state |-> "live", attempts |-> 0, expires |-> now + CodeLife]
<1>1. /\ AccountsTyped /\ req[k].pc = "issue" /\ CallOK(k) /\ req[k] \in AccountCalls
      /\ UNCHANGED <<user, mailed, now, guesses, tested, mischarged, locks>>
      /\ issued' = n /\ token' = [token EXCEPT ![n] = fresh]
      /\ req' = Carrying(k, "mail", n)
      /\ raced' = IF issued > req[k].since THEN raced \cup {n} ELSE raced
      /\ token \in [Tokens -> TokenDocs] /\ issued \in Nat /\ now \in Nat
  BY <1>0 DEF AccountsInv, AccountsTyped, Issue, Is, Carrying
<1>2. /\ fresh \in TokenDocs /\ fresh.state = "live" /\ fresh.attempts = 0
  <2>1. now + CodeLife \in Nat
    BY <1>1, <1>0, AccountsAssumption
  <2> QED BY <2>1 DEF TokenDocs
<1> HIDE DEF fresh
<1>3. /\ OneMoves(k) /\ req'[k].pc = "mail" /\ req'[k].code = n /\ req'[k].op = req[k].op
      /\ req'[k].against = req[k].against
  BY <1>1, <1>0, AccCarrying DEF CallPcs
<1>4. Cardinality(Issuers') = Cardinality(Issuers) - 1 /\ Cardinality(Issuers') \in Nat
  <2>1. k \in Issuers /\ Issuers' = Issuers \ {k}
    BY <1>1, <1>0, <1>3 DEF CallOK, OneMoves, Issuers
  <2>2. /\ Cardinality(Issuers \ {k}) = Cardinality(Issuers) - 1
        /\ IsFiniteSet(Issuers \ {k})
    BY <2>1, AccIssuersFinite, FS_RemoveElement
  <2>3. Cardinality(Issuers \ {k}) \in Nat
    BY <2>2, FS_CardinalityType
  <2> QED BY <2>1, <2>2, <2>3
<1>5. n \in Tokens /\ issued' + Cardinality(Issuers)' <= MaxTokens /\ issued \in Nat
  <2>1. MaxTokens \in Nat /\ Cardinality(Issuers) \in Nat /\ issued + Cardinality(Issuers) <= MaxTokens
    BY <1>1, <1>0, AccIssuersFinite, AccountsAssumption DEF AccountsTyped
  <2> QED BY <1>1, <1>0, <1>4, <2>1 DEF Tokens
<1>6. /\ token' \in [Tokens -> TokenDocs] /\ token'[n].state = "live" /\ token'[n].attempts = 0
      /\ \A t \in Tokens \ {n} : token'[t] = token[t]
  BY <1>1, <1>0, <1>2, <1>5
<1>7. AccountsTyped'
  <2>1. \A m \in 1..issued : m \in 1..issued'
    BY <1>1, <1>0
  <2>2. n \in 1..issued'
    BY <1>1, <1>0
  <2> QED BY <1>1, <1>0, <1>3, <1>5, <1>6, <2>1, <2>2 DEF AccountsTyped, OneMoves
<1>8. user.exists /\ user' = user
  BY <1>1, <1>0 DEF CallOK, CallPcs
<1>9. UserOK' /\ Onward
  <2>1. \A t \in 1..issued : t \in Tokens /\ t # n
    BY <1>1, <1>0, AccIssued
  <2>2. locks \in Nat /\ user \in UserDocs
    BY <1>1, <1>0 DEF AccountsTyped
  <2> QED BY <1>1, <1>0, <1>6, <1>8, <2>1, <2>2 DEF Onward, Live, UserOK, AccountsInv, UserDocs
<1>10. \A j \in Requests : CallOK(j)'
  <2>1. CallOK(k)'
    <3>1. n \in 1..issued' /\ 1..issued \subseteq 1..issued'
      BY <1>1, <1>0
    <3> QED BY <1>1, <1>0, <1>3, <1>8, <3>1 DEF CallOK
  <2> QED BY <1>3, <1>7, <1>9, <2>1, AccOthersOK DEF OneMoves
<1>11. \A t \in Tokens : Uncounted(t)' = Uncounted(t)
  <2> SUFFICES ASSUME NEW t \in Tokens PROVE Uncounted(t)' = Uncounted(t)
    OBVIOUS
  <2>1. Counters(t)' = Counters(t)
    BY <1>1, <1>0, <1>3 DEF OneMoves, Counters, Is
  <2> QED BY <2>1, AccUncountedKept
<1>12. ASSUME NEW t \in Tokens \ {n} PROVE TokenOK(t)' /\ Charged(t)'
  <2>1. TokenOK(t) /\ Charged(t) /\ token'[t] = token[t] /\ t \in Nat
    BY <1>6 DEF AccountsInv, Tokens
  <2>2. t > issued <=> t > issued'
    BY <1>1, <1>0, <2>1
  <2> QED BY <1>1, <1>0, <1>11, <2>1, <2>2 DEF TokenOK, Charged, Live
<1>13. TokenOK(n)' /\ Charged(n)'
  <2>1. TokenOK(n) /\ tested[n] = 0 /\ tested'[n] = 0
    BY <1>1, <1>0, <1>5 DEF AccountsInv, TokenOK
  <2>2. MaxAttempts \in Nat /\ MaxAttempts > 0 /\ ~(n > issued')
    BY <1>1, <1>0, AccountsAssumption
  <2>3. TokenOK(n)'
    BY <1>6, <2>1, <2>2 DEF TokenOK, Live
  <2>4. Uncounted(n) = 0
    <3>1. Counters(n) = {}
      <4>1. \A j \in Requests : n \notin req[j].against
        BY <1>1, <1>0 DEF AccountsInv, CallOK
      <4> QED BY <4>1 DEF Counters
    <3> QED BY <3>1, AccCountersFinite, FS_EmptySet
  <2>5. Uncounted(n)' = 0
    BY <1>5, <1>11, <2>4
  <2>6. tested'[n] >= token'[n].attempts /\ tested'[n] = token'[n].attempts + Uncounted(n)'
    BY <1>6, <2>1, <2>5
  <2>7. Charged(n)'
    BY <2>6 DEF Charged
  <2> QED BY <2>3, <2>7
<1>14. OneCodeUnlessRaced'
  <2> SUFFICES ASSUME NEW s \in Tokens, NEW t \in Tokens, Live(s)', Live(t)', s < t
               PROVE  t \in raced'
    BY DEF OneCodeUnlessRaced
  <2>1. s \in Nat /\ t \in Nat /\ (t # n => t <= issued)
    <3>1. t # n => token[t].state = "live"
      BY <1>6 DEF Live
    <3>2. t # n => ~(t > issued)
      BY <3>1 DEF AccountsInv, TokenOK
    <3> QED BY <1>1, <1>0, <3>2 DEF Tokens
  <2>2. s # n /\ Live(s)
    <3>1. CASE s = n
      <4>1. t # n /\ t > issued
        BY <1>1, <1>0, <2>1, <3>1
      <4> QED BY <1>1, <1>0, <2>1, <4>1
    <3> QED BY <1>6, <3>1 DEF Live
  <2>3. CASE t # n
    BY <1>1, <1>0, <1>6, <2>2, <2>3 DEF AccountsInv, OneCodeUnlessRaced, Live
  <2>4. CASE t = n
    <3>1. ~(s <= req[k].since) /\ s <= issued
      BY <1>1, <1>0, <2>1, <2>2, <2>4 DEF CallOK
    <3>2. req[k].since \in Nat
      BY <1>1, <1>0 DEF AccountCalls
    <3>3. issued > req[k].since
      BY <1>1, <1>0, <2>1, <3>1, <3>2
    <3> QED BY <1>1, <1>0, <2>4, <3>3
  <2> QED BY <2>3, <2>4
<1>15. \A t \in Tokens : TokenOK(t)' /\ Charged(t)'
  BY <1>12, <1>13
<1> QED BY <1>7, <1>9, <1>10, <1>14, <1>15 DEF AccountsInv

LEMMA AccDies ==
  ASSUME AccountsInv, Dies
  PROVE  AccountsInv'
<1> DEFINE counting == UNION {req[k].against : k \in {j \in Requests : Is(j, "count")}}
<1>1. /\ AccountsTyped /\ req' = [k \in Requests |-> NoRequest]
      /\ mischarged' = mischarged \cup counting
      /\ UNCHANGED <<user, token, issued, mailed, now, guesses, tested, raced, locks>>
  BY DEF AccountsInv, Dies, tokens
<1>2. \A k \in Requests : req'[k].pc = "idle" /\ req'[k].against = {}
  BY <1>1, AccNoCall
<1>3. counting \subseteq 1..issued /\ \A j \in Requests : Is(j, "count") => req[j].against \subseteq counting
  BY DEF AccountsInv, CallOK
<1> HIDE DEF counting
<1>4. Issuers' \subseteq Issuers
  BY <1>2 DEF Issuers
<1>5. AccountsTyped'
  BY <1>1, <1>3, <1>4, AccNoNewIssuer, AccNoCall DEF AccountsTyped
<1>6. UserOK' /\ \A k \in Requests : CallOK(k)'
  BY <1>1, <1>2, AccUserKept, AccAtRest
<1>7. ASSUME NEW t \in Tokens PROVE TokenOK(t)' /\ Charged(t)'
  <2>1. TokenOK(t) /\ Charged(t)
    BY DEF AccountsInv
  <2>2. TokenOK(t)'
    BY <1>1, <2>1 DEF TokenOK, Live
  <2>3. t \notin mischarged' => t \notin mischarged /\ Counters(t)' = Counters(t)
    BY <1>1, <1>2, <1>3 DEF Counters, Is
  <2>4. t \notin mischarged' => t \notin mischarged /\ Uncounted(t)' = Uncounted(t)
    BY <2>3, AccUncountedKept
  <2> QED BY <1>1, <2>1, <2>2, <2>4 DEF Charged, Live
<1>8. OneCodeUnlessRaced'
  BY <1>1 DEF AccountsInv, OneCodeUnlessRaced, Live
<1> QED BY <1>5, <1>6, <1>7, <1>8 DEF AccountsInv

\* The invariant is about nothing but these variables.
LEMMA AccStill ==
  ASSUME AccountsInv, UNCHANGED <<user, token, issued, mailed, req, guesses, past>>,
         now' \in Nat, now <= now'
  PROVE  AccountsInv'
<1>1. /\ AccountsTyped /\ UNCHANGED <<tested, mischarged, raced, locks>> /\ now \in Nat
      /\ user \in UserDocs /\ locks \in Nat
  BY DEF AccountsInv, AccountsTyped, past
<1>2. Issuers' \subseteq Issuers
  BY DEF Issuers
<1>3. AccountsTyped'
  BY <1>1, <1>2, AccNoNewIssuer DEF AccountsTyped
<1>4. UserOK'
  <2>1. user.lockedUntil \in Nat /\ user.lockedUntil <= now + LockTime /\ LockTime \in Nat
    BY <1>1, AccountsAssumption DEF AccountsInv, UserOK, UserDocs
  <2>2. user.lockedUntil <= now' + LockTime
    BY <1>1, <2>1
  <2> QED BY <1>1, <2>2 DEF AccountsInv, UserOK
<1>5. Withdrawn /\ \A t \in Tokens : Counters(t)' = Counters(t)
  BY AccWithdrawn DEF Counters, Is
<1>6. /\ \A t \in Tokens : TokenOK(t)' /\ Charged(t)'
      /\ OneCodeUnlessRaced'
  BY <1>1, <1>5, AccTokensKept
<1>7. Onward
  <2>1. issued \in Nat /\ user.lockedUntil <= user.lockedUntil
    BY <1>1 DEF AccountsTyped, UserDocs
  <2> QED BY <1>1, <2>1 DEF Onward, Live
<1>8. \A j \in Requests : CallOK(j)'
  BY <1>3, <1>7, AccOthersOK
<1> QED BY <1>3, <1>4, <1>6, <1>8 DEF AccountsInv

LEMMA AccountsStepOK == AccountsInv /\ [AccountsNext]_accounts => AccountsInv'
<1> SUFFICES ASSUME AccountsInv, [AccountsNext]_accounts PROVE AccountsInv'
  OBVIOUS
<1>1. ASSUME NEW k \in Requests,
             \/ Ask(k) \/ Lookup(k)
             \/ CreateUser(k) \/ Invalidate(k) \/ Issue(k) \/ Mail(k)
             \/ Consume(k) \/ Count(k) \/ CountFails(k) \/ Mark(k) \/ ClearCodes(k)
             \/ LoginLookup(k) \/ Fail(k) \/ ClearLock(k)
             \/ StepFails(k)
      PROVE  AccountsInv'
  BY <1>1, AccAsk, AccLookup, AccCreateUser, AccInvalidate, AccIssue, AccMail, AccConsume, AccCount,
     AccCountFails, AccMark, AccClearCodes, AccLoginLookup, AccFail, AccClearLock, AccStepFails
<1>2. ASSUME Dies PROVE AccountsInv'
  BY <1>2, AccDies
<1>3. ASSUME Tick PROVE AccountsInv'
  <2>1. now \in Nat /\ now' = now + 1
    BY <1>3 DEF Tick, AccountsInv, AccountsTyped
  <2> QED BY <1>3, <2>1, AccStill DEF Tick, tokens
<1>4. ASSUME UNCHANGED accounts PROVE AccountsInv'
  <2>1. now \in Nat /\ now' = now
    BY <1>4 DEF accounts, AccountsInv, AccountsTyped
  <2> QED BY <1>4, <2>1, AccStill DEF accounts, past
<1> QED BY <1>1, <1>2, <1>3, <1>4 DEF AccountsNext

LEMMA AccountsInvariant == AccountsSpec => []AccountsInv
BY AccountsInitially, AccountsStepOK, PTL DEF AccountsSpec

LEMMA AccountsTypes == AccountsInv => AccountsTypeOK
BY DEF AccountsInv, AccountsTyped, UserOK, TokenOK, AccountsTypeOK

LEMMA AccountsCounted == AccountsInv => GuessesCounted
<1> SUFFICES ASSUME AccountsInv, NEW t \in 1..issued, t \notin mischarged
             PROVE  /\ Live(t) => tested[t] - Uncounted(t) < MaxAttempts
                    /\ token[t].attempts >= MaxAttempts => tested[t] >= MaxAttempts
  BY DEF GuessesCounted
<1>1. t \in Tokens
  BY AccIssued DEF AccountsInv
<1>2. /\ TokenOK(t) /\ Charged(t) /\ tested[t] \in Nat /\ token[t] \in TokenDocs
      /\ Uncounted(t) \in Nat /\ MaxAttempts \in Nat
  BY <1>1, AccCountersFinite, AccountsAssumption DEF AccountsInv, AccountsTyped
<1> QED BY <1>2 DEF TokenOK, Charged, TokenDocs

\* However verifications overlap, a code that is live has withstood fewer wrong
\* guesses than MaxAttempts, but for those still to be counted, and one that its
\* count destroyed has withstood as many (verifyEmail counts by
\* registerFailedAttempt, after the code it compared; codes that were charged for
\* another's guesses, or whose count failed, are excepted).
THEOREM AccountsGuessesCounted == AccountsSpec => []GuessesCounted
BY AccountsInvariant, AccountsCounted, PTL

\* emailVerification.ts, "a user never holds two valid codes at once": of two
\* live codes the later one was issued by a call that had made sure that there
\* was none before the earlier one was issued (registration only assumes so).
THEOREM AccountsOneCodeUnlessRaced == AccountsSpec => []OneCodeUnlessRaced
<1>1. AccountsInv => OneCodeUnlessRaced
  BY DEF AccountsInv
<1> QED BY <1>1, AccountsInvariant, PTL

ByOverlap ==
  user.lockedUntil > now /\ user'.lockedUntil = 0
    => \E k \in Requests : Is(k, "clearLock") /\ req[k].locks < locks

LEMMA AccountsByOverlap ==
  ASSUME AccountsInv, [AccountsNext]_accounts
  PROVE  ByOverlap
<1> SUFFICES ASSUME user.lockedUntil > now, user'.lockedUntil = 0
             PROVE  \E k \in Requests : Is(k, "clearLock") /\ req[k].locks < locks
  BY DEF ByOverlap
<1>1. user \in UserDocs /\ now \in Nat /\ user.lockedUntil # 0 /\ user' # user
  BY DEF AccountsInv, AccountsTyped, UserDocs
<1>2. ASSUME NEW k \in Requests, ClearLock(k)
      PROVE  Is(k, "clearLock") /\ req[k].locks < locks
  <2>1. /\ Is(k, "clearLock") /\ CallOK(k) /\ req[k].locks \in Nat /\ locks \in Nat
        /\ user.lockedUntil \in Nat
    BY <1>1, <1>2 DEF ClearLock, AccountsInv, AccountsTyped, AccountCalls, UserDocs
  <2> QED BY <1>1, <2>1 DEF CallOK, Is
<1>3. ASSUME NEW k \in Requests, Fail(k) PROVE FALSE
  <2>1. now + LockTime # 0 /\ now + LockTime \in Nat
    BY <1>1, AccountsAssumption
  <2>2. user'.lockedUntil \in {now + LockTime, user.lockedUntil}
    <3>1. \A n \in Nat : [user EXCEPT !.failures = 0, !.lockedUntil = n].lockedUntil = n
      BY <1>1 DEF UserDocs
    <3>2. \A n \in Nat : [user EXCEPT !.failures = n].lockedUntil = user.lockedUntil
      BY <1>1 DEF UserDocs
    <3>3. user.failures + 1 \in Nat
      BY <1>1 DEF UserDocs
    <3> QED BY <1>3, <2>1, <3>1, <3>2, <3>3 DEF Fail
  <2> QED BY <1>1, <2>1, <2>2
<1>4. ASSUME NEW k \in Requests, Mark(k) PROVE FALSE
  <2>1. user'.lockedUntil = user.lockedUntil
    BY <1>1, <1>4 DEF Mark, UserDocs
  <2> QED BY <1>1, <2>1
<1>5. ASSUME NEW k \in Requests, CreateUser(k) PROVE FALSE
  <2>1. ~user.exists
    BY <1>1, <1>5 DEF CreateUser
  <2> QED BY <1>1, <2>1 DEF AccountsInv, UserOK
<1>6. \E k \in Requests : ClearLock(k) \/ Fail(k) \/ Mark(k) \/ CreateUser(k)
  BY <1>1 DEF AccountsNext, accounts, Ask, Lookup, Invalidate, Issue, Mail, Consume, Count, CountFails,
     ClearCodes, LoginLookup, StepFails, Dies, Tick
<1> QED BY <1>2, <1>3, <1>4, <1>5, <1>6

\* A lock of an account is lifted before its time only by a sign-in with the
\* right password that had read the account before the lock was set
\* (clearLoginFailures writes without a condition).
THEOREM AccountsLockLifted == AccountsSpec => LockLiftedOnlyByOverlap
<1>1. AccountsInv /\ [AccountsNext]_accounts => [ByOverlap]_accounts
  BY AccountsByOverlap
<1> QED BY <1>1, AccountsInvariant, PTL DEF AccountsSpec, LockLiftedOnlyByOverlap, ByOverlap

----------------------------------------------------------------------------
(* AuthTabs: every step keeps the invariant.                               *)

LEMMA TabsInitially == TabsInit => TabsInv
<1> SUFFICES ASSUME TabsInit PROVE TabsInv
  OBVIOUS
<1>1. PICK first \in AuthTabIds :
        secrets \in {<<>>, <<[of |-> 1, state |-> "current", by |-> first]>>}
  BY DEF TabsInit
<1>2. /\ secrets \in Seq(SecretDocs)
      /\ \A c \in 1..Len(secrets) : secrets[c].of \in 1..Len(secrets)
      /\ jar \in 0..Len(secrets)
      /\ jar # 0 => secrets[jar].state = "current"
  <2>1. CASE secrets = <<>>
    BY <2>1 DEF TabsInit
  <2>2. CASE secrets = <<[of |-> 1, state |-> "current", by |-> first]>>
    <3>1. [of |-> 1, state |-> "current", by |-> first] \in SecretDocs
      BY DEF SecretDocs, SecretStates
    <3> QED BY <2>2, <3>1 DEF TabsInit
  <2> QED BY <1>1, <2>1, <2>2
<1>3. TabsTyped
  BY <1>2 DEF TabsInit, TabsTyped, SignedOut, NoRenewal, NoFetch, NotLeaving, Fetches, Ages, Renewals,
       Departures, Callers, Waiting
<1>4. JarOK /\ \A t \in AuthTabIds : TabOK(t)
  BY <1>2 DEF TabsInit, JarOK, TabOK, Brought, Fair, Granted, Exchanged, NoRenewal, NotLeaving
<1> QED BY <1>3, <1>4 DEF TabsInv

\* What is known of a secret that was issued.
LEMMA SecretTypes ==
  ASSUME TabsTyped, NEW c \in Nat, c # 0, c <= Len(secrets)
  PROVE  /\ c \in 1..Len(secrets) /\ c \in DOMAIN secrets
         /\ secrets[c] \in SecretDocs /\ secrets[c].by \in AuthTabIds
         /\ secrets[c].of \in 1..Len(secrets)
<1>1. c \in 1..Len(secrets) /\ secrets \in Seq(SecretDocs)
  BY DEF TabsTyped
<1>2. secrets[c] \in SecretDocs /\ c \in DOMAIN secrets
  BY <1>1
<1> QED BY <1>1, <1>2 DEF TabsTyped, SecretDocs

LEMMA RenewalSent ==
  ASSUME NEW prompted
  PROVE  [NoRenewal EXCEPT !.pc = "sent", !.cookie = jar, !.prompted = prompted]
           = [pc |-> "sent", cookie |-> jar, answer |-> "none", brings |-> 0, prompted |-> prompted]
<1> DEFINE one == [NoRenewal EXCEPT !.pc = "sent"]
           two == [one EXCEPT !.cookie = jar]
           three == [two EXCEPT !.prompted = prompted]
<1>1. /\ NoRenewal \in Renewals /\ NoRenewal.answer = "none" /\ NoRenewal.brings = 0
  BY DEF NoRenewal, Renewals
<1>2. one = [pc |-> "sent", cookie |-> NoRenewal.cookie, answer |-> NoRenewal.answer,
             brings |-> NoRenewal.brings, prompted |-> NoRenewal.prompted]
  BY <1>1 DEF Renewals
<1> HIDE DEF one
<1>3. two = [pc |-> one.pc, cookie |-> jar, answer |-> one.answer,
             brings |-> one.brings, prompted |-> one.prompted]
  BY <1>2
<1> HIDE DEF two
<1>4. three = [pc |-> two.pc, cookie |-> two.cookie, answer |-> two.answer,
               brings |-> two.brings, prompted |-> prompted]
  BY <1>3
<1> HIDE DEF three
<1>5. three = [pc |-> "sent", cookie |-> jar, answer |-> "none", brings |-> 0, prompted |-> prompted]
  BY <1>1, <1>2, <1>3, <1>4
<1> QED BY <1>5 DEF one, two, three

\* A step that leaves refreshes, secrets and cookie alone.
LEMMA TabsQuiet ==
  ASSUME TabsInv, TabsTyped', UNCHANGED <<restoring, renewal, jar, secrets>>,
         \A u \in AuthTabIds :
           /\ access'[u].of = access[u].of \/ access'[u].of = 0
           /\ leaving'[u].pc # "none" => leaving'[u].why # "none"
           /\ leaving'[u].why = "refused" => leaving'[u].cookie = 0
  PROVE  TabsInv'
<1> USE DEF TabsInv
<1>1. JarOK'
  <2> SUFFICES ASSUME Exchanged(jar), NEW u \in AuthTabIds, u = secrets[jar].by
               PROVE (Granted(u) /\ renewal[u].cookie = jar) \/ access'[u].of # secrets[jar].of
    <3>1. ASSUME Exchanged(jar) PROVE secrets[jar].by \in AuthTabIds
      BY <3>1, SecretTypes DEF Exchanged, TabsTyped
    <3> QED BY <3>1 DEF JarOK, Exchanged, Granted
  <2>1. secrets[jar].of \in 1..Len(secrets)
    BY SecretTypes DEF Exchanged, TabsTyped
  <2> QED BY <2>1 DEF JarOK
<1>2. \A u \in AuthTabIds : TabOK(u)'
  <2> SUFFICES ASSUME NEW u \in AuthTabIds PROVE TabOK(u)'
    OBVIOUS
  <2>1. Brought(u)'
    BY DEF TabOK, Brought, Granted
  <2>2. Fair(u)'
    <3>1. renewal[u].cookie # 0 => secrets[renewal[u].cookie].of # 0
      BY SecretTypes DEF TabsTyped, Renewals
    <3> QED BY <3>1 DEF TabOK, Fair, Exchanged
  <2> QED BY <2>1, <2>2 DEF TabOK, State
<1> QED BY <1>1, <1>2

\* A refresh that is sent carries the cookie, which its own tab has not exchanged
\* for its session.
LEMMA TabsAsked ==
  ASSUME TabsInv, TabsTyped', NEW t \in AuthTabIds, NEW prompted \in BOOLEAN,
         renewal[t].pc = "none",
         renewal' = [renewal EXCEPT ![t] = [pc |-> "sent", cookie |-> jar, answer |-> "none",
                                            brings |-> 0, prompted |-> prompted]],
         prompted \/ restoring'[t],
         \A u \in AuthTabIds \ {t} : restoring'[u] = restoring[u],
         UNCHANGED <<access, leaving, jar, secrets>>
  PROVE  TabsInv'
<1> USE DEF TabsInv
<1>1. JarOK'
  <2>1. ASSUME Exchanged(jar) PROVE secrets[jar].by \in AuthTabIds
    BY <2>1, SecretTypes DEF Exchanged, TabsTyped
  <2> QED BY <2>1 DEF JarOK, Exchanged, Granted, TabsTyped
<1>2. \A u \in AuthTabIds : TabOK(u)'
  <2> SUFFICES ASSUME NEW u \in AuthTabIds PROVE TabOK(u)'
    OBVIOUS
  <2>1. Brought(u)'
    BY DEF TabOK, Brought, Granted, TabsTyped
  <2>2. Fair(u)'
    BY DEF TabOK, Fair, JarOK, Exchanged, Granted, TabsTyped
  <2> QED BY <2>1, <2>2 DEF TabOK, State, TabsTyped
<1> QED BY <1>1, <1>2

\* A step that ends sessions, and changes no secret otherwise.
LEMMA TabsEnding ==
  ASSUME TabsInv, TabsTyped', Len(secrets') = Len(secrets),
         \A c \in 1..Len(secrets) :
           /\ secrets'[c].of = secrets[c].of /\ secrets'[c].by = secrets[c].by
           /\ secrets'[c].state \in {secrets[c].state, "ended"},
         UNCHANGED <<access, restoring, renewal, jar>>,
         \A u \in AuthTabIds : /\ leaving'[u].why = leaving[u].why /\ leaving'[u].cookie = leaving[u].cookie
                               /\ leaving'[u].pc # "none" => leaving[u].pc # "none"
  PROVE  TabsInv'
<1> USE DEF TabsInv
<1>1. JarOK'
  <2>1. jar = 0 \/ jar \in 1..Len(secrets)
    BY DEF TabsTyped
  <2> QED BY <2>1 DEF JarOK, Exchanged, Granted
<1>2. \A u \in AuthTabIds : TabOK(u)'
  <2> SUFFICES ASSUME NEW u \in AuthTabIds PROVE TabOK(u)'
    OBVIOUS
  <2>1. /\ renewal[u].cookie = 0 \/ renewal[u].cookie \in 1..Len(secrets)
        /\ renewal[u].brings = 0 \/ renewal[u].brings \in 1..Len(secrets)
    BY DEF TabsTyped, Renewals
  <2>2. Brought(u)'
    BY <2>1 DEF TabOK, Brought, Granted
  <2>3. Fair(u)'
    BY <2>1 DEF TabOK, Fair, Exchanged
  <2> QED BY <2>1, <2>2, <2>3 DEF TabOK, State
<1> QED BY <1>1, <1>2

LEMMA TabsCall ==
  ASSUME TabsInv, NEW t \in AuthTabIds, NEW f \in Callers, Call(t, f)
  PROVE  TabsInv'
<1>1. TabsTyped'
  BY DEF TabsInv, TabsTyped, Call, Waiting, Fetches, Ages, Callers
<1> QED BY <1>1, TabsQuiet DEF TabsInv, TabOK, Call

LEMMA TabsReceived ==
  ASSUME TabsInv, NEW t \in AuthTabIds, NEW f \in Callers, Received(t, f)
  PROVE  TabsInv'
<1>1. TabsTyped'
  BY DEF TabsInv, TabsTyped, Received, Waiting, Fetches, Ages, Callers, NoFetch
<1> QED BY <1>1, TabsQuiet DEF TabsInv, TabOK, Received

LEMMA TabsReplayed ==
  ASSUME TabsInv, NEW t \in AuthTabIds, NEW f \in Callers, Replayed(t, f)
  PROVE  TabsInv'
<1>1. fetch' \in [AuthTabIds -> [Callers -> Fetches]]
      /\ \A u \in AuthTabIds : renewal[u].pc = "none" => \A g \in Callers : fetch'[u][g].pc # "waiting"
  BY DEF TabsInv, TabsTyped, Replayed, Waiting, Fetches, Ages, Callers, NoFetch
<1>2. CASE UNCHANGED <<leaving, access>>
  <2>1. TabsTyped'
    BY <1>1, <1>2 DEF TabsInv, TabsTyped, Replayed, Waiting
  <2> QED BY <1>2, <2>1, TabsQuiet DEF TabsInv, TabOK, Replayed
<1>3. CASE Leave(t, jar, "expired") /\ access' = [access EXCEPT ![t] = SignedOut]
  <2>1. TabsTyped'
    BY <1>1, <1>3 DEF TabsInv, TabsTyped, Replayed, Waiting, Leave, SignedOut, Fetches, Ages, Departures
  <2> QED BY <1>3, <2>1, TabsQuiet DEF TabsInv, TabsTyped, TabOK, Replayed, Leave, SignedOut
<1> QED BY <1>2, <1>3 DEF Replayed

LEMMA TabsSignOut ==
  ASSUME TabsInv, NEW t \in AuthTabIds, SignOut(t)
  PROVE  TabsInv'
<1>1. TabsTyped'
  BY DEF TabsInv, TabsTyped, SignOut, Waiting, Leave, SignedOut, Fetches, Ages, Departures
<1> QED BY <1>1, TabsQuiet DEF TabsInv, TabsTyped, TabOK, SignOut, Leave, SignedOut

LEMMA TabsEnter ==
  ASSUME TabsInv, NEW t \in AuthTabIds, Enter(t)
  PROVE  TabsInv'
<1>1. TabsTyped'
  BY DEF TabsInv, TabsTyped, Enter, Waiting
<1> QED BY <1>1, TabsQuiet DEF TabsInv, TabOK, Enter

LEMMA TabsRunOut ==
  ASSUME TabsInv, RunOut
  PROVE  TabsInv'
<1>1. access' \in [AuthTabIds -> [of : Nat, age : Ages]]
      /\ \A u \in AuthTabIds : access'[u].of = access[u].of
  BY DEF TabsInv, TabsTyped, RunOut, Fetches, Ages
<1>2. fetch' \in [AuthTabIds -> [Callers -> Fetches]]
      /\ \A u \in AuthTabIds, g \in Callers : fetch'[u][g].pc = fetch[u][g].pc
  <2>1. \A u \in AuthTabIds, g \in Callers :
          fetch[u][g] \in Fetches
    BY DEF TabsInv, TabsTyped
  <2>2. \A u \in AuthTabIds, g \in Callers :
          /\ [fetch[u][g] EXCEPT !.bearer = "stale"]
               \in Fetches
          /\ [fetch[u][g] EXCEPT !.bearer = "stale"].pc = fetch[u][g].pc
    BY <2>1 DEF Fetches, Ages
  <2> QED BY <2>1, <2>2 DEF RunOut
<1>3. TabsTyped'
  BY <1>1, <1>2 DEF TabsInv, TabsTyped, RunOut, Waiting
<1> QED BY <1>1, <1>3, TabsQuiet DEF TabsInv, TabOK, RunOut

LEMMA TabsMount ==
  ASSUME TabsInv, NEW t \in AuthTabIds, Mount(t)
  PROVE  TabsInv'
<1>1. renewal' = [renewal EXCEPT ![t] =
         [pc |-> "sent", cookie |-> jar, answer |-> "none", brings |-> 0, prompted |-> FALSE]]
  BY RenewalSent DEF Mount, Coalesced
<1>2. TabsTyped'
  BY <1>1 DEF TabsInv, TabsTyped, Mount, Waiting, Renewals
<1>3. /\ renewal[t].pc = "none" /\ restoring'[t]
      /\ \A u \in AuthTabIds \ {t} : restoring'[u] = restoring[u]
      /\ UNCHANGED <<access, leaving, jar, secrets>>
  BY DEF Mount, TabsInv, TabsTyped
<1> QED BY <1>1, <1>2, <1>3, TabsAsked

LEMMA TabsUnauthorized ==
  ASSUME TabsInv, NEW t \in AuthTabIds, NEW f \in Callers, Unauthorized(t, f)
  PROVE  TabsInv'
<1> USE DEF TabsInv
<1>1. fetch' = [fetch EXCEPT ![t][f] = NoFetch] \/ fetch' = [fetch EXCEPT ![t][f].pc = "waiting"]
  BY DEF Unauthorized
<1>2. fetch' \in [AuthTabIds -> [Callers -> Fetches]]
      /\ \A u \in AuthTabIds \ {t} : fetch'[u] = fetch[u]
  <2>1. NoFetch \in Fetches /\ [fetch[t][f] EXCEPT !.pc = "waiting"] \in Fetches
    <3>1. fetch[t] \in [Callers -> Fetches]
      BY DEF TabsTyped
    <3>2. fetch[t][f] \in Fetches
      BY <3>1
    <3> QED BY <3>2 DEF Fetches, Ages, NoFetch
  <2>2. fetch \in [AuthTabIds -> [Callers -> Fetches]]
    BY DEF TabsTyped
  <2>3. CASE fetch' = [fetch EXCEPT ![t][f] = NoFetch]
    BY <2>1, <2>2, <2>3
  <2>4. CASE fetch' = [fetch EXCEPT ![t][f].pc = "waiting"]
    BY <2>1, <2>2, <2>4
  <2> QED BY <1>1, <2>3, <2>4
<1>3. CASE fetch[t][f].bearer = "none"
  <2>1. renewal' = renewal /\ fetch' = [fetch EXCEPT ![t][f] = NoFetch]
    BY <1>3 DEF Unauthorized
  <2>2. TabsTyped'
    BY <1>2, <2>1 DEF TabsTyped, Unauthorized, Waiting, NoFetch
  <2> QED BY <2>1, <2>2, TabsQuiet DEF TabOK, Unauthorized
<1>4. CASE fetch[t][f].bearer # "none" /\ renewal[t].pc # "none"
  <2>1. renewal' = renewal
    BY <1>4 DEF Unauthorized, Coalesced
  <2>2. TabsTyped'
    BY <1>2, <1>4, <2>1 DEF TabsTyped, Unauthorized, Waiting
  <2> QED BY <2>1, <2>2, TabsQuiet DEF TabOK, Unauthorized
<1>5. CASE fetch[t][f].bearer # "none" /\ renewal[t].pc = "none"
  <2>1. renewal' = [renewal EXCEPT ![t] =
           [pc |-> "sent", cookie |-> jar, answer |-> "none", brings |-> 0, prompted |-> TRUE]]
    BY <1>5, RenewalSent DEF Unauthorized, Coalesced
  <2>2. TabsTyped'
    BY <1>2, <2>1 DEF TabsTyped, Unauthorized, Waiting, Renewals
  <2> QED BY <1>5, <2>1, <2>2, TabsAsked DEF Unauthorized
<1> QED BY <1>3, <1>4, <1>5

LEMMA TabsServeLeave ==
  ASSUME TabsInv, NEW t \in AuthTabIds, ServeLeave(t)
  PROVE  TabsInv'
<1> USE DEF TabsInv
<1>1. TabsTyped' /\ Len(secrets') = Len(secrets)
  <2>1. \A c \in DOMAIN secrets :
          /\ [secrets[c] EXCEPT !.state = "ended"] \in SecretDocs
          /\ [secrets[c] EXCEPT !.state = "ended"].of = secrets[c].of
    <3> SUFFICES ASSUME NEW c \in DOMAIN secrets
                 PROVE /\ [secrets[c] EXCEPT !.state = "ended"] \in SecretDocs
                       /\ [secrets[c] EXCEPT !.state = "ended"].of = secrets[c].of
      OBVIOUS
    <3>1. c \in Nat /\ c # 0 /\ c <= Len(secrets)
      BY DEF TabsTyped
    <3> QED BY <3>1, SecretTypes DEF SecretDocs, SecretStates
  <2>2. /\ secrets' \in Seq(SecretDocs)
        /\ Len(secrets') = Len(secrets)
        /\ \A c \in DOMAIN secrets : secrets'[c].of = secrets[c].of
    <3>1. secrets \in Seq(SecretDocs)
      BY DEF TabsTyped
    <3>2. CASE UNCHANGED secrets
      BY <3>1, <3>2
    <3>3. CASE secrets' = [c \in DOMAIN secrets |->
                 IF secrets[c].of = secrets[leaving[t].cookie].of
                 THEN [secrets[c] EXCEPT !.state = "ended"] ELSE secrets[c]]
      BY <2>1, <3>1, <3>3
    <3> QED BY <3>2, <3>3 DEF ServeLeave
  <2>3. leaving' \in [AuthTabIds -> Departures]
        /\ \A u \in AuthTabIds : leaving'[u].cookie = leaving[u].cookie
    BY DEF ServeLeave, TabsTyped, Departures
  <2>4. \A c \in 1..Len(secrets') : secrets'[c].of \in 1..Len(secrets')
    <3>1. DOMAIN secrets = 1..Len(secrets)
      BY DEF TabsTyped
    <3> QED BY <2>2, <3>1 DEF TabsTyped
  <2> QED BY <2>2, <2>3, <2>4 DEF ServeLeave, TabsTyped, Waiting
<1>2. \A c \in 1..Len(secrets) :
        /\ secrets'[c].of = secrets[c].of /\ secrets'[c].by = secrets[c].by
        /\ secrets'[c].state \in {secrets[c].state, "ended"}
  <2>1. secrets[leaving[t].cookie].of = secrets[leaving[t].cookie].of
    OBVIOUS
  <2> QED BY SecretTypes DEF ServeLeave, TabsTyped, SecretDocs, SecretStates
<1>3. UNCHANGED <<access, restoring, renewal, jar>>
      /\ \A u \in AuthTabIds : /\ leaving'[u].why = leaving[u].why /\ leaving'[u].cookie = leaving[u].cookie
                               /\ leaving'[u].pc # "none" => leaving[u].pc # "none"
  BY DEF ServeLeave, TabsTyped
<1> QED BY <1>1, <1>2, <1>3, TabsEnding

LEMMA TabsLeaveSettled ==
  ASSUME TabsInv, NEW t \in AuthTabIds, LeaveSettled(t)
  PROVE  TabsInv'
<1> USE DEF TabsInv
<1>1. TabsTyped'
  BY DEF TabsTyped, LeaveSettled, NotLeaving, Departures, Waiting
<1>2. JarOK' /\ \A u \in AuthTabIds : Brought(u)' /\ Fair(u)'
  BY DEF LeaveSettled, JarOK, TabOK, Brought, Fair, Exchanged, Granted
<1> QED BY <1>1, <1>2 DEF TabOK, LeaveSettled, NotLeaving, State, TabsTyped

LEMMA TabsEntered ==
  ASSUME TabsInv, NEW t \in AuthTabIds, Entered(t)
  PROVE  TabsInv'
<1> USE DEF TabsInv
<1> DEFINE n == Len(secrets) + 1
<1>1. /\ secrets' = Append(secrets, [of |-> n, state |-> "current", by |-> t]) /\ jar' = n
      /\ [of |-> n, state |-> "current", by |-> t] \in SecretDocs
  BY DEF Entered, TabsTyped, SecretDocs, SecretStates
<1>2. /\ secrets' \in Seq(SecretDocs) /\ Len(secrets') = n
      /\ \A c \in 1..Len(secrets) : secrets'[c] = secrets[c]
      /\ secrets'[n] = [of |-> n, state |-> "current", by |-> t]
  BY <1>1 DEF TabsTyped
<1>3. TabsTyped'
  <2>1. \A c \in 1..Len(secrets') : secrets'[c].of \in 1..Len(secrets')
    <3> SUFFICES ASSUME NEW c \in 1..n PROVE secrets'[c].of \in 1..n
      BY <1>2
    <3>1. CASE c = n
      BY <1>2, <3>1
    <3>2. CASE c # n
      BY <1>2, <3>2, SecretTypes
    <3> QED BY <3>1, <3>2
  <2>2. access' \in [AuthTabIds -> [of : Nat, age : Ages]] /\ \A u \in AuthTabIds : access'[u].of <= n
    BY <1>1 DEF TabsTyped, Entered, Ages
  <2>3. UNCHANGED <<restoring, renewal, fetch, leaving>>
        /\ entering' \in [AuthTabIds -> {"closed", "no", "yes"}]
    BY DEF TabsTyped, Entered
  <2> QED BY <1>1, <1>2, <2>1, <2>2, <2>3 DEF TabsTyped, Renewals, Departures, Waiting
<1>4. JarOK'
  BY <1>1, <1>2 DEF JarOK, Exchanged
<1>5. \A u \in AuthTabIds : TabOK(u)'
  <2> SUFFICES ASSUME NEW u \in AuthTabIds PROVE TabOK(u)'
    OBVIOUS
  <2>1. \A c \in 1..Len(secrets) : c # n
    OBVIOUS
  <2>2. /\ renewal[u].cookie \in 0..Len(secrets) /\ renewal[u].brings \in 0..Len(secrets)
        /\ \A c \in 1..Len(secrets) : secrets[c].of # n
    BY DEF TabsTyped, Renewals
  <2>3. Brought(u)'
    BY <1>1, <1>2, <2>2 DEF TabOK, Brought, Granted, Entered
  <2>4. Fair(u)'
    <3> DEFINE c == renewal[u].cookie
    <3> SUFFICES ASSUME renewal[u].pc = "sent" \/ (renewal[u].pc = "served" /\ renewal[u].answer = "overtaken"),
                        c # 0, secrets[c].state \in {"previous", "old"}, secrets[c].by = u
                 PROVE  access'[u].of # secrets[c].of
      BY <1>1, <1>2, <2>2 DEF Fair, Exchanged, Entered
    <3>1. access[u].of # secrets[c].of /\ secrets[c].of # n
      BY <2>2 DEF TabOK, Fair, Exchanged
    <3>2. access'[u].of = access[u].of \/ access'[u].of = n
      BY DEF Entered, TabsTyped
    <3> QED BY <3>1, <3>2
  <2> QED BY <1>1, <1>2, <2>2, <2>3, <2>4 DEF TabOK, State, Entered
<1> QED BY <1>3, <1>4, <1>5

\* What a tab becomes when its refresh has been served.
Served(t, a) == [renewal EXCEPT ![t].pc = "served", ![t].answer = a]

LEMMA RenewalServed ==
  ASSUME renewal \in [AuthTabIds -> Renewals], NEW t \in AuthTabIds,
         NEW a \in {"granted", "overtaken", "refused"}
  PROVE  /\ Served(t, a) \in [AuthTabIds -> Renewals]
         /\ Served(t, a)[t].pc = "served" /\ Served(t, a)[t].answer = a
         /\ Served(t, a)[t].cookie = renewal[t].cookie
         /\ Served(t, a)[t].brings = renewal[t].brings
         /\ Served(t, a)[t].prompted = renewal[t].prompted
         /\ \A u \in AuthTabIds \ {t} : Served(t, a)[u] = renewal[u]
<1> DEFINE q == [renewal EXCEPT ![t].pc = "served"]
<1>1. /\ q \in [AuthTabIds -> Renewals]
      /\ q[t].pc = "served" /\ q[t].cookie = renewal[t].cookie
      /\ q[t].brings = renewal[t].brings /\ q[t].prompted = renewal[t].prompted
      /\ \A u \in AuthTabIds \ {t} : q[u] = renewal[u]
  BY DEF Renewals
<1>2. Served(t, a) = [q EXCEPT ![t].answer = a]
  BY DEF Served
<1> HIDE DEF q
<1> QED BY <1>1, <1>2 DEF Renewals

\* A refresh that loses, with or without ending the sessions of the user.
LEMMA TabsOvertaken ==
  ASSUME TabsInv, NEW t \in AuthTabIds, NEW a \in {"overtaken", "refused"},
         renewal[t].pc = "sent",
         renewal' = Served(t, a),
         UNCHANGED <<access, restoring, fetch, leaving, entering, jar>>,
         secrets' \in Seq(SecretDocs), Len(secrets') = Len(secrets),
         \A c \in 1..Len(secrets) :
           /\ secrets'[c].of = secrets[c].of /\ secrets'[c].by = secrets[c].by
           /\ secrets'[c].state \in {secrets[c].state, "ended"},
         LET c == renewal[t].cookie
         IN  /\ a = "overtaken" => c # 0 /\ secrets'[c].state \in {"previous", "old", "ended"}
             /\ a = "refused" => c = 0 \/ secrets'[c].state = "ended"
  PROVE  TabsInv'
<1> USE DEF TabsInv
<1>1. /\ renewal' \in [AuthTabIds -> Renewals]
      /\ renewal'[t].pc = "served" /\ renewal'[t].answer = a
      /\ \A u \in AuthTabIds :
           /\ renewal'[u].cookie = renewal[u].cookie
           /\ renewal'[u].brings = renewal[u].brings /\ renewal'[u].prompted = renewal[u].prompted
           /\ u # t => renewal'[u] = renewal[u]
  <2>1. renewal \in [AuthTabIds -> Renewals]
    BY DEF TabsTyped
  <2> QED BY <2>1, RenewalServed
<1>2. TabsTyped'
  <2>1. \A c \in 1..Len(secrets') : secrets'[c].of \in 1..Len(secrets')
    BY DEF TabsTyped
  <2>2. /\ renewal'[t].pc # "none"
        /\ \A u \in AuthTabIds : renewal'[u].pc = "none" => renewal[u].pc = "none"
    BY <1>1
  <2>3. \A u \in AuthTabIds :
          renewal'[u].cookie <= Len(secrets') /\ renewal'[u].brings <= Len(secrets')
    BY <1>1 DEF TabsTyped
  <2> QED BY <1>1, <2>1, <2>2, <2>3 DEF TabsTyped, Waiting
<1>3. JarOK'
  <2>1. jar = 0 \/ jar \in 1..Len(secrets)
    BY DEF TabsTyped
  <2>2. jar # 0 => secrets[jar].by \in AuthTabIds
    BY <2>1, SecretTypes DEF TabsTyped
  <2>3. \A u \in AuthTabIds : Granted(u) => Granted(u)'
    BY <1>1 DEF Granted
  <2> QED BY <1>1, <2>1, <2>2, <2>3 DEF JarOK, Exchanged
<1>4. \A u \in AuthTabIds : TabOK(u)'
  <2> SUFFICES ASSUME NEW u \in AuthTabIds PROVE TabOK(u)'
    OBVIOUS
  <2>1. /\ renewal[u].cookie = 0 \/ renewal[u].cookie \in 1..Len(secrets)
        /\ renewal[u].brings = 0 \/ renewal[u].brings \in 1..Len(secrets)
    BY DEF TabsTyped, Renewals
  <2>2. Granted(u)' => Granted(u) /\ u # t
    BY <1>1 DEF Granted
  <2>3. Brought(u)'
    BY <1>1, <2>1, <2>2 DEF TabOK, Brought, Granted
  <2>4. Fair(u)'
    BY <1>1, <2>1 DEF TabOK, Fair, Exchanged
  <2> QED BY <1>1, <2>1, <2>3, <2>4 DEF TabOK, State
<1> QED BY <1>2, <1>3, <1>4

\* The secrets once the current one, c, has been exchanged.
Marked(t, c) ==
  [d \in DOMAIN secrets |->
     CASE d = c -> [secrets[d] EXCEPT !.state = "previous", !.by = t]
       [] d # c /\ secrets[d].of = secrets[c].of /\ secrets[d].state = "previous"
            -> [secrets[d] EXCEPT !.state = "old"]
       [] OTHER -> secrets[d]]

Successor(t, c) == Append(Marked(t, c), [secrets[c] EXCEPT !.by = t])

LEMMA Exchanging ==
  ASSUME secrets \in Seq(SecretDocs), NEW t \in AuthTabIds, NEW c \in 1..Len(secrets),
         secrets[c].state = "current", NEW n, n = Len(secrets) + 1,
         NEW s, s = Successor(t, c)
  PROVE  /\ s \in Seq(SecretDocs) /\ Len(s) = n
         /\ s[n].of = secrets[c].of /\ s[n].state = "current"
         /\ s[c].of = secrets[c].of /\ s[c].state = "previous" /\ s[c].by = t
         /\ \A d \in 1..Len(secrets) \ {c} :
              /\ s[d].of = secrets[d].of /\ s[d].by = secrets[d].by
              /\ \/ s[d].state = secrets[d].state
                 \/ s[d].state = "old" /\ secrets[d].state = "previous"
<1> DEFINE x == Marked(t, c)
           y == [secrets[c] EXCEPT !.by = t]
<1>1. DOMAIN secrets = 1..Len(secrets) /\ Len(secrets) \in Nat
  OBVIOUS
<1>2. \A d \in 1..Len(secrets) : secrets[d] \in SecretDocs
  OBVIOUS
<1>3. y \in SecretDocs /\ y.of = secrets[c].of /\ y.state = "current"
  BY <1>2 DEF SecretDocs, SecretStates
<1>4. \A d \in 1..Len(secrets) \ {c} :
        /\ x[d] \in SecretDocs /\ x[d].of = secrets[d].of /\ x[d].by = secrets[d].by
        /\ \/ x[d].state = secrets[d].state
           \/ x[d].state = "old" /\ secrets[d].state = "previous"
  <2> SUFFICES ASSUME NEW d \in 1..Len(secrets) \ {c}
               PROVE /\ x[d] \in SecretDocs /\ x[d].of = secrets[d].of /\ x[d].by = secrets[d].by
                     /\ \/ x[d].state = secrets[d].state
                        \/ x[d].state = "old" /\ secrets[d].state = "previous"
    OBVIOUS
  <2>1. CASE secrets[d].of = secrets[c].of /\ secrets[d].state = "previous"
    <3>1. x[d] = [secrets[d] EXCEPT !.state = "old"]
      BY <1>1, <2>1 DEF Marked
    <3> QED BY <1>2, <2>1, <3>1 DEF SecretDocs, SecretStates
  <2>2. CASE ~(secrets[d].of = secrets[c].of /\ secrets[d].state = "previous")
    <3>1. x[d] = secrets[d]
      BY <1>1, <2>2 DEF Marked
    <3> QED BY <1>2, <3>1
  <2> QED BY <2>1, <2>2
<1>5. x[c] \in SecretDocs /\ x[c].of = secrets[c].of /\ x[c].state = "previous" /\ x[c].by = t
  <2> DEFINE z == [secrets[c] EXCEPT !.state = "previous"]
  <2>1. z \in SecretDocs /\ z.of = secrets[c].of /\ z.state = "previous"
    BY <1>2 DEF SecretDocs, SecretStates
  <2>2. x[c] = [z EXCEPT !.by = t]
    BY <1>1 DEF Marked
  <2> HIDE DEF z
  <2> QED BY <2>1, <2>2 DEF SecretDocs
<1>6. x \in Seq(SecretDocs) /\ Len(x) = Len(secrets)
  <2>1. x \in [1..Len(secrets) -> SecretDocs]
    BY <1>1, <1>4, <1>5 DEF Marked
  <2> HIDE DEF x
  <2> QED BY <1>1, <2>1
<1>7. s = Append(x, y)
  BY DEF Successor
<1> HIDE DEF x, y
<1>8. /\ s \in Seq(SecretDocs) /\ Len(s) = n /\ s[n] = y
      /\ \A d \in 1..Len(secrets) : s[d] = x[d]
  BY <1>1, <1>3, <1>6, <1>7
<1> QED BY <1>2, <1>3, <1>4, <1>5, <1>8

LEMMA TabsExchanged ==
  ASSUME TabsInv, NEW t \in AuthTabIds, renewal[t].pc = "sent",
         UNCHANGED <<access, restoring, fetch, leaving, entering, jar>>,
         NEW c, c = renewal[t].cookie, State(c) = "current",
         NEW n, n = Len(secrets) + 1,
         secrets' = Successor(t, c),
         renewal' = [Served(t, "granted") EXCEPT ![t].brings = n]
  PROVE  TabsInv'
<1> USE DEF TabsInv
<1>1. /\ renewal' \in [AuthTabIds -> Renewals]
      /\ renewal'[t].pc = "served" /\ renewal'[t].answer = "granted"
      /\ renewal'[t].brings = n /\ renewal'[t].cookie = c /\ renewal'[t].prompted = renewal[t].prompted
      /\ \A u \in AuthTabIds \ {t} : renewal'[u] = renewal[u]
  <2> DEFINE r == Served(t, "granted")
  <2>1. renewal \in [AuthTabIds -> Renewals] /\ n \in Nat
    BY DEF TabsTyped
  <2>2. /\ r \in [AuthTabIds -> Renewals]
        /\ r[t].pc = "served" /\ r[t].answer = "granted" /\ r[t].cookie = renewal[t].cookie
        /\ r[t].prompted = renewal[t].prompted
        /\ \A u \in AuthTabIds \ {t} : r[u] = renewal[u]
    BY <2>1, RenewalServed
  <2> HIDE DEF r
  <2>3. renewal' = [r EXCEPT ![t].brings = n]
    BY DEF r
  <2>4. r[t] \in Renewals /\ renewal' \in [AuthTabIds -> Renewals]
    <3>1. r[t] \in Renewals
      BY <2>2
    <3>2. [r[t] EXCEPT !.brings = n] \in Renewals
      BY <2>1, <3>1 DEF Renewals
    <3> QED BY <2>2, <2>3, <3>1, <3>2
  <2>5. renewal'[t] = [r[t] EXCEPT !.brings = n] /\ \A u \in AuthTabIds \ {t} : renewal'[u] = r[u]
    BY <2>2, <2>3
  <2>6. /\ renewal'[t].pc = r[t].pc /\ renewal'[t].answer = r[t].answer /\ renewal'[t].brings = n
        /\ renewal'[t].cookie = r[t].cookie /\ renewal'[t].prompted = r[t].prompted
    BY <2>4, <2>5 DEF Renewals
  <2> QED BY <2>2, <2>4, <2>5, <2>6
<1>2. c \in 1..Len(secrets) /\ secrets[c].state = "current" /\ n \in Nat
  BY DEF TabsTyped, Renewals, State
<1>3. /\ secrets' \in Seq(SecretDocs) /\ Len(secrets') = n
      /\ secrets'[n].of = secrets[c].of /\ secrets'[n].state = "current"
      /\ secrets'[c].of = secrets[c].of /\ secrets'[c].state = "previous" /\ secrets'[c].by = t
      /\ \A d \in 1..Len(secrets) \ {c} :
           /\ secrets'[d].of = secrets[d].of /\ secrets'[d].by = secrets[d].by
           /\ \/ secrets'[d].state = secrets[d].state
              \/ secrets'[d].state = "old" /\ secrets[d].state = "previous"
  <2>1. secrets \in Seq(SecretDocs)
    BY DEF TabsTyped
  <2> QED BY <1>2, <2>1, Exchanging
<1>4. TabsTyped'
  <2>1. \A d \in 1..Len(secrets') : secrets'[d].of \in 1..Len(secrets')
    <3> SUFFICES ASSUME NEW d \in 1..n PROVE secrets'[d].of \in 1..n
      BY <1>3
    <3>1. secrets[c].of \in 1..n /\ \A e \in 1..Len(secrets) : secrets[e].of \in 1..n
      BY <1>2 DEF TabsTyped
    <3>2. d = n \/ d = c \/ d \in 1..Len(secrets) \ {c}
      BY <1>2 DEF TabsTyped
    <3> QED BY <1>3, <3>1, <3>2
  <2>2. /\ Len(secrets) \in Nat /\ n = Len(secrets) + 1 /\ Len(secrets') = n
        /\ jar \in 0..n
    BY <1>2, <1>3 DEF TabsTyped
  <2>3. \A u \in AuthTabIds :
          /\ renewal'[u].cookie <= n /\ renewal'[u].brings <= n
          /\ access[u].of <= n /\ leaving[u].cookie <= n
    BY <1>1, <1>2, <2>2 DEF TabsTyped, Renewals, Departures
  <2>4. \A u \in AuthTabIds : renewal'[u].pc = "none" => \A f \in Callers : ~Waiting(u, f)'
    BY <1>1 DEF TabsTyped, Waiting
  <2> QED BY <1>1, <1>3, <2>1, <2>2, <2>3, <2>4 DEF TabsTyped
<1>5. JarOK'
  <2>1. jar = 0 \/ jar \in 1..Len(secrets)
    BY DEF TabsTyped
  <2>2. CASE jar = c
    BY <1>1, <1>3, <2>2 DEF JarOK, Granted
  <2>3. CASE jar # c
    <3> SUFFICES ASSUME Exchanged(jar)', NEW u, u = secrets'[jar].by
                 PROVE (Granted(u)' /\ renewal'[u].cookie = jar) \/ access[u].of # secrets'[jar].of
      BY DEF JarOK
    <3>1. Exchanged(jar) /\ u = secrets[jar].by /\ secrets'[jar].of = secrets[jar].of
      BY <1>3, <2>1, <2>3 DEF Exchanged
    <3>2. u \in AuthTabIds
      BY <2>1, <3>1, SecretTypes DEF TabsTyped, Exchanged
    <3> QED BY <1>1, <2>3, <3>1, <3>2 DEF JarOK, Granted
  <2> QED BY <2>2, <2>3
<1>6. \A u \in AuthTabIds : TabOK(u)'
  <2> SUFFICES ASSUME NEW u \in AuthTabIds PROVE TabOK(u)'
    OBVIOUS
  <2>1. \A v \in AuthTabIds : /\ renewal[v].cookie = 0 \/ renewal[v].cookie \in 1..Len(secrets)
                              /\ renewal[v].brings = 0 \/ renewal[v].brings \in 1..Len(secrets)
                              /\ renewal'[v].cookie = renewal[v].cookie
    BY <1>1 DEF TabsTyped, Renewals
  <2>2. \A d \in 1..Len(secrets) : d # n
    BY <1>2
  <2>3. n # jar /\ n # 0
    BY DEF TabsTyped
  <2>4. Brought(u)'
    <3>1. CASE u = t
      BY <1>1, <1>3, <2>1, <2>2, <2>3, <3>1 DEF Brought, Granted
    <3>2. CASE u # t
      <4> SUFFICES ASSUME Granted(u) PROVE Brought(u)'
        BY <1>1, <3>2 DEF Brought, Granted
      <4> DEFINE b == renewal[u].brings
      <4>1. /\ b # 0 /\ secrets[b].state \in {"current", "ended"} /\ b # jar
            /\ \A v \in AuthTabIds : renewal[v].cookie # b
            /\ \A v \in AuthTabIds \ {u} : Granted(v) => renewal[v].brings # b
        BY DEF TabOK, Brought
      <4>2. b \in 1..Len(secrets) \ {c}
        BY <2>1, <4>1
      <4>3. secrets'[b].state \in {"current", "ended"} /\ b # n
        BY <1>3, <2>2, <4>1, <4>2
      <4> QED BY <1>1, <2>1, <3>2, <4>1, <4>3 DEF Brought, Granted
    <3> QED BY <3>1, <3>2
  <2>5. Fair(u)'
    <3>1. CASE u = t
      BY <1>1, <3>1 DEF Fair
    <3>2. CASE u # t
      <4>1. PICK d : d = renewal[u].cookie
        OBVIOUS
      <4>2. renewal'[u] = renewal[u]
        BY <1>1, <3>2
      <4>3. CASE d = c
        <5>1. secrets'[d].by # u
          BY <1>3, <3>2, <4>3
        <5> QED BY <4>1, <4>2, <5>1 DEF Fair
      <4>4. CASE d # 0 /\ d # c
        <5>1. d \in 1..Len(secrets) \ {c}
          BY <2>1, <4>1, <4>4
        <5>2. /\ secrets'[d].of = secrets[d].of /\ secrets'[d].by = secrets[d].by
              /\ Exchanged(d)' => Exchanged(d)
          BY <1>3, <5>1 DEF Exchanged
        <5>3. Fair(u)
          BY DEF TabOK
        <5>4. (renewal[u].pc = "sent" \/ (renewal[u].pc = "served" /\ renewal[u].answer = "overtaken"))
                /\ Exchanged(d)' /\ secrets'[d].by = u
              => access[u].of # secrets'[d].of
          BY <4>1, <5>2, <5>3 DEF Fair
        <5> QED BY <4>1, <4>2, <5>4 DEF Fair, Exchanged
      <4>5. CASE d = 0
        BY <4>1, <4>2, <4>5 DEF Fair, Exchanged
      <4> QED BY <4>3, <4>4, <4>5
    <3> QED BY <3>1, <3>2
  <2>6. CASE u = t
    BY <1>1, <2>4, <2>5, <2>6 DEF TabOK
  <2>7. CASE u # t
    <3>1. renewal'[u] = renewal[u]
      BY <1>1, <2>7
    <3>2. State(renewal[u].cookie) # "current" =>
            \/ State(renewal[u].cookie)' = State(renewal[u].cookie)
            \/ State(renewal[u].cookie)' = "old" /\ State(renewal[u].cookie) = "previous"
      <4>1. PICK d : d = renewal[u].cookie
        OBVIOUS
      <4>2. d = 0 \/ d = c \/ d \in 1..Len(secrets) \ {c}
        BY <2>1, <4>1
      <4>3. State(d) # "current" =>
              State(d)' = State(d) \/ (State(d)' = "old" /\ State(d) = "previous")
        BY <1>2, <1>3, <4>2 DEF State
      <4> QED BY <3>1, <4>1, <4>3 DEF State
    <3> QED BY <2>4, <2>5, <3>1, <3>2 DEF TabOK
  <2> QED BY <2>6, <2>7
<1> QED BY <1>4, <1>5, <1>6

LEMMA TabsServeRenewal ==
  ASSUME TabsInv, NEW t \in AuthTabIds, ServeRenewal(t)
  PROVE  TabsInv'
<1> DEFINE c == renewal[t].cookie
           n == Len(secrets) + 1
<1>1. renewal[t].pc = "sent" /\ UNCHANGED <<access, restoring, fetch, leaving, entering, jar>>
  BY DEF ServeRenewal
<1>2. /\ secrets \in Seq(SecretDocs) /\ DOMAIN secrets = 1..Len(secrets)
      /\ c = 0 \/ c \in 1..Len(secrets)
  BY DEF TabsInv, TabsTyped, Renewals
<1>3. CASE /\ State(c) = "current" /\ secrets' = Successor(t, c)
           /\ renewal' = [Served(t, "granted") EXCEPT ![t].brings = n]
  BY <1>1, <1>3, TabsExchanged
<1>4. CASE /\ State(c) = "previous" /\ UNCHANGED secrets /\ renewal' = Served(t, "overtaken")
  <2>1. c # 0 /\ secrets'[c].state \in {"previous", "old", "ended"}
    BY <1>4 DEF State
  <2> QED BY <1>1, <1>2, <1>4, <2>1, TabsOvertaken
<1>5. CASE /\ State(c) \in {"old", "previous"} /\ secrets' = AllEnded
           /\ renewal' = Served(t, "refused")
  <2>1. /\ AllEnded \in Seq(SecretDocs) /\ Len(AllEnded) = Len(secrets)
        /\ \A d \in 1..Len(secrets) :
             /\ AllEnded[d].of = secrets[d].of /\ AllEnded[d].by = secrets[d].by
             /\ AllEnded[d].state = "ended"
    <3>1. \A d \in 1..Len(secrets) :
            /\ [secrets[d] EXCEPT !.state = "ended"] \in SecretDocs
            /\ [secrets[d] EXCEPT !.state = "ended"].of = secrets[d].of
            /\ [secrets[d] EXCEPT !.state = "ended"].by = secrets[d].by
            /\ [secrets[d] EXCEPT !.state = "ended"].state = "ended"
      <4> SUFFICES ASSUME NEW d \in 1..Len(secrets), secrets[d] \in SecretDocs
                   PROVE  /\ [secrets[d] EXCEPT !.state = "ended"] \in SecretDocs
                          /\ [secrets[d] EXCEPT !.state = "ended"].of = secrets[d].of
                          /\ [secrets[d] EXCEPT !.state = "ended"].by = secrets[d].by
                          /\ [secrets[d] EXCEPT !.state = "ended"].state = "ended"
        BY <1>2
      <4> QED BY DEF SecretDocs, SecretStates
    <3>2. AllEnded \in [1..Len(secrets) -> SecretDocs]
      BY <1>2, <3>1 DEF AllEnded
    <3>3. AllEnded \in Seq(SecretDocs) /\ Len(AllEnded) = Len(secrets)
      BY <1>2, <3>2
    <3> QED BY <1>2, <3>1, <3>3 DEF AllEnded
  <2>2. c # 0
    BY <1>5 DEF State
  <2>3. secrets'[c].state = "ended"
    BY <1>2, <1>5, <2>1, <2>2
  <2> QED BY <1>1, <1>5, <2>1, <2>3, TabsOvertaken
<1>6. CASE /\ State(c) \in {"none", "ended"} /\ UNCHANGED secrets
           /\ renewal' = Served(t, "refused")
  <2>1. c = 0 \/ secrets'[c].state = "ended"
    <3>1. c # 0 => secrets[c] \in SecretDocs
      BY <1>2
    <3> QED BY <1>6, <3>1 DEF State, SecretDocs, SecretStates
  <2> QED BY <1>1, <1>2, <1>6, <2>1, TabsOvertaken
<1> QED BY <1>3, <1>4, <1>5, <1>6 DEF ServeRenewal, Served, Successor, Marked

\* The calls of a tab once those that waited have been dealt with.
LEMMA Settled ==
  ASSUME TabsTyped, NEW t \in AuthTabIds, NEW v \in Fetches, v.pc # "waiting",
         fetch' = [fetch EXCEPT ![t] = [f \in Callers |-> IF Waiting(t, f) THEN v ELSE @[f]]]
  PROVE  /\ fetch' \in [AuthTabIds -> [Callers -> Fetches]]
         /\ \A u \in AuthTabIds \ {t} : fetch'[u] = fetch[u]
         /\ \A f \in Callers : fetch'[t][f].pc # "waiting"
BY DEF TabsTyped, Waiting

\* A refresh that is over, however it ends: what is left to say is where the
\* cookie and the tab are.
LEMMA TabsOver ==
  ASSUME TabsInv, NEW t \in AuthTabIds, renewal[t].pc # "none",
         renewal' = [renewal EXCEPT ![t] = NoRenewal],
         restoring' = [restoring EXCEPT ![t] = FALSE],
         fetch' \in [AuthTabIds -> [Callers -> Fetches]],
         \A u \in AuthTabIds \ {t} : fetch'[u] = fetch[u],
         UNCHANGED <<entering, secrets>>,
         NEW x \in [of : Nat, age : Ages], access' = [access EXCEPT ![t] = x],
         x.of <= Len(secrets), jar' \in 0..Len(secrets),
         \/ x.of = 0 /\ jar' \in {0, jar}
         \/ Granted(t) /\ jar' = renewal[t].brings,
         \A f \in Callers : fetch'[t][f].pc # "waiting",
         leaving' \in [AuthTabIds -> Departures],
         \A u \in AuthTabIds : /\ leaving'[u].cookie <= Len(secrets)
                               /\ leaving'[u].pc # "none" => leaving'[u].why # "none"
                               /\ leaving'[u].why = "refused" => leaving'[u].cookie = 0
  PROVE  TabsInv'
<1> USE DEF TabsInv
<1>1. /\ renewal' \in [AuthTabIds -> Renewals] /\ renewal'[t] = NoRenewal
      /\ \A u \in AuthTabIds \ {t} : renewal'[u] = renewal[u] /\ access'[u] = access[u]
      /\ access'[t] = x
  BY DEF TabsTyped, NoRenewal, Renewals
<1>2. TabsTyped'
  <2>1. \A u \in AuthTabIds : /\ renewal'[u].cookie <= Len(secrets) /\ renewal'[u].brings <= Len(secrets)
                              /\ access'[u].of <= Len(secrets)
    BY <1>1 DEF TabsTyped, NoRenewal
  <2>2. \A u \in AuthTabIds : renewal'[u].pc = "none" => \A f \in Callers : ~Waiting(u, f)'
    BY <1>1 DEF TabsTyped, Waiting
  <2>3. access' \in [AuthTabIds -> [of : Nat, age : Ages]] /\ restoring' \in [AuthTabIds -> BOOLEAN]
    BY DEF TabsTyped
  <2> QED BY <1>1, <2>1, <2>2, <2>3 DEF TabsTyped
<1>3. JarOK'
  <2>1. CASE Granted(t) /\ jar' = renewal[t].brings
    BY <2>1 DEF TabOK, Brought, JarOK, Exchanged
  <2>2. CASE x.of = 0 /\ jar' \in {0, jar}
    <3> SUFFICES ASSUME jar' = jar, Exchanged(jar), NEW u, u = secrets[jar].by
                 PROVE (Granted(u)' /\ renewal'[u].cookie = jar) \/ access'[u].of # secrets[jar].of
      BY <2>2 DEF JarOK, Exchanged
    <3>1. u \in AuthTabIds /\ secrets[jar].of # 0
      BY SecretTypes DEF TabsTyped, Exchanged
    <3> QED BY <1>1, <2>2, <3>1 DEF JarOK, Granted
  <2> QED BY <2>1, <2>2
<1>4. \A u \in AuthTabIds : TabOK(u)'
  <2> SUFFICES ASSUME NEW u \in AuthTabIds PROVE TabOK(u)'
    OBVIOUS
  <2>1. CASE u = t
    BY <1>1, <2>1 DEF TabOK, Brought, Fair, Granted, NoRenewal
  <2>2. CASE u # t
    <3>1. Brought(u)'
      <4>1. jar' \in {0, jar} \/ (Granted(t) /\ jar' = renewal[t].brings)
        OBVIOUS
      <4> QED BY <1>1, <2>2, <4>1 DEF TabOK, Brought, Granted, NoRenewal
    <3>2. Fair(u)'
      BY <1>1, <2>2 DEF TabOK, Fair, Exchanged
    <3>3. restoring'[u] = restoring[u]
      BY <2>2 DEF TabsTyped
    <3> QED BY <1>1, <2>2, <3>1, <3>2, <3>3 DEF TabOK, State
  <2> QED BY <2>1, <2>2
<1> QED BY <1>2, <1>3, <1>4

LEMMA TabsRenewalGranted ==
  ASSUME TabsInv, NEW t \in AuthTabIds, RenewalGranted(t)
  PROVE  TabsInv'
<1> DEFINE x == [of |-> secrets[renewal[t].brings].of, age |-> "fresh"]
           v == [pc |-> "replayed", bearer |-> "fresh"]
<1>1. v \in Fetches /\ v.pc # "waiting"
  BY DEF Fetches, Ages
<1>2. /\ fetch' \in [AuthTabIds -> [Callers -> Fetches]]
      /\ \A u \in AuthTabIds \ {t} : fetch'[u] = fetch[u]
      /\ \A f \in Callers : fetch'[t][f].pc # "waiting"
  BY <1>1, Settled DEF TabsInv, RenewalGranted
<1>3. /\ renewal[t].brings \in 1..Len(secrets) /\ Granted(t)
      /\ x \in [of : Nat, age : Ages] /\ x.of <= Len(secrets)
  <2>1. Granted(t)
    BY DEF RenewalGranted, Granted
  <2>2. renewal[t].brings \in 1..Len(secrets)
    BY <2>1 DEF TabsInv, TabsTyped, TabOK, Brought, Renewals
  <2> QED BY <2>1, <2>2, SecretTypes DEF TabsInv, TabsTyped, Ages
<1>4. \A u \in AuthTabIds : /\ leaving[u].cookie <= Len(secrets)
                            /\ leaving[u].pc # "none" => leaving[u].why # "none"
                            /\ leaving[u].why = "refused" => leaving[u].cookie = 0
  BY DEF TabsInv, TabsTyped, TabOK
<1> HIDE DEF x
<1>5. access' = [access EXCEPT ![t] = x]
  BY DEF RenewalGranted, x
<1>6. /\ renewal[t].pc # "none" /\ UNCHANGED <<entering, leaving, secrets>>
      /\ renewal' = [renewal EXCEPT ![t] = NoRenewal] /\ restoring' = [restoring EXCEPT ![t] = FALSE]
      /\ jar' = renewal[t].brings
  BY DEF RenewalGranted
<1>7. jar' \in 0..Len(secrets) /\ leaving \in [AuthTabIds -> Departures]
  BY <1>3, <1>6 DEF TabsInv, TabsTyped
<1> QED BY <1>2, <1>3, <1>4, <1>5, <1>6, <1>7, TabsOver

LEMMA NoFetches == NoFetch \in Fetches /\ NoFetch.pc # "waiting"
BY DEF NoFetch, Fetches, Ages

LEMMA TabsRenewalLost ==
  ASSUME TabsInv, NEW t \in AuthTabIds, RenewalLost(t)
  PROVE  TabsInv'
<1>1. /\ fetch' \in [AuthTabIds -> [Callers -> Fetches]]
      /\ \A u \in AuthTabIds \ {t} : fetch'[u] = fetch[u]
      /\ \A f \in Callers : fetch'[t][f].pc # "waiting"
  BY NoFetches, Settled DEF TabsInv, RenewalLost
<1>2. \A u \in AuthTabIds : /\ leaving[u].cookie <= Len(secrets)
                            /\ leaving[u].pc # "none" => leaving[u].why # "none"
                            /\ leaving[u].why = "refused" => leaving[u].cookie = 0
  BY DEF TabsInv, TabsTyped, TabOK
<1>3. SignedOut \in [of : Nat, age : Ages] /\ SignedOut.of = 0 /\ 0 <= Len(secrets)
  BY DEF SignedOut, Ages, TabsInv, TabsTyped
<1> QED BY <1>1, <1>2, <1>3, TabsOver DEF RenewalLost, TabsInv, TabsTyped

LEMMA TabsRenewalRefused ==
  ASSUME TabsInv, NEW t \in AuthTabIds, RenewalRefused(t)
  PROVE  TabsInv'
<1>1. /\ fetch' \in [AuthTabIds -> [Callers -> Fetches]]
      /\ \A u \in AuthTabIds \ {t} : fetch'[u] = fetch[u]
      /\ \A f \in Callers : fetch'[t][f].pc # "waiting"
  BY NoFetches, Settled DEF TabsInv, RenewalRefused
<1>2. SignedOut \in [of : Nat, age : Ages] /\ SignedOut.of = 0 /\ 0 <= Len(secrets)
  BY DEF SignedOut, Ages, TabsInv, TabsTyped
<1>3. jar' \in {0, jar} /\ jar' \in 0..Len(secrets) /\ (renewal[t].answer = "refused" => jar' = 0)
  BY DEF RenewalRefused, TabsInv, TabsTyped
<1>4. /\ leaving' \in [AuthTabIds -> Departures]
      /\ \A u \in AuthTabIds : /\ leaving'[u].cookie <= Len(secrets)
                               /\ leaving'[u].pc # "none" => leaving'[u].why # "none"
                               /\ leaving'[u].why = "refused" => leaving'[u].cookie = 0
  <2>1. CASE UNCHANGED leaving
    BY <2>1 DEF TabsInv, TabsTyped, TabOK
  <2>2. CASE Leave(t, jar', renewal[t].answer)
    <3>1. renewal[t].answer \in {"overtaken", "refused"}
      BY DEF RenewalRefused
    <3>2. [pc |-> "sent", cookie |-> jar', why |-> renewal[t].answer] \in Departures
      BY <1>3, <3>1 DEF Departures
    <3> QED BY <1>3, <2>2, <3>1, <3>2 DEF TabsInv, TabsTyped, TabOK, Leave
  <2> QED BY <2>1, <2>2 DEF RenewalRefused
<1>5. /\ renewal[t].pc # "none" /\ UNCHANGED <<entering, secrets>>
      /\ renewal' = [renewal EXCEPT ![t] = NoRenewal] /\ restoring' = [restoring EXCEPT ![t] = FALSE]
      /\ access' = [access EXCEPT ![t] = SignedOut]
  BY DEF RenewalRefused
<1> QED BY <1>1, <1>2, <1>3, <1>4, <1>5, TabsOver

LEMMA TabsStepOK ==
  ASSUME TabsInv, [TabsNext]_tabs
  PROVE  TabsInv'
<1>1. CASE UNCHANGED tabs
  BY <1>1 DEF tabs, TabsInv, TabsTyped, JarOK, TabOK, Brought, Fair, Granted, Exchanged, Waiting, State
<1>2. ASSUME NEW t \in AuthTabIds,
             \/ Mount(t) \/ ServeRenewal(t) \/ RenewalGranted(t) \/ RenewalRefused(t) \/ RenewalLost(t)
             \/ \E f \in Callers : Call(t, f) \/ Received(t, f) \/ Unauthorized(t, f) \/ Replayed(t, f)
             \/ SignOut(t) \/ ServeLeave(t) \/ LeaveSettled(t) \/ Enter(t) \/ Entered(t)
      PROVE  TabsInv'
  BY <1>2, TabsMount, TabsServeRenewal, TabsRenewalGranted, TabsRenewalRefused, TabsRenewalLost,
     TabsCall, TabsReceived, TabsUnauthorized, TabsReplayed, TabsSignOut, TabsServeLeave,
     TabsLeaveSettled, TabsEnter, TabsEntered
<1>3. CASE RunOut
  BY <1>3, TabsRunOut
<1> QED BY <1>1, <1>2, <1>3 DEF TabsNext

\* A step that settles no refresh that a call waits for.
LEMMA PromptedQuiet ==
  ASSUME PromptedOK,
         \A t \in AuthTabIds :
           /\ renewal'[t].pc # "none" /\ renewal'[t].prompted =>
                renewal[t].pc # "none" /\ renewal[t].prompted
           /\ \A f \in Callers :
                /\ Waiting(t, f) => fetch'[t][f].pc = "waiting"
                /\ fetch'[t][f].pc = "waiting" =>
                     Waiting(t, f) /\ (fetch'[t][f].bearer = "none" => fetch[t][f].bearer = "none")
  PROVE  PromptedOK'
BY DEF PromptedOK, Waiting

LEMMA PromptedStep ==
  ASSUME TabsInv, PromptedOK, [TabsNext]_tabs
  PROVE  PromptedOK'
<1>1. /\ fetch \in [AuthTabIds -> [Callers -> Fetches]] /\ renewal \in [AuthTabIds -> Renewals]
      /\ \A t \in AuthTabIds, f \in Callers : fetch[t][f] \in Fetches
  BY DEF TabsInv, TabsTyped
<1>2. CASE UNCHANGED <<fetch, renewal>>
  BY <1>2 DEF PromptedOK, Waiting
<1>3. ASSUME NEW t \in AuthTabIds,
             RenewalGranted(t) \/ RenewalRefused(t) \/ RenewalLost(t)
      PROVE  PromptedOK'
  <2>1. renewal' = [renewal EXCEPT ![t] = NoRenewal] /\ NoRenewal.pc = "none"
    BY <1>3 DEF RenewalGranted, RenewalRefused, RenewalLost, NoRenewal
  <2>2. PICK v \in Fetches :
          /\ v.pc # "waiting"
          /\ fetch' = [fetch EXCEPT ![t] = [f \in Callers |-> IF Waiting(t, f) THEN v ELSE @[f]]]
    <3>1. [pc |-> "replayed", bearer |-> "fresh"] \in Fetches
      BY DEF Fetches, Ages
    <3> QED BY <1>3, <3>1, NoFetches DEF RenewalGranted, RenewalRefused, RenewalLost
  <2>3. /\ \A u \in AuthTabIds \ {t} : fetch'[u] = fetch[u] /\ renewal'[u] = renewal[u]
        /\ \A f \in Callers : fetch'[t][f].pc # "waiting"
        /\ renewal'[t].pc = "none"
    BY <1>1, <2>1, <2>2, Settled DEF TabsInv
  <2> QED BY <2>3 DEF PromptedOK, Waiting
<1>4. ASSUME NEW t \in AuthTabIds, Mount(t)
      PROVE  PromptedOK'
  <2>1. renewal' = [renewal EXCEPT ![t] =
          [pc |-> "sent", cookie |-> jar, answer |-> "none", brings |-> 0, prompted |-> FALSE]]
    BY <1>4, RenewalSent DEF Mount, Coalesced
  <2>2. UNCHANGED fetch
    BY <1>4 DEF Mount
  <2> QED BY <1>1, <2>1, <2>2, PromptedQuiet DEF Waiting
<1>5. ASSUME NEW t \in AuthTabIds, ServeRenewal(t)
      PROVE  PromptedOK'
  <2>1. UNCHANGED fetch /\ renewal[t].pc = "sent"
    BY <1>5 DEF ServeRenewal
  <2>2. PICK a \in {"granted", "overtaken", "refused"} :
          renewal' = Served(t, a) \/ \E n \in Nat : renewal' = [Served(t, a) EXCEPT ![t].brings = n]
    <3>1. Len(secrets) + 1 \in Nat
      BY DEF TabsInv, TabsTyped
    <3> QED BY <1>5, <3>1 DEF ServeRenewal, Served
  <2>3. /\ Served(t, a) \in [AuthTabIds -> Renewals]
        /\ Served(t, a)[t].prompted = renewal[t].prompted
        /\ \A u \in AuthTabIds \ {t} : Served(t, a)[u] = renewal[u]
    BY <1>1, RenewalServed
  <2>4. renewal'[t].prompted = renewal[t].prompted /\ \A u \in AuthTabIds \ {t} : renewal'[u] = renewal[u]
    <3>1. CASE renewal' = Served(t, a)
      BY <2>3, <3>1
    <3>2. ASSUME NEW n \in Nat, renewal' = [Served(t, a) EXCEPT ![t].brings = n]
          PROVE  /\ renewal'[t].prompted = renewal[t].prompted
                 /\ \A u \in AuthTabIds \ {t} : renewal'[u] = renewal[u]
      BY <2>3, <3>2 DEF Renewals
    <3> QED BY <2>2, <3>1, <3>2
  <2> QED BY <2>1, <2>4, PromptedQuiet DEF Waiting
<1>6. ASSUME NEW t \in AuthTabIds, NEW f \in Callers, Call(t, f) \/ Received(t, f) \/ Replayed(t, f)
      PROVE  PromptedOK'
  <2>1. UNCHANGED renewal /\ ~Waiting(t, f)
    BY <1>6 DEF Call, Received, Replayed, Waiting
  <2>2. PICK v : fetch' = [fetch EXCEPT ![t][f] = v] /\ v.pc # "waiting"
    BY <1>6, NoFetches DEF Call, Received, Replayed
  <2> QED BY <1>1, <2>1, <2>2, PromptedQuiet DEF Waiting
<1>7. ASSUME NEW t \in AuthTabIds, NEW f \in Callers, Unauthorized(t, f)
      PROVE  PromptedOK'
  <2>1. CASE fetch[t][f].bearer = "none"
    <3>1. UNCHANGED renewal /\ ~Waiting(t, f) /\ fetch' = [fetch EXCEPT ![t][f] = NoFetch]
      BY <1>7, <2>1 DEF Unauthorized, Waiting
    <3> QED BY <1>1, <3>1, NoFetches, PromptedQuiet DEF Waiting
  <2>2. CASE fetch[t][f].bearer # "none"
    <3>1. /\ fetch' = [fetch EXCEPT ![t][f].pc = "waiting"]
          /\ \A u \in AuthTabIds \ {t} : renewal'[u] = renewal[u]
      BY <1>1, <1>7, <2>2 DEF Unauthorized, Coalesced
    <3>2. /\ fetch'[t][f].pc = "waiting" /\ fetch'[t][f].bearer = fetch[t][f].bearer
          /\ \A g \in Callers \ {f} : fetch'[t][g] = fetch[t][g]
          /\ \A u \in AuthTabIds \ {t} : fetch'[u] = fetch[u]
      BY <1>1, <3>1 DEF Fetches
    <3> QED BY <2>2, <3>1, <3>2 DEF PromptedOK, Waiting
  <2> QED BY <2>1, <2>2
<1>8. CASE RunOut
  <2>1. /\ UNCHANGED renewal
        /\ \A t \in AuthTabIds, f \in Callers :
             fetch'[t][f] \in {fetch[t][f], [fetch[t][f] EXCEPT !.bearer = "stale"]}
    BY <1>8 DEF RunOut
  <2>2. ASSUME NEW t \in AuthTabIds, NEW f \in Callers
        PROVE  /\ fetch'[t][f].pc = fetch[t][f].pc
               /\ fetch'[t][f].bearer = "none" => fetch[t][f].bearer = "none"
    <3>1. /\ [fetch[t][f] EXCEPT !.bearer = "stale"].pc = fetch[t][f].pc
          /\ [fetch[t][f] EXCEPT !.bearer = "stale"].bearer = "stale"
      BY <1>1 DEF Fetches
    <3> QED BY <2>1, <3>1
  <2> QED BY <2>1, <2>2, PromptedQuiet DEF Waiting
<1>9. ASSUME NEW t \in AuthTabIds,
             SignOut(t) \/ ServeLeave(t) \/ LeaveSettled(t) \/ Enter(t) \/ Entered(t)
      PROVE  UNCHANGED <<fetch, renewal>>
  BY <1>9 DEF SignOut, ServeLeave, LeaveSettled, Enter, Entered
<1> QED BY <1>2, <1>3, <1>4, <1>5, <1>6, <1>7, <1>8, <1>9 DEF TabsNext, tabs

LEMMA TabsInvariant == TabsSpec => [](TabsInv /\ PromptedOK)
<1>1. TabsInit => PromptedOK
  BY DEF TabsInit, PromptedOK, Waiting, NoRenewal, NoFetch
<1> QED BY <1>1, TabsInitially, TabsStepOK, PromptedStep, PTL DEF TabsSpec

AsAsked ==
  /\ \A t \in AuthTabIds :
       /\ SignsOut(t) => AskedToLeave(t) \/ (RenewalLost(t) \/ NotItsOwnDoing(t))
       /\ SignsIn(t) => entering[t] = "yes" \/ restoring[t]
                          \/ (renewal[t].prompted /\ SentSignedIn(t))
  /\ Ends => \E t \in AuthTabIds :
       \/ leaving[t].pc = "sent" /\ leaving'[t].pc = "served"
          /\ leaving[t].why \in {"asked", "overtaken", "expired"}
       \/ renewal[t].pc = "sent" /\ renewal'[t].answer = "refused"

\* A refused refresh is not the tab's own doing.
LEMMA RefusedByOthers ==
  ASSUME TabsInv, NEW t \in AuthTabIds, RenewalRefused(t)
  PROVE  NotItsOwnDoing(t)
<1> DEFINE c == renewal[t].cookie
<1>1. CASE renewal[t].answer = "refused"
  BY <1>1 DEF TabsInv, TabOK, RenewalRefused, NotItsOwnDoing
<1>2. CASE renewal[t].answer = "overtaken"
  <2>1. State(c) \in {"previous", "old", "ended"}
    BY <1>2 DEF TabsInv, TabOK, RenewalRefused
  <2>2. State(c) # "ended" => Exchanged(c)
    BY <2>1 DEF State, Exchanged
  <2>3. Exchanged(c) /\ secrets[c].by = t => access[t].of # secrets[c].of
    BY <1>2 DEF TabsInv, TabOK, Fair, RenewalRefused
  <2> QED BY <2>2, <2>3 DEF NotItsOwnDoing
<1> QED BY <1>1, <1>2 DEF RenewalRefused

\* Only these steps touch the access token of a tab.
LEMMA AccessSteps ==
  ASSUME TabsInv, TabsNext, NEW t \in AuthTabIds, access'[t] # access[t]
  PROVE  \/ RenewalGranted(t) \/ RenewalRefused(t) \/ RenewalLost(t)
         \/ \E f \in Callers : Replayed(t, f) /\ leaving[t].pc = "none" /\ Leave(t, jar, "expired")
         \/ SignOut(t) \/ Entered(t)
         \/ access[t] # SignedOut /\ access'[t] # SignedOut
<1>0. access \in [AuthTabIds -> [of : Nat, age : Ages]]
  BY DEF TabsInv, TabsTyped
<1>1. CASE RunOut
  <2>1. access[t].age = "fresh" /\ access'[t] = [access[t] EXCEPT !.age = "stale"]
    BY <1>1 DEF RunOut
  <2>2. access'[t].age = "stale"
    BY <1>0, <2>1
  <2> QED BY <2>1, <2>2 DEF SignedOut
<1>2. ASSUME NEW u \in AuthTabIds,
             \/ Mount(u) \/ ServeRenewal(u) \/ ServeLeave(u) \/ LeaveSettled(u) \/ Enter(u)
             \/ \E f \in Callers : Call(u, f) \/ Received(u, f) \/ Unauthorized(u, f)
      PROVE  FALSE
  BY <1>2 DEF Mount, ServeRenewal, ServeLeave, LeaveSettled, Enter, Call, Received, Unauthorized
<1>3. ASSUME NEW u \in AuthTabIds, RenewalGranted(u) \/ RenewalRefused(u) \/ RenewalLost(u)
                                     \/ SignOut(u) \/ Entered(u)
      PROVE  u = t
  BY <1>0, <1>3 DEF RenewalGranted, RenewalRefused, RenewalLost, SignOut, Entered
<1>4. ASSUME NEW u \in AuthTabIds, NEW f \in Callers, Replayed(u, f)
      PROVE  u = t /\ leaving[t].pc = "none" /\ Leave(t, jar, "expired")
  BY <1>0, <1>4 DEF Replayed
<1> QED BY <1>1, <1>2, <1>3, <1>4 DEF TabsNext

LEMMA TabsAsAsked ==
  ASSUME TabsInv, PromptedOK, TabsNext
  PROVE  AsAsked
<1>1. ASSUME NEW t \in AuthTabIds, SignsOut(t)
      PROVE  AskedToLeave(t) \/ RenewalLost(t) \/ NotItsOwnDoing(t)
  <2>1. leaving \in [AuthTabIds -> Departures]
    BY DEF TabsInv, TabsTyped
  <2>2. ASSUME leaving[t].pc = "none", NEW why \in {"asked", "expired"}, Leave(t, jar, why)
        PROVE  AskedToLeave(t)
    <3>1. leaving'[t].pc = "sent" /\ leaving'[t].why = why
      BY <2>1, <2>2 DEF Leave
    <3> QED BY <2>2, <3>1 DEF AskedToLeave
  <2>3. ~RenewalGranted(t) /\ ~Entered(t)
    <3>1. ASSUME RenewalGranted(t) \/ Entered(t) PROVE access'[t].age = "fresh"
      BY <3>1 DEF RenewalGranted, Entered, TabsInv, TabsTyped
    <3> QED BY <1>1, <3>1 DEF SignsOut, SignedOut
  <2> QED BY <1>1, <2>2, <2>3, AccessSteps, RefusedByOthers DEF SignsOut, SignOut
<1>2. ASSUME NEW t \in AuthTabIds, SignsIn(t)
      PROVE  entering[t] = "yes" \/ restoring[t] \/ (renewal[t].prompted /\ SentSignedIn(t))
  <2>1. ~RenewalRefused(t) /\ ~RenewalLost(t) /\ ~SignOut(t)
    BY <1>2 DEF RenewalRefused, RenewalLost, SignOut, SignsIn, TabsInv, TabsTyped
  <2>2. RenewalGranted(t) => restoring[t] \/ (renewal[t].prompted /\ SentSignedIn(t))
    BY DEF RenewalGranted, TabsInv, TabOK, PromptedOK, SentSignedIn
  <2>3. Entered(t) => entering[t] = "yes"
    BY DEF Entered
  <2>4. ASSUME NEW f \in Callers, Replayed(t, f), leaving[t].pc = "none", Leave(t, jar, "expired")
        PROVE  FALSE
    <3>1. leaving'[t].pc = "sent"
      BY <2>4 DEF Leave, TabsInv, TabsTyped
    <3>2. access' = access \/ access' = [access EXCEPT ![t] = SignedOut]
      BY <2>4 DEF Replayed
    <3> QED BY <1>2, <3>2 DEF SignsIn, TabsInv, TabsTyped
  <2> QED BY <1>2, <2>1, <2>2, <2>3, <2>4, AccessSteps DEF SignsIn
<1>3. ASSUME NEW c \in DOMAIN secrets, secrets[c].state = "current", secrets'[c].state = "ended"
      PROVE  \E t \in AuthTabIds :
               \/ leaving[t].pc = "sent" /\ leaving'[t].pc = "served"
                  /\ leaving[t].why \in {"asked", "overtaken", "expired"}
               \/ renewal[t].pc = "sent" /\ renewal'[t].answer = "refused"
  <2>1. secrets' # secrets /\ c \in 1..Len(secrets) /\ secrets \in Seq(SecretDocs)
    BY <1>3 DEF TabsInv, TabsTyped
  <2>2. ASSUME NEW t \in AuthTabIds, ServeLeave(t)
        PROVE  leaving[t].pc = "sent" /\ leaving'[t].pc = "served"
               /\ leaving[t].why \in {"asked", "overtaken", "expired"}
    <3>1. leaving[t].pc = "sent" /\ leaving'[t].pc = "served"
      BY <2>2 DEF ServeLeave, TabsInv, TabsTyped, Departures
    <3>2. leaving[t].cookie # 0
      BY <2>1, <2>2 DEF ServeLeave, State
    <3>3. leaving[t].why # "none" /\ leaving[t].why # "refused" /\ leaving[t] \in Departures
      BY <3>1, <3>2 DEF TabsInv, TabsTyped, TabOK
    <3> QED BY <3>1, <3>3 DEF Departures
  <2>3. ASSUME NEW t \in AuthTabIds, Entered(t)
        PROVE  FALSE
    BY <1>3, <2>1, <2>3 DEF Entered
  <2>4. ASSUME NEW t \in AuthTabIds, ServeRenewal(t)
        PROVE  renewal[t].pc = "sent" /\ renewal'[t].answer = "refused"
    <3> DEFINE d == renewal[t].cookie
    <3>1. renewal \in [AuthTabIds -> Renewals] /\ renewal[t].pc = "sent"
      BY <2>4 DEF ServeRenewal, TabsInv, TabsTyped
    <3>2. ASSUME State(d) = "current", secrets' = Successor(t, d)
          PROVE  FALSE
      <4>1. d \in 1..Len(secrets) /\ secrets[d].state = "current"
        BY <3>1, <3>2 DEF TabsInv, TabsTyped, Renewals, State
      <4>2. /\ secrets'[d].state = "previous"
            /\ c # d => secrets'[c].state = secrets[c].state \/ secrets'[c].state = "old"
        BY <2>1, <3>2, <4>1, Exchanging
      <4> QED BY <1>3, <4>2
    <3>3. ASSUME renewal' = Served(t, "refused") PROVE renewal'[t].answer = "refused"
      BY <3>1, <3>3, RenewalServed
    <3> QED BY <2>1, <2>4, <3>1, <3>2, <3>3 DEF ServeRenewal, Served, Successor, Marked
  <2>5. \E t \in AuthTabIds : ServeLeave(t) \/ Entered(t) \/ ServeRenewal(t)
    <3>1. \A t \in AuthTabIds :
            Mount(t) \/ RenewalGranted(t) \/ RenewalRefused(t) \/ RenewalLost(t) => secrets' = secrets
      BY DEF Mount, RenewalGranted, RenewalRefused, RenewalLost
    <3>2. \A t \in AuthTabIds, f \in Callers :
            Call(t, f) \/ Received(t, f) \/ Unauthorized(t, f) \/ Replayed(t, f) => secrets' = secrets
      BY DEF Call, Received, Unauthorized, Replayed
    <3>3. \A t \in AuthTabIds : SignOut(t) \/ LeaveSettled(t) \/ Enter(t) => secrets' = secrets
      BY DEF SignOut, LeaveSettled, Enter
    <3>4. RunOut => secrets' = secrets
      BY DEF RunOut
    <3> QED BY <2>1, <3>1, <3>2, <3>3, <3>4 DEF TabsNext
  <2> QED BY <2>2, <2>3, <2>4, <2>5
<1> QED BY <1>1, <1>2, <1>3 DEF AsAsked, Ends

\* AuthProvider.tsx: a tab is signed out only if the person asked, its refresh
\* was lost or refused for what another tab, or the end of the session, had done
\* to the secret it sent; it is signed in only by a sign-in, at its start, or for
\* a call that was sent with a token and refused (authorizedRequest.ts asks for no
\* refresh otherwise); and a session ends only by a sign-out or a replay seen.
THEOREM TabsSessionAsAsked == TabsSpec => SessionAsAsked
<1>1. TabsInv /\ PromptedOK /\ [TabsNext]_tabs => [AsAsked]_tabs
  BY TabsAsAsked
<1> QED BY <1>1, TabsInvariant, PTL DEF TabsSpec, SessionAsAsked, AsAsked

LEMMA TabsTypes == TabsInv => TabsTypeOK
<1> SUFFICES ASSUME TabsInv PROVE TabsTypeOK
  OBVIOUS
<1>1. \A c \in DOMAIN secrets : secrets[c].state \in SecretStates
  <2>1. secrets \in Seq(SecretDocs)
    BY DEF TabsInv, TabsTyped
  <2>2. \A c \in DOMAIN secrets : secrets[c] \in SecretDocs
    BY <2>1
  <2> QED BY <2>2 DEF SecretDocs
<1>2. \A t \in AuthTabIds :
        /\ access[t].of \in 0..Len(secrets) /\ renewal[t].brings \in 0..Len(secrets)
        /\ \A f \in Callers : Waiting(t, f) => renewal[t].pc # "none"
  BY DEF TabsInv, TabsTyped, Renewals
<1> QED BY <1>1, <1>2 DEF TabsTypeOK, TabsInv, TabsTyped, SecretStates

----------------------------------------------------------------------------
(* Dashboard: every step keeps the invariant.                              *)

LEMMA DashboardInitially == DashboardInit => DashboardInv
<1> SUFFICES ASSUME DashboardInit PROVE DashboardInv
  OBVIOUS
<1>1. DashboardTyped
  <2>1. /\ NoTeam \in TeamPages /\ NoTransfer \in Transfers /\ NoInstall \in InstallPages
        /\ NoContext \in [org : Workspaces \cup {NoWorkspace}, owner : BOOLEAN]
    BY DEF NoContext, NoTeam, NoTransfer, NoInstall, TeamPages, Transfers, InstallPages
  <2>2. \A r \in contextReads : ContextRead(r)
    <3> DEFINE x == [no |-> 0, org |-> chosen, read |-> FALSE, owner |-> FALSE]
    <3>1. x = [no |-> x.no, org |-> x.org, read |-> x.read, owner |-> x.owner]
      BY Zenon
    <3>2. x.org \in Workspaces /\ x.read \in BOOLEAN /\ x.owner \in BOOLEAN
      BY DEF DashboardInit
    <3>3. ContextRead(x)
      BY <3>1, <3>2 DEF ContextRead
    <3> QED BY <3>3 DEF DashboardInit
  <2>3. /\ roster \in [Workspaces -> Nat] /\ key \in [Workspaces -> Nat]
        /\ acts \in Nat /\ unheard \in BOOLEAN /\ rosterReads \subseteq RosterReads
    <3>1. unheard \in BOOLEAN
      BY Zenon DEF DashboardInit
    <3> QED BY <3>1 DEF DashboardInit, Sent
  <2> QED BY <2>1, <2>2, <2>3 DEF DashboardInit, DashboardTyped
<1>2. MountedOK
  BY DashboardAssumption DEF DashboardInit, MountedOK, NoContext, NoTeam, NoTransfer, NoInstall
<1>3. ContextOK
  BY DEF DashboardInit, ContextOK
<1>4. TeamOK
  BY DEF DashboardInit, TeamOK, NoTeam
<1>5. InstallOK
  BY DEF DashboardInit, InstallOK, NoInstall, Off, Sent
<1> QED BY <1>1, <1>2, <1>3, <1>4, <1>5 DEF DashboardInv

----------------------------------------------------------------------------
(* What a step leaves as it is.                                            *)

LEMMA ContextKept ==
  ASSUME ContextOK, UNCHANGED <<contextReads, context, chosen, owned>>, Stale => Stale',
         "context" \in crossing' <=> "context" \in crossing,
         "context" \in doubtful' <=> "context" \in doubtful
  PROVE  ContextOK'
<1> USE DEF ContextOK
<1>1. "context" \notin crossing' =>
       \A r \in contextReads : /\ contextReads = {r} /\ r.org = chosen
                               /\ r.read => (r.owner <=> r.org \in owned) \/ Stale'
  OBVIOUS
<1> QED BY <1>1

LEMMA TeamKept ==
  ASSUME TeamOK, DashboardTyped, roster' \in [Workspaces -> Nat], MountedOK,
         UNCHANGED <<rosterReads, team>>, context'.org = context.org,
         \A o \in Workspaces : roster'[o] >= roster[o],
         "team" \in crossing' <=> "team" \in crossing,
         "team" \in doubtful' <=> "team" \in doubtful
  PROVE  TeamOK'
<1>1. team.status # "absent" => team.notice <= roster'[context.org] /\ team.made <= roster'[context.org]
  BY DEF TeamOK, DashboardTyped, MountedOK, TeamPages
<1> QED BY <1>1 DEF TeamOK

LEMMA InstallKept ==
  ASSUME InstallOK, UNCHANGED <<install, key>>, context'.org = context.org,
         "install" \in crossing' <=> "install" \in crossing,
         "install" \in doubtful' <=> "install" \in doubtful
  PROVE  InstallOK'
BY DEF InstallOK

----------------------------------------------------------------------------
(* Steps that several actions have in common.                              *)

LEMMA NoPages ==
  /\ NoTeam \in TeamPages /\ NoTransfer \in Transfers /\ NoInstall \in InstallPages
  /\ [NoTeam EXCEPT !.status = "loading"] \in TeamPages
  /\ [NoTeam EXCEPT !.status = "loading"].status = "loading"
  /\ [NoTeam EXCEPT !.status = "loading"].notice = 0
  /\ [NoTeam EXCEPT !.status = "loading"].made = 0
  /\ [NoInstall EXCEPT !.status = "loading"] \in InstallPages
  /\ [NoInstall EXCEPT !.status = "loading"].status = "loading"
  /\ [NoInstall EXCEPT !.status = "loading"].key = 0
  /\ [NoInstall EXCEPT !.status = "loading"].own = 0
  /\ [NoInstall EXCEPT !.status = "loading"].saving = Off
  /\ [NoInstall EXCEPT !.status = "loading"].rotating = Off
<1>1. NoTeam \in TeamPages /\ NoTeam.notice = 0 /\ NoTeam.made = 0
  BY DEF NoTeam, TeamPages
<1>2. NoInstall \in InstallPages /\ NoInstall.key = 0 /\ NoInstall.own = 0
      /\ NoInstall.saving = Off /\ NoInstall.rotating = Off
  BY DEF NoInstall, InstallPages, Off
<1>3. NoTransfer \in Transfers
  BY DEF NoTransfer, Transfers
<1>4. /\ [NoTeam EXCEPT !.status = "loading"] \in TeamPages
      /\ [NoTeam EXCEPT !.status = "loading"].status = "loading"
      /\ [NoTeam EXCEPT !.status = "loading"].notice = 0
      /\ [NoTeam EXCEPT !.status = "loading"].made = 0
  BY <1>1 DEF TeamPages
<1>5. /\ [NoInstall EXCEPT !.status = "loading"] \in InstallPages
      /\ [NoInstall EXCEPT !.status = "loading"].status = "loading"
      /\ [NoInstall EXCEPT !.status = "loading"].key = 0
      /\ [NoInstall EXCEPT !.status = "loading"].own = 0
      /\ [NoInstall EXCEPT !.status = "loading"].saving = Off
      /\ [NoInstall EXCEPT !.status = "loading"].rotating = Off
  BY <1>2 DEF InstallPages
<1> QED BY <1>1, <1>2, <1>3, <1>4, <1>5

\* A read that is sent.
LEMMA ReadSent ==
  ASSUME NEW why \in {"load", "act", "retry", "transfer"}
  PROVE  /\ Unread(why) \in RosterReads /\ Unread(why).why = why
         /\ ~Unread(why).read /\ Unread(why).heard
BY DEF Unread, RosterReads

\* The form of a transfer is gone, and maybe its page.
Formless == [transfer EXCEPT !.form = FALSE]
Homeless == [transfer EXCEPT !.home = FALSE, !.form = FALSE]

LEMMA FormGone ==
  ASSUME transfer \in Transfers
  PROVE  /\ Formless \in Transfers /\ Formless.pc = transfer.pc /\ Formless.org = transfer.org
         /\ Formless.home = transfer.home /\ Formless.form = FALSE
         /\ Homeless \in Transfers /\ Homeless.pc = transfer.pc /\ Homeless.org = transfer.org
         /\ Homeless.home = FALSE /\ Homeless.form = FALSE
<1> DEFINE x == [transfer EXCEPT !.home = FALSE]
<1>1. /\ Formless \in Transfers /\ Formless.pc = transfer.pc /\ Formless.org = transfer.org
      /\ Formless.home = transfer.home /\ Formless.form = FALSE
  BY DEF Formless, Transfers
<1>2. /\ x \in Transfers /\ x.pc = transfer.pc /\ x.org = transfer.org
      /\ x.home = FALSE
  BY DEF Transfers
<1>3. Homeless = [x EXCEPT !.form = FALSE]
  BY DEF Homeless
<1> HIDE DEF x
<1> QED BY <1>1, <1>2, <1>3 DEF Transfers

\* A transfer without its form is as good a transfer.
LEMMA Formlessly ==
  ASSUME transfer \in Transfers, MountedOK,
         transfer' \in {transfer, Formless, Homeless}
           \/ (transfer.pc = "confirming" /\ transfer' = NoTransfer)
  PROVE  /\ transfer' \in Transfers
         /\ transfer'.form => transfer'.home /\ transfer.form
         /\ transfer'.pc # "none" => transfer'.org \in Workspaces
         /\ transfer'.home => transfer'.pc # "none" /\ transfer'.org = context.org /\ transfer.home
         /\ transfer'.pc \in {"made", "reading"} <=> transfer.pc \in {"made", "reading"}
<1>1. CASE transfer.pc = "confirming" /\ transfer' = NoTransfer
  BY <1>1, NoPages DEF NoTransfer
<1>2. CASE transfer' = transfer
  BY <1>2 DEF MountedOK
<1>3. CASE transfer' = Formless
  BY <1>3, FormGone DEF MountedOK
<1>4. CASE transfer' = Homeless
  BY <1>4, FormGone DEF MountedOK
<1> QED BY <1>1, <1>2, <1>3, <1>4

\* Another organization's sections, or none.
LEMMA MountedAnew ==
  ASSUME DashboardInv, NEW o \in Workspaces \cup {NoWorkspace}, Mounted(o),
         context'.org = o, o = NoWorkspace => context' = NoContext,
         UNCHANGED <<roster, key, crossing>>
  PROVE  /\ team' \in TeamPages /\ transfer' \in Transfers /\ install' \in InstallPages
         /\ rosterReads' \subseteq RosterReads
         /\ MountedOK' /\ TeamOK' /\ InstallOK'
         /\ transfer'.pc \in {"made", "reading"} <=> transfer.pc \in {"made", "reading"}
<1> USE DEF DashboardInv
<1>1. /\ transfer' \in Transfers /\ ~transfer'.home /\ ~transfer'.form
      /\ transfer'.pc # "none" => transfer'.org \in Workspaces
      /\ transfer'.pc \in {"made", "reading"} <=> transfer.pc \in {"made", "reading"}
  <2>1. (transfer' = NoTransfer /\ transfer.pc = "confirming") \/ transfer' = Homeless
    BY DEF Mounted, Homeless
  <2>2. ~NoTransfer.home /\ ~NoTransfer.form
    BY DEF NoTransfer
  <2> QED BY <2>1, <2>2, Formlessly, FormGone DEF DashboardTyped
<1>2. /\ rosterReads' \subseteq RosterReads
      /\ \A r \in rosterReads' : r.heard => r = Unread("load") /\ o # NoWorkspace
  <2>1. \A q \in RosterReads : [q EXCEPT !.heard = FALSE] \in RosterReads
                               /\ ~[q EXCEPT !.heard = FALSE].heard
    BY DEF RosterReads
  <2>2. \A r \in Detached(rosterReads) : r \in RosterReads /\ ~r.heard
    BY <2>1 DEF Detached, DashboardTyped
  <2> QED BY <2>2, ReadSent DEF Mounted
<1>3. CASE o = NoWorkspace
  <2>1. team' = NoTeam /\ install' = NoInstall
    BY <1>3 DEF Mounted
  <2>2. MountedOK'
    BY <1>1, <1>2, <1>3, <2>1 DEF MountedOK, NoTeam, NoInstall
  <2>3. TeamOK'
    BY <1>2, <1>3, <2>1 DEF TeamOK, NoTeam
  <2>4. InstallOK'
    BY <2>1 DEF InstallOK, NoInstall, Off, Sent
  <2> QED BY <1>1, <1>2, <2>1, <2>2, <2>3, <2>4, NoPages
<1>4. CASE o # NoWorkspace
  <2>1. team' = [NoTeam EXCEPT !.status = "loading"] /\ install' = [NoInstall EXCEPT !.status = "loading"]
    BY <1>4 DEF Mounted
  <2>2. /\ team' \in TeamPages /\ team'.status = "loading" /\ team'.notice = 0 /\ team'.made = 0
        /\ install' \in InstallPages /\ install'.status = "loading" /\ install'.key = 0 /\ install'.own = 0
        /\ install'.saving = Off /\ install'.rotating = Off
    BY <2>1, NoPages
  <2>3. MountedOK'
    BY <1>1, <1>2, <1>4, <2>2 DEF MountedOK
  <2>4. TeamOK'
    <3>1. \A r \in rosterReads' : r.heard => r.why = "load" /\ ~r.read
      BY <1>2, ReadSent
    <3>2. roster[o] \in Nat
      BY <1>4 DEF DashboardTyped
    <3> QED BY <1>2, <2>2, <3>1, <3>2 DEF TeamOK
  <2>5. InstallOK'
    BY <1>4, <2>2 DEF InstallOK, Off, Sent, DashboardTyped
  <2> QED BY <1>1, <1>2, <2>2, <2>3, <2>4, <2>5
<1> QED BY <1>3, <1>4

\* The context is read again, for what is chosen.
LEMMA ContextAsked ==
  ASSUME DashboardInv, NEW o \in Workspaces, chosen' = o, AskContext(o)
  PROVE  /\ \A r \in contextReads' : ContextRead(r)
         /\ ContextOK'
         /\ \A s \in {"team", "install"} : s \in crossing' <=> s \in crossing
<1> DEFINE n == CHOOSE i \in 0..Cardinality(contextReads) : \A r \in contextReads : r.no # i
           x == [no |-> n, org |-> o, read |-> FALSE, owner |-> FALSE]
<1>1. contextReads' = contextReads \cup {x} /\ Sends("context", contextReads)
  BY DEF AskContext
<1> HIDE DEF n
<1>2. x.org = o /\ ~x.read /\ x.org \in Workspaces /\ x.owner \in BOOLEAN /\ x.read \in BOOLEAN
  OBVIOUS
<1>3. ContextRead(x)
  BY Zenon DEF ContextRead
<1> HIDE DEF x
<1>4. "context" \notin crossing' => contextReads' = {x}
  BY <1>1 DEF Sends
<1> QED BY <1>1, <1>2, <1>3, <1>4 DEF DashboardInv, DashboardTyped, ContextOK, Sends

\* The roster is read again, by a section that is there.
LEMMA Reloaded ==
  ASSUME DashboardInv, NEW why \in {"act", "retry", "transfer"}, Reload(rosterReads, why),
         team' \in TeamPages, team'.status = team.status, team.status # "absent",
         why = "act" => team.act # "reading" /\ team'.act = "reading",
         why # "act" => team' = team,
         team'.notice = team.notice, team'.shown = team.shown,
         team'.made \in {team.made, 0}, team.act = "reading" => team' = team,
         UNCHANGED <<context, roster, doubtful>>
  PROVE  /\ rosterReads' \subseteq RosterReads
         /\ \A r \in rosterReads' : r \in rosterReads \/ r = Unread(why)
         /\ TeamOK'
         /\ \A s \in {"context", "install"} : s \in crossing' <=> s \in crossing
<1> DEFINE x == Unread(why)
<1>1. rosterReads' = rosterReads \cup {x} /\ Sends("team", {r \in rosterReads : r.heard})
  BY DEF Reload
<1>2. x \in RosterReads /\ x.why = why /\ ~x.read /\ x.heard
  BY ReadSent
<1> HIDE DEF x
<1>3. "team" \notin crossing' => \A r \in rosterReads' : r.heard => r = x
  BY <1>1 DEF Sends
<1>4. \A r \in rosterReads' : r.heard /\ r.why = "act" =>
        /\ team'.act = "reading"
        /\ \A q \in rosterReads' : q.heard /\ q.why = "act" => q = r
  BY <1>1, <1>2 DEF DashboardInv, TeamOK
<1>5. team'.status # "absent" =>
        team'.notice <= roster[context.org] /\ team'.made <= roster[context.org]
  BY DEF DashboardInv, DashboardTyped, MountedOK, TeamOK, TeamPages
<1>6. TeamOK'
  BY <1>2, <1>3, <1>4, <1>5 DEF TeamOK, DashboardInv
<1> QED BY <1>1, <1>2, <1>6 DEF DashboardInv, DashboardTyped, Sends, x

----------------------------------------------------------------------------
(* The steps.                                                              *)

LEMMA DashChoose ==
  ASSUME DashboardInv, NEW o \in Workspaces, Choose(o)
  PROVE  DashboardInv'
<1> USE DEF DashboardInv
<1>1. /\ \A r \in contextReads' : ContextRead(r)
      /\ ContextOK'
      /\ \A s \in {"team", "install"} : s \in crossing' <=> s \in crossing
  BY ContextAsked DEF Choose
<1>2. /\ UNCHANGED <<context, team, rosterReads, transfer, install, owned, roster, key, doubtful, unheard>>
      /\ chosen' \in Workspaces /\ acts' \in Nat
  BY DEF Choose, world, DashboardTyped
<1>3. TeamOK' /\ InstallOK'
  BY <1>1, <1>2, TeamKept, InstallKept DEF DashboardTyped
<1> QED BY <1>1, <1>2, <1>3 DEF DashboardTyped, MountedOK

Told(r, read, owns) == [r EXCEPT !.read = read, !.owner = owns]

LEMMA ContextServed ==
  ASSUME NEW r, NEW a, NEW b, NEW c, NEW d, NEW e, NEW f,
         r = [no |-> a, org |-> b, read |-> c, owner |-> d]
  PROVE  Told(r, e, f) = [no |-> a, org |-> b, read |-> e, owner |-> f]
<1> DEFINE y == [no |-> a, org |-> b, read |-> e, owner |-> d]
<1>1. [[no |-> a, org |-> b, read |-> c, owner |-> d] EXCEPT !.read = e] = y
  OBVIOUS
<1>2. [y EXCEPT !.owner = f] = [no |-> a, org |-> b, read |-> e, owner |-> f]
  OBVIOUS
<1>3. [r EXCEPT !.read = e] = y
  BY <1>1, Zenon
<1> HIDE DEF y
<1> QED BY <1>2, <1>3, Zenon DEF Told

LEMMA DashServeContext ==
  ASSUME DashboardInv, NEW r \in contextReads, ServeContext(r)
  PROVE  DashboardInv'
<1> USE DEF DashboardInv
<1> DEFINE v == r.org \in owned
           x == [no |-> r.no, org |-> r.org, read |-> TRUE, owner |-> v]
<1>1. contextReads' = (contextReads \ {r}) \cup {x}
  <2>1. r = [no |-> r.no, org |-> r.org, read |-> r.read, owner |-> r.owner]
    BY DEF DashboardTyped, ContextRead
  <2>2. contextReads' = (contextReads \ {r}) \cup {Told(r, TRUE, v)}
    BY DEF ServeContext, Told
  <2> HIDE DEF v
  <2>3. Told(r, TRUE, v) = x
    <3> DEFINE a == r.no
               b == r.org
               c == r.read
               d == r.owner
               e == TRUE
    <3>1. r = [no |-> a, org |-> b, read |-> c, owner |-> d]
      BY <2>1
    <3> HIDE DEF a, b, c, d, e
    <3>2. Told(r, e, v) = [no |-> a, org |-> b, read |-> e, owner |-> v]
      BY <3>1, ContextServed
    <3> QED BY <3>2 DEF a, b, e
  <2> QED BY <2>2, <2>3
<1>2. x.org = r.org /\ x.read /\ (x.owner <=> r.org \in owned) /\ x.read \in BOOLEAN /\ x.owner \in BOOLEAN
  <2>1. v \in BOOLEAN /\ (v <=> r.org \in owned)
    OBVIOUS
  <2> HIDE DEF v
  <2>2. x.org = r.org /\ x.read = TRUE /\ x.owner = v
    OBVIOUS
  <2> QED BY <2>1, <2>2
<1>3. x = [no |-> x.no, org |-> x.org, read |-> x.read, owner |-> x.owner]
  BY Zenon
<1> HIDE DEF x
<1>4. ContextRead(x) /\ \A q \in contextReads' : ContextRead(q)
  BY <1>1, <1>2, <1>3 DEF ContextRead, DashboardTyped
<1>5. UNCHANGED <<chosen, context, team, rosterReads, transfer, install, owned, roster, key, acts,
                  crossing, doubtful, unheard>>
  BY DEF ServeContext, world, history
<1>6. ContextOK'
  <2>1. "context" \notin crossing => contextReads' = {x} /\ r.org = chosen
    BY <1>1 DEF ContextOK
  <2>2. contextReads' # {}
    BY <1>1
  <2> QED BY <1>2, <1>5, <2>1, <2>2 DEF ContextOK
<1>7. TeamOK' /\ InstallOK'
  BY <1>5, TeamKept, InstallKept DEF DashboardTyped
<1> QED BY <1>4, <1>5, <1>6, <1>7 DEF DashboardTyped, MountedOK

LEMMA DashContextAnswered ==
  ASSUME DashboardInv, NEW r \in contextReads, ContextAnswered(r)
  PROVE  DashboardInv'
<1> USE DEF DashboardInv
<1>1. r.org \in Workspaces /\ r.owner \in BOOLEAN /\ r.org # NoWorkspace
  BY DashboardAssumption DEF DashboardTyped, ContextRead
<1>2. /\ contextReads' = contextReads \ {r} /\ context' = [org |-> r.org, owner |-> r.owner]
      /\ doubtful' = IF "context" \in crossing THEN doubtful \cup {"context"} ELSE doubtful \ {"context"}
      /\ r.read
      /\ UNCHANGED <<chosen, owned, roster, key, acts, crossing, unheard>>
  BY DEF ContextAnswered, Applies, world
<1>3. context' \in [org : Workspaces \cup {NoWorkspace}, owner : BOOLEAN] /\ context'.org = r.org
  BY <1>1, <1>2
<1>4. /\ team' \in TeamPages /\ transfer' \in Transfers /\ install' \in InstallPages
      /\ rosterReads' \subseteq RosterReads
      /\ MountedOK' /\ TeamOK' /\ InstallOK'
      /\ transfer'.pc \in {"made", "reading"} <=> transfer.pc \in {"made", "reading"}
  <2>1. CASE r.org # context.org
    <3>1. Mounted(r.org)
      BY <2>1 DEF ContextAnswered
    <3> QED BY <1>1, <1>2, <1>3, <3>1, MountedAnew
  <2>2. CASE r.org = context.org
    <3>1. UNCHANGED <<team, rosterReads, install>>
          /\ (transfer' \in {transfer, Formless} \/ (transfer.pc = "confirming" /\ transfer' = NoTransfer))
      BY <2>2 DEF ContextAnswered, Formless
    <3>2. /\ transfer' \in Transfers
          /\ transfer'.form => transfer'.home /\ transfer.form
          /\ transfer'.pc # "none" => transfer'.org \in Workspaces
          /\ transfer'.home => transfer'.pc # "none" /\ transfer'.org = context.org /\ transfer.home
          /\ transfer'.pc \in {"made", "reading"} <=> transfer.pc \in {"made", "reading"}
      BY <3>1, Formlessly DEF DashboardTyped
    <3>3. MountedOK'
      BY <1>1, <1>3, <2>2, <3>1, <3>2 DEF MountedOK
    <3>4. TeamOK' /\ InstallOK'
      BY <1>2, <1>3, <2>2, <3>1, TeamKept, InstallKept DEF DashboardTyped
    <3> QED BY <3>1, <3>2, <3>3, <3>4 DEF DashboardTyped
  <2> QED BY <2>1, <2>2
<1>5. ContextOK'
  <2>1. Stale' <=> Stale
    BY <1>2, <1>4 DEF Stale
  <2>2. "context" \notin crossing => contextReads' = {} /\ r.org = chosen /\ ((r.owner <=> r.org \in owned) \/ Stale)
    BY <1>2 DEF ContextOK
  <2>3. "context" \in crossing => "context" \in doubtful'
    BY <1>2
  <2>4. (r.owner <=> chosen \in owned) => r.owner = (chosen \in owned)
    BY <1>1
  <2> QED BY <1>2, <2>1, <2>2, <2>3, <2>4 DEF ContextOK
<1> QED BY <1>2, <1>3, <1>4, <1>5 DEF DashboardTyped

LEMMA NoContextTyped == NoContext \in [org : Workspaces \cup {NoWorkspace}, owner : BOOLEAN]
                        /\ NoContext.org = NoWorkspace
BY DEF NoContext

LEMMA DashContextFails ==
  ASSUME DashboardInv, NEW r \in contextReads, ContextFails(r)
  PROVE  DashboardInv'
<1> USE DEF DashboardInv
<1>1. /\ contextReads' = contextReads \ {r} /\ context' = NoContext
      /\ UNCHANGED <<chosen, owned, roster, key, acts, crossing, doubtful, unheard>>
  BY DEF ContextFails, world, history
<1>2. /\ team' \in TeamPages /\ transfer' \in Transfers /\ install' \in InstallPages
      /\ rosterReads' \subseteq RosterReads
      /\ MountedOK' /\ TeamOK' /\ InstallOK'
      /\ transfer'.pc \in {"made", "reading"} <=> transfer.pc \in {"made", "reading"}
  <2>1. CASE context.org = NoWorkspace
    <3>1. UNCHANGED <<team, rosterReads, install, transfer>> /\ context' = context
      BY <1>1, <2>1 DEF ContextFails, MountedOK
    <3>2. TeamOK' /\ InstallOK'
      BY <1>1, <3>1, TeamKept, InstallKept DEF DashboardTyped
    <3> QED BY <3>1, <3>2 DEF DashboardTyped, MountedOK
  <2>2. CASE context.org # NoWorkspace
    <3>1. Mounted(NoWorkspace)
      BY <2>2 DEF ContextFails
    <3> QED BY <1>1, <3>1, MountedAnew, NoContextTyped
  <2> QED BY <2>1, <2>2
<1>3. ContextOK'
  <2>1. Stale' <=> Stale
    BY <1>1, <1>2 DEF Stale
  <2>2. "context" \notin crossing => contextReads' = {}
    BY <1>1 DEF ContextOK
  <2> QED BY <1>1, <2>1, <2>2 DEF ContextOK
<1> QED BY <1>1, <1>2, <1>3, NoContextTyped DEF DashboardTyped

\* A roster read that is answered by the server.
LEMMA DashServeRoster ==
  ASSUME DashboardInv, NEW r \in rosterReads, ServeRoster(r)
  PROVE  DashboardInv'
<1> USE DEF DashboardInv
<1> DEFINE n == IF r.heard THEN roster[context.org] ELSE 0
           y == [r EXCEPT !.read = TRUE]
           x == [y EXCEPT !.at = n]
<1>1. /\ rosterReads' = (rosterReads \ {r}) \cup {x}
      /\ UNCHANGED <<chosen, context, contextReads, team, transfer, install, owned, roster, key, acts,
                     crossing, doubtful, unheard>>
  BY DEF ServeRoster, world, history
<1>2. r \in RosterReads /\ n \in Nat /\ (r.heard => n = roster[context.org])
  BY DEF DashboardTyped, MountedOK
<1> HIDE DEF n
<1>3. /\ y \in RosterReads /\ y.why = r.why /\ y.heard = r.heard /\ y.read
  BY <1>2 DEF RosterReads
<1> HIDE DEF y
<1>4. x \in RosterReads /\ x.why = r.why /\ x.heard = r.heard /\ x.read /\ x.at = n
  BY <1>2, <1>3 DEF RosterReads
<1> HIDE DEF x
<1>5. TeamOK'
  <2>1. \A q \in rosterReads' : q.heard /\ q.why = "act" =>
          /\ team.act = "reading"
          /\ \A p \in rosterReads' : p.heard /\ p.why = "act" => p = q
    BY <1>1, <1>4 DEF TeamOK
  <2>2. r.heard => team.notice <= n /\ team.made <= n
    BY <1>2 DEF MountedOK, TeamOK, DashboardTyped
  <2>3. ASSUME "team" \notin crossing, NEW q \in rosterReads', q.heard
        PROVE  /\ \A p \in rosterReads' : p.heard => p = q
               /\ q.read => q.at >= team.notice
               /\ q.read /\ q.why = "act" => q.at >= team.made
    <3>1. CASE r.heard
      <4>1. \A p \in rosterReads' : p.heard => p = x
        BY <1>1, <2>3, <3>1 DEF TeamOK
      <4> QED BY <1>2, <1>4, <2>2, <2>3, <3>1, <4>1 DEF DashboardTyped, TeamPages
    <3>2. CASE ~r.heard
      <4>1. \A p \in rosterReads' : p.heard => p \in rosterReads
        BY <1>1, <1>4, <3>2
      <4> QED BY <2>3, <4>1 DEF TeamOK
    <3> QED BY <3>1, <3>2
  <2> QED BY <1>1, <2>1, <2>3 DEF TeamOK
<1>6. ContextOK' /\ InstallOK'
  BY <1>1, ContextKept, InstallKept DEF Stale
<1>7. MountedOK'
  BY <1>1, <1>4 DEF MountedOK
<1> QED BY <1>1, <1>4, <1>5, <1>6, <1>7 DEF DashboardTyped

\* The team section after an answer, and after the one that a change waits for.
Listed(status, shown) == [team EXCEPT !.status = status, !.shown = shown]
Announced(status, shown) ==
  [team EXCEPT !.status = status, !.shown = shown, !.act = "none", !.notice = team.made]

LEMMA TeamAfter ==
  ASSUME team \in TeamPages, NEW status \in {"absent", "loading", "ready", "error"}, NEW shown \in Nat
  PROVE  /\ Listed(status, shown) \in TeamPages /\ Listed(status, shown).status = status
         /\ Listed(status, shown).shown = shown /\ Listed(status, shown).act = team.act
         /\ Listed(status, shown).notice = team.notice /\ Listed(status, shown).made = team.made
         /\ Announced(status, shown) \in TeamPages /\ Announced(status, shown).status = status
         /\ Announced(status, shown).shown = shown /\ Announced(status, shown).act = "none"
         /\ Announced(status, shown).notice = team.made /\ Announced(status, shown).made = team.made
<1> DEFINE a == [team EXCEPT !.status = status]
           b == [a EXCEPT !.shown = shown]
           c == [b EXCEPT !.act = "none"]
           d == [c EXCEPT !.notice = team.made]
<1>1. /\ a \in TeamPages /\ a.status = status /\ a.act = team.act
      /\ a.notice = team.notice /\ a.made = team.made
  BY DEF TeamPages
<1>2. Listed(status, shown) = b /\ Announced(status, shown) = d
  BY Zenon DEF Listed, Announced
<1> HIDE DEF a
<1>3. /\ b \in TeamPages /\ b.status = status /\ b.act = team.act
      /\ b.notice = team.notice /\ b.made = team.made /\ b.shown = shown
  BY <1>1 DEF TeamPages
<1> HIDE DEF b
<1>4. /\ c \in TeamPages /\ c.status = status /\ c.act = "none"
      /\ c.notice = team.notice /\ c.made = team.made /\ c.shown = shown
  BY <1>3 DEF TeamPages
<1> HIDE DEF c
<1>5. /\ d \in TeamPages /\ d.status = status /\ d.act = "none"
      /\ d.notice = team.made /\ d.made = team.made /\ d.shown = shown
  BY <1>4 DEF TeamPages
<1> HIDE DEF d
<1> QED BY <1>2, <1>3, <1>5

\* What such an answer tells: the roster it read, or nothing new.
Tells(r, status, shown) ==
  status = "ready" =>
    \/ r.read /\ shown = r.at /\ ("team" \in crossing => "team" \in doubtful')
    \/ /\ status = team.status /\ shown = team.shown
       /\ "team" \in doubtful \/ r.why = "act" => "team" \in doubtful'

LEMMA DashResumedTeam ==
  ASSUME DashboardInv, NEW r \in rosterReads, NEW status \in {"absent", "loading", "ready", "error"},
         NEW shown \in Nat,
         Resumed(r, status, shown), rosterReads' = rosterReads \ {r},
         UNCHANGED <<context, roster>>,
         r.heard => status # "absent" /\ Tells(r, status, shown),
         ~r.heard => ("team" \in doubtful => "team" \in doubtful'),
         "team" \in crossing' <=> "team" \in crossing
  PROVE  TeamOK'
<1> USE DEF DashboardInv
<1>1. r \in RosterReads /\ team \in TeamPages
  BY DEF DashboardTyped
<1>2. /\ ~r.heard => team' = team
      /\ r.heard /\ r.why = "act" => team' = Announced(status, shown)
      /\ r.heard /\ r.why # "act" => team' = Listed(status, shown)
  BY DEF Resumed, Announced, Listed
<1>3. CASE ~r.heard
  BY <1>2, <1>3 DEF TeamOK
<1>4. CASE r.heard
  <2>1. /\ team'.status = status /\ team'.shown = shown /\ team'.made = team.made
        /\ r.why = "act" => team'.act = "none" /\ team'.notice = team.made
        /\ r.why # "act" => team'.act = team.act /\ team'.notice = team.notice
    BY <1>1, <1>2, <1>4, TeamAfter
  <2>2. "team" \notin crossing => \A q \in rosterReads' : ~q.heard
    BY <1>4 DEF TeamOK
  <2>3. team.status # "absent"
    BY <1>4 DEF MountedOK
  <2>4. team'.notice <= roster[context.org] /\ team'.made <= roster[context.org]
    BY <2>1, <2>3 DEF TeamOK
  <2>5. \A q \in rosterReads' : q.heard /\ q.why = "act" => team'.act = "reading"
    <3>1. CASE r.why = "act"
      BY <1>4, <3>1 DEF TeamOK
    <3>2. CASE r.why # "act"
      BY <2>1, <3>2 DEF TeamOK
    <3> QED BY <3>1, <3>2
  <2>6. status = "ready" /\ "team" \notin doubtful' => team'.shown >= team'.notice
    BY <1>4, <2>1 DEF TeamOK, Tells
  <2> QED BY <2>1, <2>2, <2>4, <2>5, <2>6 DEF TeamOK
<1> QED BY <1>3, <1>4

LEMMA DashResumed ==
  ASSUME DashboardInv, NEW r \in rosterReads, NEW status \in {"absent", "loading", "ready", "error"},
         NEW shown \in Nat,
         Resumed(r, status, shown), rosterReads' = rosterReads \ {r},
         UNCHANGED <<chosen, context, install, owned, roster, key, acts, unheard>>,
         \A s \in {"context", "install"} : s \in doubtful' <=> s \in doubtful,
         r.heard => status # "absent" /\ Tells(r, status, shown),
         ~r.heard => ("team" \in doubtful => "team" \in doubtful')
  PROVE  DashboardInv'
<1> USE DEF DashboardInv
<1>1. r \in RosterReads /\ team \in TeamPages /\ transfer \in Transfers
  BY DEF DashboardTyped
<1>2. /\ ~r.heard => team' = team
      /\ r.heard /\ r.why = "act" => team' = Announced(status, shown)
      /\ r.heard /\ r.why # "act" => team' = Listed(status, shown)
  BY DEF Resumed, Announced, Listed
<1>3. team' \in TeamPages /\ (team'.status = "absent" <=> team.status = "absent")
      /\ (team.status = "absent" => team' = team)
  BY <1>1, <1>2, TeamAfter DEF MountedOK
<1>4. CASE r.why = "transfer"
  <2>1. AskContext(chosen) /\ transfer' = NoTransfer
    BY <1>4 DEF Resumed
  <2>2. /\ \A q \in contextReads' : ContextRead(q)
        /\ ContextOK'
        /\ \A s \in {"team", "install"} : s \in crossing' <=> s \in crossing
    BY <2>1, ContextAsked DEF DashboardTyped
  <2>3. MountedOK'
    BY <1>3, <2>1 DEF MountedOK, NoTransfer
  <2>4. transfer' \in Transfers
    BY <2>1, NoPages
  <2> QED BY <1>3, <2>2, <2>3, <2>4, DashResumedTeam, InstallKept DEF DashboardTyped
<1>5. CASE r.why # "transfer"
  <2>1. /\ UNCHANGED <<contextReads, crossing>>
        /\ (transfer' \in {transfer, Formless} \/ (transfer.pc = "confirming" /\ transfer' = NoTransfer))
    BY <1>5 DEF Resumed, Formless
  <2>2. /\ transfer' \in Transfers
        /\ transfer'.form => transfer'.home /\ transfer.form
        /\ transfer'.pc # "none" => transfer'.org \in Workspaces
        /\ transfer'.home => transfer'.pc # "none" /\ transfer'.org = context.org /\ transfer.home
        /\ transfer'.pc \in {"made", "reading"} <=> transfer.pc \in {"made", "reading"}
    BY <2>1, Formlessly DEF DashboardTyped
  <2>3. MountedOK'
    BY <1>3, <2>2 DEF MountedOK
  <2>4. ContextOK'
    BY <2>1, <2>2, ContextKept DEF Stale
  <2>5. TeamOK'
    BY <2>1, DashResumedTeam
  <2>6. InstallOK'
    BY <2>1, InstallKept
  <2> QED BY <1>3, <2>1, <2>2, <2>3, <2>4, <2>5, <2>6 DEF DashboardTyped
<1> QED BY <1>4, <1>5

LEMMA DashRosterAnswered ==
  ASSUME DashboardInv, NEW r \in rosterReads, RosterAnswered(r)
  PROVE  DashboardInv'
<1>1. /\ Resumed(r, "ready", r.at) /\ rosterReads' = rosterReads \ {r} /\ r.read
      /\ UNCHANGED <<chosen, context, install, owned, roster, key, acts, unheard>>
  BY DEF RosterAnswered, world
<1>2. r.at \in Nat /\ "ready" \in {"absent", "loading", "ready", "error"}
  BY DEF DashboardInv, DashboardTyped, RosterReads
<1>3. /\ \A s \in {"context", "install"} : s \in doubtful' <=> s \in doubtful
      /\ r.heard /\ "team" \in crossing => "team" \in doubtful'
      /\ ~r.heard => ("team" \in doubtful => "team" \in doubtful')
  BY DEF RosterAnswered, Applies
<1> QED BY <1>1, <1>2, <1>3, DashResumed DEF Tells

LEMMA DashRosterFails ==
  ASSUME DashboardInv, NEW r \in rosterReads, RosterFails(r)
  PROVE  DashboardInv'
<1>1. /\ Resumed(r, "error", team.shown) /\ rosterReads' = rosterReads \ {r}
      /\ UNCHANGED <<chosen, context, install, owned, roster, key, acts, unheard, doubtful>>
  BY DEF RosterFails, world
<1>2. team.shown \in Nat /\ "error" \in {"absent", "loading", "ready", "error"}
  BY DEF DashboardInv, DashboardTyped, TeamPages
<1> QED BY <1>1, <1>2, DashResumed DEF Tells

LEMMA DashRosterUnauthorized ==
  ASSUME DashboardInv, NEW r \in rosterReads, RosterUnauthorized(r)
  PROVE  DashboardInv'
<1>1. /\ Resumed(r, team.status, team.shown) /\ rosterReads' = rosterReads \ {r}
      /\ UNCHANGED <<chosen, context, install, owned, roster, key, acts, unheard>>
  BY DEF RosterUnauthorized, world
<1>2. /\ team.shown \in Nat /\ team.status \in {"absent", "loading", "ready", "error"}
      /\ r.heard => team.status # "absent" /\ team.notice <= roster[context.org]
  BY DEF DashboardInv, DashboardTyped, TeamPages, MountedOK, TeamOK
<1>3. /\ \A s \in {"context", "install"} : s \in doubtful' <=> s \in doubtful
      /\ "team" \in doubtful \/ r.why = "act" => "team" \in doubtful'
      /\ ~r.heard => ("team" \in doubtful => "team" \in doubtful')
  BY DEF RosterUnauthorized, DashboardInv, TeamOK
<1> QED BY <1>1, <1>2, <1>3, DashResumed DEF Tells

LEMMA DashRetry ==
  ASSUME DashboardInv, Retry
  PROVE  DashboardInv'
<1> USE DEF DashboardInv
<1>1. /\ Reload(rosterReads, "retry") /\ team.status = "error"
      /\ UNCHANGED <<chosen, context, contextReads, team, transfer, install, owned, roster, key, acts,
                     doubtful, unheard>>
  BY DEF Retry, world
<1>2. /\ rosterReads' \subseteq RosterReads
      /\ \A r \in rosterReads' : r \in rosterReads \/ r = Unread("retry")
      /\ TeamOK'
      /\ \A s \in {"context", "install"} : s \in crossing' <=> s \in crossing
  BY <1>1, Reloaded DEF DashboardTyped
<1>3. ContextOK' /\ InstallOK'
  BY <1>1, <1>2, ContextKept, InstallKept DEF Stale
<1>4. MountedOK'
  BY <1>1, <1>2 DEF MountedOK
<1> QED BY <1>1, <1>2, <1>3, <1>4 DEF DashboardTyped

\* A step of the team section that reads nothing.
LEMMA DashTeamStep ==
  ASSUME DashboardInv, team' \in TeamPages, team.status # "absent", team'.status = team.status,
         team'.shown = team.shown, team'.notice \in {0, team.notice},
         team.act # "reading",
         roster' \in [Workspaces -> Nat], \A o \in Workspaces : roster'[o] >= roster[o],
         team'.made <= roster'[context.org], acts' \in Nat,
         UNCHANGED <<chosen, context, contextReads, rosterReads, transfer, install, owned, key,
                     crossing, doubtful, unheard>>
  PROVE  DashboardInv'
<1> USE DEF DashboardInv
<1>1. ContextOK' /\ InstallOK'
  BY ContextKept, InstallKept DEF Stale
<1>2. MountedOK'
  BY DEF MountedOK
<1>3. TeamOK'
  <2>1. context.org \in Workspaces
    BY DEF MountedOK, DashboardTyped
  <2>2. team.notice \in Nat /\ team.shown \in Nat /\ roster[context.org] \in Nat /\ roster'[context.org] \in Nat
    BY <2>1 DEF DashboardTyped, TeamPages
  <2>3. \A r \in rosterReads : r.at \in Nat /\ (r.heard => r.why # "act")
    BY DEF DashboardTyped, RosterReads, TeamOK
  <2>4. team'.notice <= roster'[context.org]
    BY <2>1, <2>2 DEF TeamOK
  <2> QED BY <2>2, <2>3, <2>4 DEF TeamOK
<1> QED BY <1>1, <1>2, <1>3 DEF DashboardTyped

LEMMA DashChange ==
  ASSUME DashboardInv, Change
  PROVE  DashboardInv'
<1> DEFINE a == [team EXCEPT !.act = "sent"]
           b == [a EXCEPT !.notice = 0]
           c == [b EXCEPT !.made = 0]
<1>1. /\ team.status = "ready" /\ team.act = "none" /\ acts' \in Nat /\ team' = c
      /\ UNCHANGED <<chosen, context, contextReads, rosterReads, transfer, install, owned, roster, key,
                     crossing, doubtful, unheard>>
  BY DEF Change, world, history, DashboardInv, DashboardTyped
<1>2. team \in TeamPages /\ context.org \in Workspaces /\ roster[context.org] \in Nat
      /\ roster \in [Workspaces -> Nat]
  BY <1>1 DEF DashboardInv, DashboardTyped, MountedOK
<1>3. a \in TeamPages /\ a.status = team.status /\ a.shown = team.shown
  BY <1>2 DEF TeamPages
<1> HIDE DEF a
<1>4. b \in TeamPages /\ b.status = team.status /\ b.shown = team.shown /\ b.notice = 0
  BY <1>3 DEF TeamPages
<1> HIDE DEF b
<1>5. c \in TeamPages /\ c.status = team.status /\ c.shown = team.shown /\ c.notice = 0 /\ c.made = 0
  BY <1>4 DEF TeamPages
<1> HIDE DEF c
<1>6. \A o \in Workspaces : roster[o] >= roster[o]
  BY <1>2
<1> QED BY <1>1, <1>2, <1>5, <1>6, DashTeamStep

LEMMA DashServeChange ==
  ASSUME DashboardInv, ServeChange
  PROVE  DashboardInv'
<1>1. /\ team.act = "sent" /\ UNCHANGED <<acts, chosen, context, contextReads, rosterReads, transfer, install,
                                          owned, key, crossing, doubtful, unheard>>
  BY DEF ServeChange, history
<1>2. /\ team \in TeamPages /\ context.org \in Workspaces /\ roster \in [Workspaces -> Nat]
      /\ roster[context.org] \in Nat /\ acts \in Nat /\ team.status # "absent"
      /\ \A o \in Workspaces : roster[o] \in Nat
      /\ team.made <= roster[context.org]
  <2>1. team.status # "absent"
    BY <1>1 DEF DashboardInv, MountedOK, NoTeam
  <2> QED BY <2>1 DEF DashboardInv, DashboardTyped, MountedOK, TeamOK
<1>3. CASE /\ roster' = [roster EXCEPT ![context.org] = @ + 1]
           /\ team' = [team EXCEPT !.act = "made", !.made = roster[context.org] + 1]
  <2> DEFINE n == roster[context.org] + 1
             a == [team EXCEPT !.act = "made"]
             b == [a EXCEPT !.made = n]
  <2>1. team' = b
    BY <1>3
  <2>2. n \in Nat /\ roster'[context.org] = n /\ roster' \in [Workspaces -> Nat]
        /\ \A o \in Workspaces : roster'[o] >= roster[o]
    BY <1>2, <1>3
  <2> HIDE DEF n
  <2>3. a \in TeamPages /\ a.status = team.status /\ a.shown = team.shown /\ a.notice = team.notice
    BY <1>2 DEF TeamPages
  <2> HIDE DEF a
  <2>4. b \in TeamPages /\ b.status = team.status /\ b.shown = team.shown /\ b.notice = team.notice
        /\ b.made = n
    BY <2>2, <2>3 DEF TeamPages
  <2> HIDE DEF b
  <2>5. team'.made <= roster'[context.org]
    BY <2>1, <2>2, <2>4
  <2> QED BY <1>1, <1>2, <2>1, <2>2, <2>4, <2>5, DashTeamStep
<1>4. CASE team' = [team EXCEPT !.act = "refused"] /\ UNCHANGED roster
  <2>1. team' \in TeamPages /\ team'.status = team.status /\ team'.shown = team.shown
        /\ team'.notice = team.notice /\ team'.made = team.made
    BY <1>2, <1>4 DEF TeamPages
  <2>2. \A o \in Workspaces : roster'[o] >= roster[o]
    BY <1>2, <1>4
  <2> QED BY <1>1, <1>2, <1>4, <2>1, <2>2, DashTeamStep
<1> QED BY <1>3, <1>4 DEF ServeChange

\* The roster is read because of a change that was answered, or failed.
LEMMA DashChangeRead ==
  ASSUME DashboardInv, team.act \in {"sent", "made", "refused"}, Reload(rosterReads, "act"),
         team' \in TeamPages, team'.status = team.status, team'.act = "reading",
         team'.shown = team.shown, team'.notice = team.notice, team'.made \in {team.made, 0},
         UNCHANGED <<chosen, context, contextReads, transfer, install, owned, roster, key, acts,
                     doubtful, unheard>>
  PROVE  DashboardInv'
<1> USE DEF DashboardInv
<1>1. team.status # "absent"
  BY DEF MountedOK, NoTeam
<1>2. /\ rosterReads' \subseteq RosterReads
      /\ \A r \in rosterReads' : r \in rosterReads \/ r = Unread("act")
      /\ TeamOK'
      /\ \A s \in {"context", "install"} : s \in crossing' <=> s \in crossing
  BY <1>1, Reloaded
<1>3. ContextOK' /\ InstallOK'
  BY <1>2, ContextKept, InstallKept DEF Stale
<1>4. MountedOK'
  BY <1>1, <1>2 DEF MountedOK
<1> QED BY <1>2, <1>3, <1>4 DEF DashboardTyped

LEMMA DashChangeAnswered ==
  ASSUME DashboardInv, ChangeAnswered
  PROVE  DashboardInv'
<1>1. team' \in TeamPages /\ team'.status = team.status /\ team'.act = "reading"
      /\ team'.shown = team.shown /\ team'.notice = team.notice /\ team'.made = team.made
  <2>1. team' = [team EXCEPT !.act = "reading"] /\ team \in TeamPages
    BY DEF ChangeAnswered, DashboardInv, DashboardTyped
  <2> QED BY <2>1 DEF TeamPages
<1> QED BY <1>1, DashChangeRead DEF ChangeAnswered, world

LEMMA DashChangeFails ==
  ASSUME DashboardInv, ChangeFails
  PROVE  DashboardInv'
<1>1. team' \in TeamPages /\ team'.status = team.status /\ team'.act = "reading"
      /\ team'.shown = team.shown /\ team'.notice = team.notice /\ team'.made = 0
  <2> DEFINE a == [team EXCEPT !.act = "reading"]
  <2>1. team' = [a EXCEPT !.made = 0] /\ team \in TeamPages
    BY DEF ChangeFails, DashboardInv, DashboardTyped
  <2>2. a \in TeamPages /\ a.status = team.status /\ a.act = "reading"
        /\ a.shown = team.shown /\ a.notice = team.notice
    BY <2>1 DEF TeamPages
  <2> HIDE DEF a
  <2> QED BY <2>1, <2>2 DEF TeamPages
<1>2. /\ team.act \in {"sent", "made", "refused"} /\ Reload(rosterReads, "act")
      /\ UNCHANGED <<chosen, context, contextReads, transfer, install, owned, roster, key, acts,
                     doubtful, unheard>>
  BY DEF ChangeFails, world
<1> QED BY <1>1, <1>2, DashChangeRead

LEMMA DashChangeUnauthorized ==
  ASSUME DashboardInv, ChangeUnauthorized
  PROVE  DashboardInv'
<1>1. /\ team.act = "sent" /\ team' = [team EXCEPT !.act = "none"]
      /\ UNCHANGED <<chosen, context, contextReads, rosterReads, transfer, install, owned, roster, key,
                     acts, crossing, doubtful, unheard>>
  BY DEF ChangeUnauthorized, world, history
<1>2. /\ team' \in TeamPages /\ team'.status = team.status /\ team'.shown = team.shown
      /\ team'.notice = team.notice /\ team'.made = team.made
  BY <1>1 DEF DashboardInv, DashboardTyped, TeamPages
<1>3. /\ team.status # "absent" /\ roster \in [Workspaces -> Nat] /\ acts \in Nat
      /\ \A o \in Workspaces : roster[o] \in Nat
      /\ team.made <= roster[context.org]
  <2>1. team.status # "absent"
    BY <1>1 DEF DashboardInv, MountedOK, NoTeam
  <2> QED BY <2>1 DEF DashboardInv, DashboardTyped, TeamOK
<1>4. \A o \in Workspaces : roster'[o] >= roster[o]
  BY <1>1, <1>3
<1> QED BY <1>1, <1>2, <1>3, <1>4, DashTeamStep

\* A step of the transfer that reads nothing.
LEMMA DashTransferStep ==
  ASSUME DashboardInv, transfer' \in Transfers,
         transfer'.form => transfer'.home,
         transfer'.pc # "none" => transfer'.org \in Workspaces,
         transfer'.home => transfer'.pc # "none" /\ transfer'.org = context.org,
         Stale => Stale', owned' \subseteq Workspaces, owned' = owned \/ Stale',
         roster' \in [Workspaces -> Nat], \A o \in Workspaces : roster'[o] >= roster[o],
         acts' \in Nat, unheard' \in BOOLEAN,
         UNCHANGED <<chosen, context, contextReads, team, rosterReads, install, key, crossing, doubtful>>
  PROVE  DashboardInv'
<1> USE DEF DashboardInv
<1>1. ContextOK'
  <2>1. CASE owned' = owned
    BY <2>1, ContextKept
  <2>2. CASE Stale'
    BY <2>2 DEF ContextOK
  <2> QED BY <2>1, <2>2
<1>2. TeamOK' /\ InstallOK'
  BY TeamKept, InstallKept
<1>3. MountedOK'
  BY DEF MountedOK
<1> QED BY <1>1, <1>2, <1>3 DEF DashboardTyped

LEMMA RostersGrow ==
  ASSUME DashboardInv
  PROVE  /\ roster \in [Workspaces -> Nat] /\ \A o \in Workspaces : roster[o] >= roster[o]
         /\ owned \subseteq Workspaces /\ acts \in Nat /\ unheard \in BOOLEAN
         /\ transfer \in Transfers /\ team \in TeamPages
BY DEF DashboardInv, DashboardTyped

LEMMA DashAskToConfirm ==
  ASSUME DashboardInv, AskToConfirm
  PROVE  DashboardInv'
<1>1. /\ transfer'.pc = "confirming" /\ transfer'.org = context.org /\ transfer'.home /\ transfer'.form
      /\ context.org \in Workspaces /\ transfer' \in Transfers /\ acts' \in Nat
  <2>1. context.org \in Workspaces
    BY DEF AskToConfirm, DashboardInv, DashboardTyped, MountedOK
  <2>2. transfer' = [pc |-> "confirming", org |-> context.org, home |-> TRUE, form |-> TRUE] /\ acts' \in Nat
    BY DEF AskToConfirm, DashboardInv, DashboardTyped
  <2> QED BY <2>1, <2>2 DEF Transfers
<1>2. /\ transfer.pc = "none"
      /\ UNCHANGED <<chosen, context, contextReads, team, rosterReads, install, owned, roster, key,
                     crossing, doubtful, unheard>>
  BY DEF AskToConfirm, world, history
<1>3. Stale => Stale'
  BY <1>1, <1>2 DEF Stale
<1> QED BY <1>1, <1>2, <1>3, RostersGrow, DashTransferStep

\* A transfer that gets on.
LEMMA TransferMoves ==
  ASSUME DashboardInv, transfer.pc # "none", NEW pc \in {"sent", "made", "refused", "reading"},
         transfer' = [transfer EXCEPT !.pc = pc]
  PROVE  /\ transfer' \in Transfers /\ transfer'.pc = pc /\ transfer'.org = transfer.org
         /\ transfer'.home = transfer.home /\ transfer'.form = transfer.form
         /\ transfer'.form => transfer'.home
         /\ transfer'.org \in Workspaces
         /\ transfer'.home => transfer'.org = context.org
<1>1. /\ transfer' \in Transfers /\ transfer'.pc = pc /\ transfer'.org = transfer.org
      /\ transfer'.home = transfer.home /\ transfer'.form = transfer.form
  BY RostersGrow DEF Transfers
<1> QED BY <1>1 DEF DashboardInv, MountedOK

LEMMA NoTransferMoves ==
  NoTransfer \in Transfers /\ NoTransfer.pc = "none" /\ ~NoTransfer.home /\ ~NoTransfer.form
BY DEF NoTransfer, Transfers

LEMMA DashConfirm ==
  ASSUME DashboardInv, Confirm
  PROVE  DashboardInv'
<1>1. /\ transfer.pc = "confirming"
      /\ transfer' = NoTransfer \/ transfer' = [transfer EXCEPT !.pc = "sent"]
      /\ UNCHANGED <<acts, chosen, context, contextReads, team, rosterReads, install, owned, roster, key,
                     crossing, doubtful, unheard>>
  BY DEF Confirm, world, history
<1>2. /\ transfer' \in Transfers /\ (transfer'.form => transfer'.home)
      /\ transfer'.pc # "none" => transfer'.org \in Workspaces
      /\ transfer'.home => transfer'.pc # "none" /\ transfer'.org = context.org
  BY <1>1, TransferMoves, NoTransferMoves
<1>3. Stale => Stale'
  BY <1>1 DEF Stale
<1> QED BY <1>1, <1>2, <1>3, RostersGrow, DashTransferStep

LEMMA DashServeTransfer ==
  ASSUME DashboardInv, ServeTransfer
  PROVE  DashboardInv'
<1>1. /\ transfer.pc = "sent"
      /\ UNCHANGED <<acts, chosen, context, contextReads, team, rosterReads, install, key,
                     crossing, doubtful, unheard>>
  BY DEF ServeTransfer, history
<1>2. CASE /\ owned' = owned \ {transfer.org}
           /\ roster' = [roster EXCEPT ![transfer.org] = @ + 1]
           /\ transfer' = [transfer EXCEPT !.pc = "made"]
  <2>1. /\ transfer' \in Transfers /\ transfer'.pc = "made" /\ (transfer'.form => transfer'.home)
        /\ transfer'.org \in Workspaces /\ (transfer'.home => transfer'.org = context.org)
    BY <1>1, <1>2, TransferMoves
  <2>2. /\ roster' \in [Workspaces -> Nat] /\ \A o \in Workspaces : roster'[o] >= roster[o]
        /\ owned' \subseteq Workspaces
    <3>1. roster \in [Workspaces -> Nat] /\ owned \subseteq Workspaces /\ transfer.org \in Workspaces
      BY <1>1 DEF DashboardInv, DashboardTyped, MountedOK
    <3>2. roster' \in [Workspaces -> Nat] /\ owned' \subseteq Workspaces
      BY <1>2, <3>1
    <3>3. \A o \in Workspaces : roster'[o] = roster[o] \/ roster'[o] = roster[o] + 1
      BY <1>2, <3>1
    <3>4. \A o \in Workspaces : roster[o] \in Nat
      BY <3>1
    <3> QED BY <3>2, <3>3, <3>4
  <2>3. Stale'
    BY <2>1 DEF Stale
  <2> QED BY <1>1, <2>1, <2>2, <2>3, RostersGrow, DashTransferStep
<1>3. CASE transfer' = [transfer EXCEPT !.pc = "refused"] /\ UNCHANGED <<owned, roster>>
  <2>1. /\ transfer' \in Transfers /\ transfer'.pc = "refused" /\ (transfer'.form => transfer'.home)
        /\ transfer'.org \in Workspaces /\ (transfer'.home => transfer'.org = context.org)
    BY <1>1, <1>3, TransferMoves
  <2>2. Stale => Stale'
    BY <1>1 DEF Stale
  <2> QED BY <1>1, <1>3, <2>1, <2>2, RostersGrow, DashTransferStep
<1> QED BY <1>2, <1>3 DEF ServeTransfer

LEMMA DashServeAdrift ==
  ASSUME DashboardInv, NEW o \in Workspaces, ServeAdrift(o)
  PROVE  DashboardInv'
<1>1. /\ unheard' = TRUE /\ owned' = owned \ {o} /\ roster' = [roster EXCEPT ![o] = @ + 1]
      /\ UNCHANGED <<acts, chosen, context, contextReads, team, rosterReads, transfer, install, key,
                     crossing, doubtful>>
  BY DEF ServeAdrift, sections
<1>2. /\ owned \subseteq Workspaces /\ roster \in [Workspaces -> Nat] /\ acts \in Nat
      /\ \A p \in Workspaces : roster[p] \in Nat
  BY DEF DashboardInv, DashboardTyped
<1>3. roster' \in [Workspaces -> Nat] /\ owned' \subseteq Workspaces
  BY <1>1, <1>2
<1>4. \A p \in Workspaces : roster'[p] = roster[p] \/ roster'[p] = roster[p] + 1
  BY <1>1, <1>2
<1>5. \A p \in Workspaces : roster'[p] >= roster[p]
  BY <1>2, <1>4
<1>6. /\ transfer' \in Transfers /\ (transfer'.form => transfer'.home)
      /\ transfer'.pc # "none" => transfer'.org \in Workspaces
      /\ transfer'.home => transfer'.pc # "none" /\ transfer'.org = context.org
  BY <1>1 DEF DashboardInv, DashboardTyped, MountedOK
<1>7. Stale' /\ unheard' \in BOOLEAN
  BY <1>1, Zenon DEF Stale
<1> QED BY <1>1, <1>2, <1>3, <1>5, <1>6, <1>7, DashTransferStep

\* The roster is read because a transfer was answered, or failed.
LEMMA DashTransferRead ==
  ASSUME DashboardInv, transfer.pc # "none", transfer.home, Reload(rosterReads, "transfer"),
         transfer' = [transfer EXCEPT !.pc = "reading"],
         UNCHANGED <<chosen, context, contextReads, team, install, owned, roster, key, acts,
                     doubtful, unheard>>
  PROVE  DashboardInv'
<1> USE DEF DashboardInv
<1>1. /\ transfer' \in Transfers /\ transfer'.pc = "reading" /\ (transfer'.form => transfer'.home)
      /\ transfer'.org \in Workspaces /\ (transfer'.home => transfer'.org = context.org)
  BY TransferMoves
<1>2. team.status # "absent" /\ team \in TeamPages
  BY DashboardAssumption DEF MountedOK, DashboardTyped
<1>3. /\ rosterReads' \subseteq RosterReads
      /\ \A r \in rosterReads' : r \in rosterReads \/ r = Unread("transfer")
      /\ TeamOK'
      /\ \A s \in {"context", "install"} : s \in crossing' <=> s \in crossing
  BY <1>2, Reloaded
<1>4. ContextOK' /\ InstallOK'
  BY <1>1, <1>3, ContextKept, InstallKept DEF Stale
<1>5. MountedOK'
  BY <1>1, <1>2, <1>3 DEF MountedOK
<1> QED BY <1>1, <1>3, <1>4, <1>5 DEF DashboardTyped

LEMMA DashTransferAnswered ==
  ASSUME DashboardInv, TransferAnswered
  PROVE  DashboardInv'
<1> USE DEF DashboardInv
<1>1. /\ transfer.pc # "none" /\ transfer' = [transfer EXCEPT !.pc = "reading"]
      /\ UNCHANGED <<chosen, context, contextReads, team, install, owned, roster, key, acts,
                     doubtful, unheard>>
  BY DEF TransferAnswered, world
<1>2. CASE transfer.home
  BY <1>1, <1>2, DashTransferRead DEF TransferAnswered
<1>3. CASE ~transfer.home
  <2> DEFINE x == [Unread("transfer") EXCEPT !.heard = FALSE]
  <2>1. rosterReads' = rosterReads \cup {x} /\ UNCHANGED crossing
    BY <1>3 DEF TransferAnswered
  <2>2. x \in RosterReads /\ ~x.heard
    BY ReadSent DEF RosterReads
  <2> HIDE DEF x
  <2>3. /\ transfer' \in Transfers /\ transfer'.pc = "reading" /\ (transfer'.form => transfer'.home)
        /\ transfer'.org \in Workspaces /\ (transfer'.home => transfer'.org = context.org)
    BY <1>1, TransferMoves
  <2>4. TeamOK'
    BY <1>1, <2>1, <2>2 DEF TeamOK
  <2>5. ContextOK' /\ InstallOK'
    BY <1>1, <2>1, <2>3, ContextKept, InstallKept DEF Stale
  <2>6. MountedOK'
    BY <1>1, <2>1, <2>2, <2>3 DEF MountedOK
  <2> QED BY <1>1, <2>1, <2>2, <2>3, <2>4, <2>5, <2>6 DEF DashboardTyped
<1> QED BY <1>2, <1>3

LEMMA DashTransferFails ==
  ASSUME DashboardInv, TransferFails
  PROVE  DashboardInv'
<1>1. /\ transfer.pc # "none"
      /\ UNCHANGED <<chosen, context, contextReads, team, install, owned, roster, key, acts, doubtful>>
  BY DEF TransferFails, world
<1>2. CASE transfer.form
  <2>1. /\ transfer' = [transfer EXCEPT !.pc = "reading"] /\ Reload(rosterReads, "transfer")
        /\ UNCHANGED unheard /\ transfer.home
    BY <1>2 DEF TransferFails, DashboardInv, MountedOK
  <2> QED BY <1>1, <2>1, DashTransferRead
<1>3. CASE ~transfer.form
  <2>1. transfer' = NoTransfer /\ unheard' = TRUE /\ UNCHANGED <<rosterReads, crossing>>
    BY <1>3 DEF TransferFails
  <2>2. Stale'
    BY <2>1 DEF Stale
  <2> QED BY <1>1, <2>1, <2>2, NoTransferMoves, RostersGrow, DashTransferStep
<1> QED BY <1>2, <1>3

LEMMA DashTransferUnauthorized ==
  ASSUME DashboardInv, TransferUnauthorized
  PROVE  DashboardInv'
<1>1. /\ transfer.pc = "sent" /\ transfer' = NoTransfer
      /\ UNCHANGED <<acts, chosen, context, contextReads, team, rosterReads, install, owned, roster, key,
                     crossing, doubtful, unheard>>
  BY DEF TransferUnauthorized, world, history
<1>2. Stale => Stale'
  BY <1>1 DEF Stale
<1> QED BY <1>1, <1>2, NoTransferMoves, RostersGrow, DashTransferStep

\* A step of the installation section.
LEMMA DashInstallStep ==
  ASSUME DashboardInv, install' \in InstallPages, install.status # "absent", install'.status # "absent",
         InstallOK', key' \in [Workspaces -> Nat], acts' \in Nat,
         \A s \in {"team", "context"} : /\ s \in crossing' <=> s \in crossing
                                        /\ s \in doubtful' <=> s \in doubtful,
         UNCHANGED <<chosen, context, contextReads, team, rosterReads, transfer, owned, roster, unheard>>
  PROVE  DashboardInv'
<1> USE DEF DashboardInv
<1>1. ContextOK' /\ TeamOK'
  BY ContextKept, TeamKept, RostersGrow DEF Stale
<1>2. MountedOK'
  BY DEF MountedOK
<1> QED BY <1>1, <1>2 DEF DashboardTyped

LEMMA InstallHere ==
  ASSUME DashboardInv, install.status # "absent"
  PROVE  /\ context.org \in Workspaces /\ install \in InstallPages
         /\ key \in [Workspaces -> Nat] /\ key[context.org] \in Nat /\ key[context.org] > Sent
         /\ acts \in Nat
BY DEF DashboardInv, DashboardTyped, MountedOK, InstallOK

LEMMA DashSettingsShown ==
  ASSUME DashboardInv, SettingsShown
  PROVE  DashboardInv'
<1>1. /\ install.status = "loading"
      /\ UNCHANGED <<acts, chosen, context, contextReads, team, rosterReads, transfer, owned, roster, key,
                     crossing, doubtful, unheard>>
  BY DEF SettingsShown, world, history
<1>2. /\ context.org \in Workspaces /\ install \in InstallPages
      /\ key \in [Workspaces -> Nat] /\ key[context.org] \in Nat /\ acts \in Nat
      /\ install.saving = Off /\ install.rotating = Off
  BY <1>1, InstallHere DEF DashboardInv, InstallOK
<1>3. CASE install' = [install EXCEPT !.status = "ready", !.key = key[context.org], !.own = key[context.org]]
  <2> DEFINE n == key[context.org]
             a == [install EXCEPT !.status = "ready"]
             b == [a EXCEPT !.key = n]
             c == [b EXCEPT !.own = n]
  <2>1. install' = c
    BY <1>3
  <2> HIDE DEF n
  <2>2. n \in Nat /\ n = key[context.org]
    BY <1>2 DEF n
  <2>3. a \in InstallPages /\ a.status = "ready" /\ a.saving = Off /\ a.rotating = Off
    BY <1>2 DEF InstallPages
  <2> HIDE DEF a
  <2>4. b \in InstallPages /\ b.status = "ready" /\ b.saving = Off /\ b.rotating = Off /\ b.key = n
    BY <2>2, <2>3 DEF InstallPages
  <2> HIDE DEF b
  <2>5. c \in InstallPages /\ c.status = "ready" /\ c.saving = Off /\ c.rotating = Off /\ c.key = n /\ c.own = n
    BY <2>2, <2>4 DEF InstallPages
  <2> HIDE DEF c
  <2>6. InstallOK'
    BY <1>1, <1>2, <2>1, <2>2, <2>5 DEF DashboardInv, InstallOK, Off, Sent
  <2> QED BY <1>1, <1>2, <2>1, <2>5, <2>6, DashInstallStep
<1>4. CASE install' = [install EXCEPT !.status = "error"]
  <2>1. install' \in InstallPages /\ install'.status = "error" /\ install'.saving = Off
        /\ install'.rotating = Off /\ install'.key = install.key /\ install'.own = install.own
    BY <1>2, <1>4 DEF InstallPages
  <2>2. InstallOK'
    BY <1>1, <1>2, <2>1 DEF DashboardInv, InstallOK, Off, Sent
  <2> QED BY <1>1, <1>2, <2>1, <2>2, DashInstallStep
<1> QED BY <1>3, <1>4 DEF SettingsShown

LEMMA DashAskInstall ==
  ASSUME DashboardInv, AskInstall("saving", "rotating") \/ AskInstall("rotating", "saving")
  PROVE  DashboardInv'
<1>1. /\ install.status = "ready" /\ acts' \in Nat
      /\ UNCHANGED <<chosen, context, contextReads, team, rosterReads, transfer, owned, roster, key,
                     doubtful, unheard>>
      /\ \A s \in {"team", "context"} : s \in crossing' <=> s \in crossing
  BY DEF AskInstall, Sends, world, DashboardInv, DashboardTyped
<1>2. /\ context.org \in Workspaces /\ install \in InstallPages
      /\ key \in [Workspaces -> Nat] /\ key[context.org] \in Nat /\ key[context.org] > Sent
  BY <1>1, InstallHere
<1>3. CASE AskInstall("saving", "rotating")
  <2>1. install' = [install EXCEPT !.saving = Sent] /\ install.saving = Off
        /\ (install.rotating # Off => "install" \in crossing')
    BY <1>3 DEF AskInstall, Sends
  <2>2. install' \in InstallPages /\ install'.status = install.status /\ install'.saving = Sent
        /\ install'.rotating = install.rotating /\ install'.key = install.key /\ install'.own = install.own
    BY <1>2, <2>1 DEF InstallPages, Sent
  <2>3. InstallOK'
    BY <1>1, <1>2, <2>1, <2>2 DEF DashboardInv, InstallOK, Off, Sent
  <2> QED BY <1>1, <1>2, <2>2, <2>3, DashInstallStep
<1>4. CASE AskInstall("rotating", "saving")
  <2>1. install' = [install EXCEPT !.rotating = Sent] /\ install.rotating = Off
        /\ (install.saving # Off => "install" \in crossing')
    BY <1>4 DEF AskInstall, Sends
  <2>2. install' \in InstallPages /\ install'.status = install.status /\ install'.rotating = Sent
        /\ install'.saving = install.saving /\ install'.key = install.key /\ install'.own = install.own
    BY <1>2, <2>1 DEF InstallPages, Sent
  <2>3. InstallOK'
    BY <1>1, <1>2, <2>1, <2>2 DEF DashboardInv, InstallOK, Off, Sent
  <2> QED BY <1>1, <1>2, <2>2, <2>3, DashInstallStep
<1> QED BY <1>3, <1>4

LEMMA DashServeSave ==
  ASSUME DashboardInv, ServeSave
  PROVE  DashboardInv'
<1>1. /\ install.saving = Sent /\ install' = [install EXCEPT !.saving = key[context.org]]
      /\ UNCHANGED <<acts, chosen, context, contextReads, team, rosterReads, transfer, owned, roster, key,
                     crossing, doubtful, unheard>>
  BY DEF ServeSave, world, history
<1>2. install.status # "absent"
  BY <1>1 DEF DashboardInv, InstallOK, Off, Sent
<1>3. /\ context.org \in Workspaces /\ install \in InstallPages /\ acts \in Nat
      /\ key \in [Workspaces -> Nat] /\ key[context.org] \in Nat /\ key[context.org] > Sent
  BY <1>2, InstallHere
<1>4. install' \in InstallPages /\ install'.status = install.status /\ install'.saving = key[context.org]
      /\ install'.rotating = install.rotating /\ install'.key = install.key /\ install'.own = install.own
  BY <1>1, <1>3 DEF InstallPages
<1>5. InstallOK'
  BY <1>1, <1>2, <1>3, <1>4 DEF DashboardInv, InstallOK, Off, Sent
<1> QED BY <1>1, <1>2, <1>3, <1>4, <1>5, DashInstallStep

LEMMA DashServeRotation ==
  ASSUME DashboardInv, ServeRotation
  PROVE  DashboardInv'
<1>1. /\ install.rotating = Sent /\ install' = [install EXCEPT !.rotating = key'[context.org]]
      /\ key' = [key EXCEPT ![context.org] = @ + 1]
      /\ UNCHANGED <<acts, chosen, context, contextReads, team, rosterReads, transfer, owned, roster,
                     crossing, doubtful, unheard>>
  BY DEF ServeRotation, history
<1>2. install.status # "absent"
  BY <1>1 DEF DashboardInv, InstallOK, Off, Sent
<1>3. /\ context.org \in Workspaces /\ install \in InstallPages /\ acts \in Nat
      /\ key \in [Workspaces -> Nat] /\ key[context.org] \in Nat /\ key[context.org] > Sent
  BY <1>2, InstallHere
<1>4. /\ key' \in [Workspaces -> Nat] /\ key'[context.org] = key[context.org] + 1
      /\ \A o \in Workspaces : key'[o] > Sent
  BY <1>1, <1>3 DEF DashboardInv, InstallOK, Sent
<1>5. install' \in InstallPages /\ install'.status = install.status /\ install'.rotating = key'[context.org]
      /\ install'.saving = install.saving /\ install'.key = install.key /\ install'.own = install.own
  BY <1>1, <1>3, <1>4 DEF InstallPages
<1>6. install.own \in Nat
  BY <1>3 DEF InstallPages
<1>7. InstallOK'
  BY <1>1, <1>2, <1>3, <1>4, <1>5, <1>6 DEF DashboardInv, InstallOK, Off, Sent
<1> QED BY <1>1, <1>2, <1>3, <1>4, <1>5, <1>7, DashInstallStep

\* The section takes the settings that the answer brings.
Shows(field, own) == [install EXCEPT !.key = install[field], ![field] = Off, !.own = own]

LEMMA InstallShown ==
  ASSUME install \in InstallPages, NEW own \in Nat
  PROVE  /\ Shows("saving", own) \in InstallPages /\ Shows("saving", own).status = install.status
         /\ Shows("saving", own).key = install.saving /\ Shows("saving", own).saving = Off
         /\ Shows("saving", own).rotating = install.rotating /\ Shows("saving", own).own = own
         /\ Shows("rotating", own) \in InstallPages /\ Shows("rotating", own).status = install.status
         /\ Shows("rotating", own).key = install.rotating /\ Shows("rotating", own).rotating = Off
         /\ Shows("rotating", own).saving = install.saving /\ Shows("rotating", own).own = own
<1>1. /\ Shows("saving", own) \in InstallPages /\ Shows("saving", own).status = install.status
      /\ Shows("saving", own).key = install.saving /\ Shows("saving", own).saving = Off
      /\ Shows("saving", own).rotating = install.rotating /\ Shows("saving", own).own = own
  <2> DEFINE a == [install EXCEPT !.key = install.saving]
             b == [a EXCEPT !.saving = Off]
             c == [b EXCEPT !.own = own]
  <2>1. Shows("saving", own) = c
    BY Zenon DEF Shows
  <2>2. a \in InstallPages /\ a.status = install.status /\ a.key = install.saving
        /\ a.rotating = install.rotating
    BY DEF InstallPages
  <2> HIDE DEF a
  <2>3. b \in InstallPages /\ b.status = install.status /\ b.key = install.saving
        /\ b.rotating = install.rotating /\ b.saving = Off
    BY <2>2 DEF InstallPages, Off
  <2> HIDE DEF b
  <2>4. c \in InstallPages /\ c.status = install.status /\ c.key = install.saving
        /\ c.rotating = install.rotating /\ c.saving = Off /\ c.own = own
    BY <2>3 DEF InstallPages
  <2> HIDE DEF c
  <2> QED BY <2>1, <2>4
<1>2. /\ Shows("rotating", own) \in InstallPages /\ Shows("rotating", own).status = install.status
      /\ Shows("rotating", own).key = install.rotating /\ Shows("rotating", own).rotating = Off
      /\ Shows("rotating", own).saving = install.saving /\ Shows("rotating", own).own = own
  <2> DEFINE a == [install EXCEPT !.key = install.rotating]
             b == [a EXCEPT !.rotating = Off]
             c == [b EXCEPT !.own = own]
  <2>1. Shows("rotating", own) = c
    BY Zenon DEF Shows
  <2>2. a \in InstallPages /\ a.status = install.status /\ a.key = install.rotating
        /\ a.saving = install.saving
    BY DEF InstallPages
  <2> HIDE DEF a
  <2>3. b \in InstallPages /\ b.status = install.status /\ b.key = install.rotating
        /\ b.saving = install.saving /\ b.rotating = Off
    BY <2>2 DEF InstallPages, Off
  <2> HIDE DEF b
  <2>4. c \in InstallPages /\ c.status = install.status /\ c.key = install.rotating
        /\ c.saving = install.saving /\ c.rotating = Off /\ c.own = own
    BY <2>3 DEF InstallPages
  <2> HIDE DEF c
  <2> QED BY <2>1, <2>4
<1> QED BY <1>1, <1>2

LEMMA DashInstallAnswered ==
  ASSUME DashboardInv, NEW field \in {"saving", "rotating"}, InstallAnswered(field)
  PROVE  DashboardInv'
<1>1. /\ install[field] > Sent
      /\ doubtful' = IF "install" \in crossing THEN doubtful \cup {"install"} ELSE doubtful \ {"install"}
      /\ UNCHANGED <<chosen, context, contextReads, team, rosterReads, transfer, owned, roster, key, acts,
                     crossing, unheard>>
  BY DEF InstallAnswered, Applies, world
<1>2. install \in InstallPages
  BY DEF DashboardInv, DashboardTyped
<1>3. install.status # "absent"
  BY <1>1 DEF DashboardInv, InstallOK, Off, Sent
<1>4. /\ context.org \in Workspaces /\ acts \in Nat
      /\ key \in [Workspaces -> Nat] /\ key[context.org] \in Nat /\ key[context.org] > Sent
      /\ install.own \in Nat /\ install.rotating \in Nat /\ install.saving \in Nat
  BY <1>2, <1>3, InstallHere DEF InstallPages
<1>5. \A s \in {"team", "context"} : /\ s \in crossing' <=> s \in crossing
                                     /\ s \in doubtful' <=> s \in doubtful
  BY <1>1
<1>6. CASE field = "saving"
  <2>1. install' = Shows("saving", install.own)
    BY <1>6 DEF InstallAnswered, Shows
  <2>2. /\ install' \in InstallPages /\ install'.status = install.status /\ install'.key = install.saving
        /\ install'.saving = Off /\ install'.rotating = install.rotating /\ install'.own = install.own
    BY <1>2, <1>4, <2>1, InstallShown
  <2>3. InstallOK'
    BY <1>1, <1>3, <1>4, <1>6, <2>2 DEF DashboardInv, InstallOK, Off, Sent
  <2> QED BY <1>1, <1>3, <1>4, <1>5, <2>2, <2>3, DashInstallStep
<1>7. CASE field = "rotating"
  <2>1. install' = Shows("rotating", install.rotating)
    BY <1>7 DEF InstallAnswered, Shows
  <2>2. /\ install' \in InstallPages /\ install'.status = install.status /\ install'.key = install.rotating
        /\ install'.rotating = Off /\ install'.saving = install.saving /\ install'.own = install.rotating
    BY <1>2, <1>4, <2>1, InstallShown
  <2>3. InstallOK'
    BY <1>1, <1>3, <1>4, <1>7, <2>2 DEF DashboardInv, InstallOK, Off, Sent
  <2> QED BY <1>1, <1>3, <1>4, <1>5, <2>2, <2>3, DashInstallStep
<1> QED BY <1>6, <1>7

LEMMA DashInstallFails ==
  ASSUME DashboardInv, NEW field \in {"saving", "rotating"}, InstallFails(field)
  PROVE  DashboardInv'
<1>1. /\ install[field] # Off
      /\ UNCHANGED <<acts, chosen, context, contextReads, team, rosterReads, transfer, owned, roster, key,
                     crossing, doubtful, unheard>>
  BY DEF InstallFails, world, history
<1>2. install.status # "absent" /\ install.status = "ready"
  BY <1>1 DEF DashboardInv, InstallOK
<1>3. /\ context.org \in Workspaces /\ acts \in Nat /\ install \in InstallPages
      /\ key \in [Workspaces -> Nat] /\ key[context.org] \in Nat /\ key[context.org] > Sent
  BY <1>2, InstallHere
<1>4. CASE install' = [install EXCEPT !.saving = Off]
  <2>1. install' \in InstallPages /\ install'.status = install.status /\ install'.saving = Off
        /\ install'.rotating = install.rotating /\ install'.key = install.key /\ install'.own = install.own
    BY <1>3, <1>4 DEF InstallPages, Off
  <2>2. InstallOK'
    BY <1>1, <1>2, <1>3, <2>1 DEF DashboardInv, InstallOK, Off, Sent
  <2> QED BY <1>1, <1>2, <1>3, <2>1, <2>2, DashInstallStep
<1>5. CASE install' = [install EXCEPT !.rotating = Off]
  <2>1. install' \in InstallPages /\ install'.status = install.status /\ install'.rotating = Off
        /\ install'.saving = install.saving /\ install'.key = install.key /\ install'.own = install.own
    BY <1>3, <1>5 DEF InstallPages, Off
  <2>2. InstallOK'
    BY <1>1, <1>2, <1>3, <2>1 DEF DashboardInv, InstallOK, Off, Sent
  <2> QED BY <1>1, <1>2, <1>3, <2>1, <2>2, DashInstallStep
<1> QED BY <1>4, <1>5 DEF InstallFails

LEMMA DashStepOK ==
  ASSUME DashboardInv, [DashboardNext]_dashboard
  PROVE  DashboardInv'
<1>1. CASE UNCHANGED dashboard
  BY <1>1 DEF dashboard, sections, world, history, DashboardInv, DashboardTyped, MountedOK, ContextOK,
       TeamOK, InstallOK, Stale
<1>2. CASE DashboardNext
  BY <1>2, DashChoose, DashServeContext, DashContextAnswered, DashContextFails, DashServeRoster,
     DashRosterAnswered, DashRosterFails, DashRosterUnauthorized, DashChangeUnauthorized,
     DashServeAdrift, DashTransferUnauthorized, DashRetry, DashChange, DashServeChange, DashChangeAnswered,
     DashChangeFails, DashAskToConfirm, DashConfirm, DashServeTransfer, DashTransferAnswered,
     DashTransferFails, DashSettingsShown, DashAskInstall, DashServeSave, DashServeRotation,
     DashInstallAnswered, DashInstallFails DEF DashboardNext
<1> QED BY <1>1, <1>2

LEMMA DashboardInvariant == DashboardSpec => []DashboardInv
BY DashboardInitially, DashStepOK, PTL DEF DashboardSpec

LEMMA DashboardTypes == DashboardInv => DashboardTypeOK
BY DEF DashboardInv, DashboardTyped, MountedOK, DashboardTypeOK

LEMMA ChosenOrg == DashboardInv => ActsInChosen
BY DEF DashboardInv, ContextOK, ActsInChosen, ContextSettled, Stale

LEMMA OwnChanges == DashboardInv => ShowsOwnChanges
BY DEF DashboardInv, TeamOK, InstallOK, ShowsOwnChanges

\* The sections below the switcher are those of the organization it shows, with
\* the role the person has there, once nothing is being read, unless two reads
\* overlapped or a transfer that the page took for failed was made, too late to
\* be read or with its form gone
\* (OrganizationSwitcher.tsx, DashboardPage.tsx).
THEOREM DashboardActsInChosen == DashboardSpec => []ActsInChosen
BY DashboardInvariant, ChosenOrg, PTL

\* What the team page and the installation page say they have done is in what
\* they show, unless a roster read, or an answer about the settings, overlapped
\* another, or the roster read got a second 401 (TeamManagement.tsx,
\* useTeamMembers.ts, WidgetInstallation.tsx).
THEOREM DashboardShowsOwnChanges == DashboardSpec => []ShowsOwnChanges
BY DashboardInvariant, OwnChanges, PTL

----------------------------------------------------------------------------
(* The composition.                                                        *)

\* Whatever is set going, each component takes its own steps or rests.
LEMMA PlatformSteps ==
  [Next]_platform => /\ [AccountsNext]_accounts /\ [TenantsNext]_tenants
                     /\ [WidgetSessionsNext]_<<tenants, sessions>>
                     /\ [TabsNext]_tabs /\ [DashboardNext]_dashboard
<1> SUFFICES ASSUME [Next]_platform
             PROVE  /\ [AccountsNext]_accounts /\ [TenantsNext]_tenants
                    /\ [WidgetSessionsNext]_<<tenants, sessions>>
                    /\ [TabsNext]_tabs /\ [DashboardNext]_dashboard
  OBVIOUS
<1>1. CASE UNCHANGED platform
  BY <1>1 DEF platform
<1>2. CASE AccountsStep
  BY <1>2 DEF AccountsStep
<1>3. CASE TenantsStep
  BY <1>3 DEF TenantsStep, WidgetSessionsNext
<1>4. CASE VisitsStep
  <2>1. WidgetSessionsNext /\ UNCHANGED <<accounts, tabs, dashboard>>
    BY <1>4 DEF VisitsStep
  <2>2. TenantsNext \/ UNCHANGED tenants
    BY <2>1 DEF WidgetSessionsNext, OpenWidget, SubmitDetails, Request, Resolved, TokenRefused,
       HandshakeRefused, CloseTab, Load, Embed, Find, Resume, CreateCustomer, Answered, Refused,
       Lost, Expire
  <2> QED BY <2>1, <2>2
<1>5. CASE TabsStep
  BY <1>5 DEF TabsStep
<1>6. CASE DashboardStep
  BY <1>6 DEF DashboardStep
<1> QED BY <1>1, <1>2, <1>3, <1>4, <1>5, <1>6 DEF Next

\* Running the components side by side, one at a time, lets none of them do what
\* its own specification does not: what is proved of a component alone holds of
\* it in the composition that TLC runs.
THEOREM PlatformImplementsComponents ==
  Spec => AccountsSpec /\ TenantsSpec /\ WidgetSessionsSpec /\ TabsSpec /\ DashboardSpec
<1>1. Init => AccountsInit /\ TenantsInit /\ WidgetSessionsInit /\ TabsInit /\ DashboardInit
  BY DEF Init, WidgetSessionsInit
<1> QED BY <1>1, PlatformSteps, PTL
        DEF Spec, AccountsSpec, TenantsSpec, WidgetSessionsSpec, TabsSpec, DashboardSpec

\* Every collection, request and page of the five components stays well formed,
\* and slugs and widget keys name one organization each (the unique indexes of
\* organization.model.ts and what the code writes under them).
THEOREM PlatformTypesOK == Spec => []TypesOK
<1>1. AccountsInv /\ VisitsInv /\ TabsInv /\ DashboardInv => TypesOK
  BY AccountsTypes, VisitsTypes, TabsTypes, DashboardTypes DEF TypesOK
<1> QED BY <1>1, PlatformImplementsComponents, AccountsInvariant, WidgetSessionsInvariant,
           TabsInvariant, DashboardInvariant, PTL

=============================================================================
