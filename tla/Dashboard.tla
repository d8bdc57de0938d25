----------------------------- MODULE Dashboard -----------------------------
(***************************************************************************)
(* One person's dashboard page: the organization it is about, its team and *)
(* its widget installation (web/src: OrganizationSwitcher, TeamManagement  *)
(* with useTeamMembers and useOwnershipTransfer, WidgetInstallation).      *)
(*                                                                         *)
(* Every section applies the answers to its requests in the order in which *)
(* they arrive.  The server's side, which Team and Tenants model, is one   *)
(* step per request: rosters and widget keys are version numbers.  The     *)
(* sections are mounted for the organization of "context"; another one     *)
(* replaces them, and what they had asked for is not heard any more.       *)
(***************************************************************************)
EXTENDS Naturals, FiniteSets

CONSTANTS
  Workspaces,     \* the person's organizations
  NoWorkspace,
  MaxActs,        \* bound: organizations chosen and changes asked for
  PageFaults      \* of "fails": a request may fail, or its answer be lost

ASSUME DashboardAssumption ==
  /\ NoWorkspace \notin Workspaces
  /\ MaxActs \in Nat
  /\ PageFaults \subseteq {"fails"}

VARIABLES
  chosen,      \* what the switcher shows
  context,     \* what the server confirmed last: an organization, and whether it is owned
  contextReads,\* reads of it in flight
  team,        \* the team section
  rosterReads, \* reads of the roster in flight
  transfer,    \* the transfer of ownership, on its way
  install,     \* the installation section
  owned,       \* server: the organizations the person owns
  roster,      \* server: changes made to the team of each
  key,         \* server: the widget key of each
  adrift,      \* server: where transfers may yet be made that the page has given up
  acts,        \* choices and changes so far
  crossing,    \* history: sections whose requests in flight overlap
  doubtful,    \* history: sections whose last answer was one of those, or a second 401
  unheard      \* history: a transfer the page took for failed was made and not read again

sections == <<chosen, context, contextReads, team, rosterReads, transfer, install>>
world == <<owned, roster, key, adrift>>
history == <<crossing, doubtful, unheard>>
dashboard == <<sections, world, acts, history>>

NoContext == [org |-> NoWorkspace, owner |-> FALSE]
NoTeam == [status |-> "absent", shown |-> 0, notice |-> 0, act |-> "none", made |-> 0]
NoTransfer == [pc |-> "none", org |-> NoWorkspace, home |-> FALSE, form |-> FALSE]
NoInstall == [status |-> "absent", key |-> 0, own |-> 0, saving |-> 0, rotating |-> 0]

\* A request that waits for the server, and one that is not under way.
Sent == 1
Off == 0

MayFailHere == "fails" \in PageFaults

----------------------------------------------------------------------------
(* Reads in flight, and the sections that come and go with the context.    *)

Sends(section, others) ==
  crossing' = IF others = {} THEN crossing \ {section} ELSE crossing \cup {section}

Applies(section) ==
  doubtful' = IF section \in crossing THEN doubtful \cup {section} ELSE doubtful \ {section}

Unread(why) == [why |-> why, read |-> FALSE, at |-> 0, heard |-> TRUE]

\* useTeamMembers.reload: nothing keeps two of them apart.
Reload(reads, why) ==
  /\ rosterReads' = reads \cup {Unread(why)}
  /\ Sends("team", {r \in reads : r.heard})

AskContext(o) ==
  /\ LET n == CHOOSE i \in 0..Cardinality(contextReads) : \A r \in contextReads : r.no # i
     IN  contextReads' = contextReads \cup {[no |-> n, org |-> o, read |-> FALSE, owner |-> FALSE]}
  /\ Sends("context", contextReads)

\* What is left of the reads of a roster once its section is gone: the one a
\* transfer waits for before it has the context read again.
Detached(reads) == {[r EXCEPT !.heard = FALSE] : r \in {q \in reads : q.why = "transfer"}}

\* Another organization's sections are mounted, or none.
Mounted(o) ==
  /\ team' = IF o = NoWorkspace THEN NoTeam ELSE [NoTeam EXCEPT !.status = "loading"]
  /\ rosterReads' = Detached(rosterReads) \cup
       (IF o = NoWorkspace THEN {} ELSE {Unread("load")})
  /\ install' = IF o = NoWorkspace THEN NoInstall ELSE [NoInstall EXCEPT !.status = "loading"]
  /\ transfer' = IF transfer.pc = "confirming" THEN NoTransfer
                 ELSE [transfer EXCEPT !.home = FALSE, !.form = FALSE]

----------------------------------------------------------------------------
(* The switcher.                                                           *)

\* Mutant: nothing is asked while another read is under way.
ChooseUnlessLoading(o) ==
  /\ chosen # o /\ acts < MaxActs /\ acts' = acts + 1
  /\ chosen' = o
  /\ IF contextReads = {} THEN AskContext(o) ELSE UNCHANGED <<contextReads, crossing>>
  /\ UNCHANGED <<context, team, rosterReads, transfer, install, world, doubtful, unheard>>

Choose(o) ==
  /\ chosen # o /\ acts < MaxActs /\ acts' = acts + 1
  /\ chosen' = o
  /\ AskContext(o)
  /\ UNCHANGED <<context, team, rosterReads, transfer, install, world, doubtful, unheard>>

ServeContext(r) ==
  /\ ~r.read
  /\ contextReads' = (contextReads \ {r}) \cup {[r EXCEPT !.read = TRUE, !.owner = r.org \in owned]}
  /\ UNCHANGED <<chosen, context, team, rosterReads, transfer, install, world, acts, history>>

\* The answer is taken whatever has been chosen since.
ContextAnswered(r) ==
  /\ r.read
  /\ contextReads' = contextReads \ {r}
  /\ context' = [org |-> r.org, owner |-> r.owner]
  /\ Applies("context")
  /\ IF r.org # context.org THEN Mounted(r.org)
     ELSE /\ transfer' = IF r.owner THEN transfer
                         ELSE IF transfer.pc = "confirming" THEN NoTransfer
                         ELSE [transfer EXCEPT !.form = FALSE]
          /\ UNCHANGED <<team, rosterReads, install>>
  /\ UNCHANGED <<chosen, world, acts, crossing, unheard>>

\* Refused or lost, the organization's sections go.
ContextFails(r) ==
  /\ MayFailHere
  /\ contextReads' = contextReads \ {r}
  /\ context' = NoContext
  /\ IF context.org = NoWorkspace THEN UNCHANGED <<team, rosterReads, install, transfer>>
     ELSE Mounted(NoWorkspace)
  /\ UNCHANGED <<chosen, world, acts, history>>

----------------------------------------------------------------------------
(* The team.                                                               *)

ServeRoster(r) ==
  /\ ~r.read
  /\ rosterReads' = (rosterReads \ {r}) \cup
       {[r EXCEPT !.read = TRUE, !.at = IF r.heard THEN roster[context.org] ELSE 0]}
  /\ UNCHANGED <<chosen, context, contextReads, team, transfer, install, world, acts, history>>

\* What awaited the read goes on: run() shows its notice, a transfer has the
\* context read again.
Resumed(r, status, shown) ==
  /\ team' = IF ~r.heard THEN team
             ELSE IF r.why = "act"
             THEN [team EXCEPT !.status = status, !.shown = shown, !.act = "none", !.notice = team.made]
             ELSE [team EXCEPT !.status = status, !.shown = shown]
  /\ IF r.why = "transfer"
     THEN AskContext(chosen) /\ transfer' = NoTransfer
     ELSE /\ transfer' = IF status = "ready" THEN transfer
                         ELSE IF transfer.pc = "confirming" THEN NoTransfer
                         ELSE [transfer EXCEPT !.form = FALSE]
          /\ UNCHANGED <<contextReads, crossing>>

RosterAnswered(r) ==
  /\ r.read
  /\ rosterReads' = rosterReads \ {r}
  /\ Resumed(r, "ready", r.at)
  /\ IF r.heard THEN Applies("team") ELSE UNCHANGED doubtful
  /\ UNCHANGED <<chosen, context, install, world, acts, unheard>>

\* reload() swallows its failure, so what awaited it goes on all the same.
RosterFails(r) ==
  /\ MayFailHere
  /\ rosterReads' = rosterReads \ {r}
  /\ Resumed(r, "error", team.shown)
  /\ UNCHANGED <<chosen, context, install, world, acts, doubtful, unheard>>

\* A second 401 leaves the status as it is, and run() shows its notice over the
\* old roster.
RosterUnauthorized(r) ==
  /\ MayFailHere
  /\ rosterReads' = rosterReads \ {r}
  /\ Resumed(r, team.status, team.shown)
  /\ doubtful' = IF r.why = "act" THEN doubtful \cup {"team"} ELSE doubtful
  /\ UNCHANGED <<chosen, context, install, world, acts, unheard>>

Retry ==
  /\ team.status = "error" /\ Unread("retry") \notin rosterReads
  /\ Reload(rosterReads, "retry")
  /\ UNCHANGED <<chosen, context, contextReads, team, transfer, install, world, acts, doubtful, unheard>>

\* add, changeRole, changeStatus, remove: one at a time.
Change ==
  /\ team.status = "ready" /\ team.act = "none"
  /\ acts < MaxActs /\ acts' = acts + 1
  /\ team' = [team EXCEPT !.act = "sent", !.notice = 0, !.made = 0]
  /\ UNCHANGED <<chosen, context, contextReads, rosterReads, transfer, install, world, history>>

\* The change is made, or refused.
ServeChange ==
  /\ team.act = "sent"
  /\ \/ /\ roster' = [roster EXCEPT ![context.org] = @ + 1]
        /\ team' = [team EXCEPT !.act = "made", !.made = roster[context.org] + 1]
     \/ team' = [team EXCEPT !.act = "refused"] /\ UNCHANGED roster
  /\ UNCHANGED <<chosen, context, contextReads, rosterReads, transfer, install, owned, key, adrift, acts, history>>

\* Mutant: the answer is announced over the roster the page has.
ChangeAnsweredAtOnce ==
  /\ team.act \in {"made", "refused"}
  /\ team' = [team EXCEPT !.act = "none", !.notice = team.made]
  /\ UNCHANGED <<chosen, context, contextReads, rosterReads, transfer, install, world, acts, history>>

\* Accepted or not, the roster is read again before anything is said.
ChangeAnswered ==
  /\ team.act \in {"made", "refused"}
  /\ team' = [team EXCEPT !.act = "reading"]
  /\ Reload(rosterReads, "act")
  /\ UNCHANGED <<chosen, context, contextReads, transfer, install, world, acts, doubtful, unheard>>

ChangeFails ==
  /\ MayFailHere /\ team.act \in {"sent", "made", "refused"}
  /\ team' = [team EXCEPT !.act = "reading", !.made = 0]
  /\ Reload(rosterReads, "act")
  /\ UNCHANGED <<chosen, context, contextReads, transfer, install, world, acts, doubtful, unheard>>

\* A second 401: nothing was done, and nothing is read or said.
ChangeUnauthorized ==
  /\ MayFailHere /\ team.act = "sent"
  /\ team' = [team EXCEPT !.act = "none"]
  /\ UNCHANGED <<chosen, context, contextReads, rosterReads, transfer, install, world, acts, history>>

----------------------------------------------------------------------------
(* Transferring ownership.  A form mounted again while a transfer of the    *)
(* one before it is on its way is not used.                                *)

AskToConfirm ==
  /\ team.status = "ready" /\ context.owner /\ transfer.pc = "none"
  /\ acts < MaxActs /\ acts' = acts + 1
  /\ transfer' = [pc |-> "confirming", org |-> context.org, home |-> TRUE, form |-> TRUE]
  /\ UNCHANGED <<chosen, context, contextReads, team, rosterReads, install, world, history>>

\* cancel, or confirm.
Confirm ==
  /\ transfer.pc = "confirming"
  /\ transfer' \in {NoTransfer, [transfer EXCEPT !.pc = "sent"]}
  /\ UNCHANGED <<chosen, context, contextReads, team, rosterReads, install, world, acts, history>>

ServeTransfer ==
  /\ transfer.pc = "sent"
  /\ \/ /\ transfer.org \in owned /\ owned' = owned \ {transfer.org}
        /\ roster' = [roster EXCEPT ![transfer.org] = @ + 1]
        /\ transfer' = [transfer EXCEPT !.pc = "made"]
     \/ transfer' = [transfer EXCEPT !.pc = "refused"] /\ UNCHANGED <<owned, roster>>
  /\ UNCHANGED <<chosen, context, contextReads, team, rosterReads, install, key, adrift, acts, history>>

\* A transfer the page has given up reaches the server after all, and is made;
\* one that is refused changes nothing.  (Nor would a change of the team or of
\* the key that comes late: no page has announced it.)
ServeAdrift(o) ==
  /\ o \in adrift \cap owned
  /\ adrift' = adrift \ {o} /\ owned' = owned \ {o}
  /\ roster' = [roster EXCEPT ![o] = @ + 1]
  /\ unheard' = TRUE
  /\ UNCHANGED <<sections, key, acts, crossing, doubtful>>

\* onTransferred, for which the caller's roster and context are read again.
TransferAnswered ==
  /\ transfer.pc = "made" \/ (transfer.pc = "refused" /\ transfer.form)
  /\ transfer' = [transfer EXCEPT !.pc = "reading"]
  /\ IF transfer.home THEN Reload(rosterReads, "transfer")
     ELSE /\ rosterReads' = rosterReads \cup {[Unread("transfer") EXCEPT !.heard = FALSE]}
          /\ UNCHANGED crossing
  /\ UNCHANGED <<chosen, context, contextReads, team, install, world, acts, doubtful, unheard>>

\* The same, but that a form that is gone does nothing any more.  The request may
\* still be on its way to the server.
TransferFails ==
  /\ \/ MayFailHere /\ transfer.pc = "sent" /\ adrift' \in {adrift, adrift \cup {transfer.org}}
     \/ MayFailHere /\ transfer.pc = "made" /\ UNCHANGED adrift
     \/ transfer.pc = "refused" /\ ~transfer.form /\ UNCHANGED adrift
  /\ IF transfer.form
     THEN /\ transfer' = [transfer EXCEPT !.pc = "reading"]
          /\ Reload(rosterReads, "transfer")
          /\ UNCHANGED unheard
     ELSE /\ transfer' = NoTransfer /\ unheard' = TRUE
          /\ UNCHANGED <<rosterReads, crossing>>
  /\ UNCHANGED <<chosen, context, contextReads, team, install, owned, roster, key, acts, doubtful>>

\* A second 401: nothing was done and nothing is read.  The code leaves the form
\* pending until it is mounted again; here it may be used at once.
TransferUnauthorized ==
  /\ MayFailHere /\ transfer.pc = "sent"
  /\ transfer' = NoTransfer
  /\ UNCHANGED <<chosen, context, contextReads, team, rosterReads, install, world, acts, history>>

----------------------------------------------------------------------------
(* The widget installation.                                                *)

SettingsShown ==
  /\ install.status = "loading"
  /\ \/ install' = [install EXCEPT !.status = "ready", !.key = key[context.org], !.own = key[context.org]]
     \/ MayFailHere /\ install' = [install EXCEPT !.status = "error"]
  /\ UNCHANGED <<chosen, context, contextReads, team, rosterReads, transfer, world, acts, history>>

\* handleSaveOrigins, handleConfirmRotation: one each at a time.
AskInstall(field, other) ==
  /\ install.status = "ready" /\ install[field] = Off
  /\ acts < MaxActs /\ acts' = acts + 1
  /\ install' = [install EXCEPT ![field] = Sent]
  /\ Sends("install", {f \in {other} : install[f] # Off})
  /\ UNCHANGED <<chosen, context, contextReads, team, rosterReads, transfer, world, doubtful, unheard>>

\* Either answers with the settings as it leaves them.
ServeSave ==
  /\ install.saving = Sent
  /\ install' = [install EXCEPT !.saving = key[context.org]]
  /\ UNCHANGED <<chosen, context, contextReads, team, rosterReads, transfer, world, acts, history>>

ServeRotation ==
  /\ install.rotating = Sent
  /\ key' = [key EXCEPT ![context.org] = @ + 1]
  /\ install' = [install EXCEPT !.rotating = key'[context.org]]
  /\ UNCHANGED <<chosen, context, contextReads, team, rosterReads, transfer, owned, roster, adrift, acts, history>>

InstallAnswered(field) ==
  /\ install[field] > Sent
  /\ install' = [install EXCEPT !.key = install[field], ![field] = Off,
                                !.own = IF field = "rotating" THEN install[field] ELSE @]
  /\ Applies("install")
  /\ UNCHANGED <<chosen, context, contextReads, team, rosterReads, transfer, world, acts, crossing, unheard>>

InstallFails(field) ==
  /\ MayFailHere /\ install[field] # Off
  /\ install' = [install EXCEPT ![field] = Off]
  /\ UNCHANGED <<chosen, context, contextReads, team, rosterReads, transfer, world, acts, history>>

----------------------------------------------------------------------------
(* The specification.                                                      *)

\* The first organization is read; the person owns them all.
DashboardInit ==
  /\ chosen \in Workspaces /\ context = NoContext
  /\ contextReads = {[no |-> 0, org |-> chosen, read |-> FALSE, owner |-> FALSE]}
  /\ team = NoTeam /\ rosterReads = {} /\ transfer = NoTransfer /\ install = NoInstall
  /\ owned = Workspaces
  /\ roster = [o \in Workspaces |-> 1]
  /\ key = [o \in Workspaces |-> Sent + 1]
  /\ adrift = {} /\ acts = 0 /\ crossing = {} /\ doubtful = {} /\ unheard = FALSE

DashboardNext ==
  \/ \E o \in Workspaces : Choose(o)
  \/ \E r \in contextReads : ServeContext(r) \/ ContextAnswered(r) \/ ContextFails(r)
  \/ \E r \in rosterReads : ServeRoster(r) \/ RosterAnswered(r) \/ RosterFails(r)
                              \/ RosterUnauthorized(r)
  \/ Retry \/ Change \/ ServeChange \/ ChangeAnswered \/ ChangeFails \/ ChangeUnauthorized
  \/ AskToConfirm \/ Confirm \/ ServeTransfer \/ TransferAnswered \/ TransferFails
  \/ TransferUnauthorized
  \/ \E o \in Workspaces : ServeAdrift(o)
  \/ SettingsShown \/ AskInstall("saving", "rotating") \/ AskInstall("rotating", "saving")
  \/ ServeSave \/ ServeRotation
  \/ \E field \in {"saving", "rotating"} : InstallAnswered(field) \/ InstallFails(field)

DashboardSpec == DashboardInit /\ [][DashboardNext]_dashboard

----------------------------------------------------------------------------
(* Properties.                                                             *)

DashboardTypeOK ==
  /\ context.org \in Workspaces \cup {NoWorkspace}
  /\ team.status = "absent" <=> context.org = NoWorkspace
  /\ install.status = "absent" <=> context.org = NoWorkspace
  /\ transfer.form => transfer.home /\ transfer.org = context.org
  /\ \A r \in rosterReads : r.heard => team.status # "absent"

\* Nothing that would bring the context up to date is on its way.
ContextSettled ==
  /\ contextReads = {}
  /\ transfer.pc \in {"none", "confirming"}

\* OrganizationSwitcher.tsx, ADR-028 section 16: the sections below the switcher
\* are those of the organization it shows, with the role the person has there,
\* once nothing is being read; except after two reads that overlapped (nothing
\* orders their answers), or a transfer that the page took for failed and that
\* the server made after the reads that followed, or whose form was gone.
ActsInChosen ==
  ContextSettled /\ "context" \notin doubtful /\ ~unheard =>
    context = NoContext \/ context = [org |-> chosen, owner |-> chosen \in owned]

\* ADR-027, section 15, WidgetInstallation.tsx: what a page says it has done is
\* in what it shows; except that a roster read, or an answer about the
\* settings, that overlapped another may be the older of the two, and that a
\* roster read that gets a second 401 shows nothing new.
ShowsOwnChanges ==
  /\ team.status = "ready" /\ "team" \notin doubtful => team.shown >= team.notice
  /\ "install" \notin doubtful => install.key >= install.own
=============================================================================
