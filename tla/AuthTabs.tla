------------------------------ MODULE AuthTabs ------------------------------
(***************************************************************************)
(* What the tabs of one browser take themselves to be: signed in or not    *)
(* (web/src/features/auth: AuthProvider, authorizedRequest, useCurrentUser *)
(* and useLoginForm).                                                      *)
(*                                                                         *)
(* A tab keeps an access token in memory and renews it with the refresh    *)
(* cookie, which all tabs share.  The server's side, which Sessions models *)
(* in full, is one step per request here: a secret is exchanged for the    *)
(* next, is found to have been exchanged already, or ends its session.     *)
(* The browser stores an answer's cookie and the tab's handler runs in one *)
(* step.                                                                   *)
(***************************************************************************)
EXTENDS Naturals, Sequences

CONSTANTS
  AuthTabIds,   \* the tabs
  MaxSecrets,   \* bound: secrets ever issued
  MaxAsked,     \* bound: calls of the API and sign-outs the person asks for
  TabFaults     \* of "lost", "expires", "replay"

ASSUME AuthTabsAssumption ==
  /\ {MaxSecrets, MaxAsked} \subseteq Nat
  /\ TabFaults \subseteq {"lost", "expires", "replay"}

VARIABLES
  access,       \* per tab: none, or the sign-in its access token is of, and its age
  restoring,   \* the tab has not heard of its first refresh
  renewal,     \* per tab: the one refresh in flight
  fetch,       \* per tab: the account load and another call
  leaving,     \* per tab: the sign-out in flight
  entering,    \* per tab: a sign-in is in flight
  jar,         \* the refresh cookie, 0 if there is none
  secrets,     \* the secrets issued: the first one of the same sign-in, the state, who exchanged it
  wishes        \* calls and sign-outs so far

tabs == <<access, restoring, renewal, fetch, leaving, entering, jar, secrets, wishes>>

Callers == {"me", "call"}

SignedOut == [of |-> 0, age |-> "none"]
NoRenewal == [pc |-> "none", cookie |-> 0, answer |-> "none", brings |-> 0, prompted |-> FALSE]
NoFetch == [pc |-> "none", bearer |-> "none"]
NotLeaving == [pc |-> "none", cookie |-> 0, why |-> "none"]

State(c) == IF c = 0 THEN "none" ELSE secrets[c].state

----------------------------------------------------------------------------
(* Refreshing: one at a time for a tab, whoever wants the new token.       *)

\* Mutant: every caller sends a refresh of its own, and the last one is heard.
Each(t, prompted) ==
  renewal' = [renewal EXCEPT ![t] =
    [NoRenewal EXCEPT !.pc = "sent", !.cookie = jar, !.prompted = prompted]]

\* inFlightRefresh.current ??= refresh(); "prompted" is whether a refused token
\* is the reason.
Coalesced(t, prompted) ==
  renewal' = IF renewal[t].pc # "none" THEN renewal
             ELSE [renewal EXCEPT ![t] =
                    [NoRenewal EXCEPT !.pc = "sent", !.cookie = jar, !.prompted = prompted]]

\* The provider mounts, in a new tab.
Mount(t) ==
  /\ ~restoring[t] /\ renewal[t].pc = "none" /\ access[t] = SignedOut /\ entering[t] = "closed"
  /\ restoring' = [restoring EXCEPT ![t] = TRUE]
  /\ entering' = [entering EXCEPT ![t] = "no"]
  /\ Coalesced(t, FALSE)
  /\ UNCHANGED <<access, fetch, leaving, jar, secrets, wishes>>

\* Every session of the user is ended.
AllEnded == [c \in DOMAIN secrets |-> [secrets[c] EXCEPT !.state = "ended"]]

\* The server takes the current secret, forgives the one before it and takes an
\* older one, or one past its grace, for theft.
ServeRenewal(t) ==
  /\ renewal[t].pc = "sent"
  /\ LET c == renewal[t].cookie
         n == Len(secrets) + 1
     IN  \/ /\ State(c) = "current" /\ n <= MaxSecrets
            /\ secrets' = Append([d \in DOMAIN secrets |->
                 CASE d = c -> [secrets[d] EXCEPT !.state = "previous", !.by = t]
                   [] d # c /\ secrets[d].of = secrets[c].of /\ secrets[d].state = "previous"
                        -> [secrets[d] EXCEPT !.state = "old"]
                   [] OTHER -> secrets[d]], [secrets[c] EXCEPT !.by = t])
            /\ renewal' = [renewal EXCEPT ![t].pc = "served", ![t].answer = "granted", ![t].brings = n]
         \/ /\ State(c) = "previous"
            /\ renewal' = [renewal EXCEPT ![t].pc = "served", ![t].answer = "overtaken"]
            /\ UNCHANGED secrets
         \/ /\ State(c) = "old" \/ (State(c) = "previous" /\ "replay" \in TabFaults)
            /\ secrets' = AllEnded
            /\ renewal' = [renewal EXCEPT ![t].pc = "served", ![t].answer = "refused"]
         \/ /\ State(c) \in {"none", "ended"}
            /\ renewal' = [renewal EXCEPT ![t].pc = "served", ![t].answer = "refused"]
            /\ UNCHANGED secrets
  /\ UNCHANGED <<access, restoring, fetch, leaving, entering, jar, wishes>>

\* signOut: the tab forgets its token and asks the server to end the session.
Leave(t, cookie, why) ==
  leaving' = [leaving EXCEPT ![t] = [pc |-> "sent", cookie |-> cookie, why |-> why]]

Waiting(t, f) == fetch[t][f].pc = "waiting"

\* The new token is kept whatever the tab has become meanwhile, and the calls
\* that waited for it are sent again.
RenewalGranted(t) ==
  /\ renewal[t].pc = "served" /\ renewal[t].answer = "granted"
  /\ jar' = renewal[t].brings
  /\ access' = [access EXCEPT ![t] = [of |-> secrets[renewal[t].brings].of, age |-> "fresh"]]
  /\ fetch' = [fetch EXCEPT ![t] = [f \in Callers |->
                 IF Waiting(t, f) THEN [pc |-> "replayed", bearer |-> "fresh"] ELSE @[f]]]
  /\ renewal' = [renewal EXCEPT ![t] = NoRenewal]
  /\ restoring' = [restoring EXCEPT ![t] = FALSE]
  /\ UNCHANGED <<leaving, entering, secrets, wishes>>

\* A refused refresh signs the tab out, and the calls that waited for it fail;
\* the account load signs out once more, at the server too.
RenewalRefused(t) ==
  /\ renewal[t].pc = "served" /\ renewal[t].answer \in {"overtaken", "refused"}
  /\ jar' = IF renewal[t].answer = "refused" THEN 0 ELSE jar
  /\ access' = [access EXCEPT ![t] = SignedOut]
  /\ fetch' = [fetch EXCEPT ![t] = [f \in Callers |-> IF Waiting(t, f) THEN NoFetch ELSE @[f]]]
  /\ IF Waiting(t, "me") /\ leaving[t].pc = "none"
     THEN Leave(t, jar', renewal[t].answer) ELSE UNCHANGED leaving
  /\ renewal' = [renewal EXCEPT ![t] = NoRenewal]
  /\ restoring' = [restoring EXCEPT ![t] = FALSE]
  /\ UNCHANGED <<entering, secrets, wishes>>

\* No answer: the tab is signed out, but the account load only shows an error.
RenewalLost(t) ==
  /\ "lost" \in TabFaults /\ renewal[t].pc # "none"
  /\ access' = [access EXCEPT ![t] = SignedOut]
  /\ fetch' = [fetch EXCEPT ![t] = [f \in Callers |-> IF Waiting(t, f) THEN NoFetch ELSE @[f]]]
  /\ renewal' = [renewal EXCEPT ![t] = NoRenewal]
  /\ restoring' = [restoring EXCEPT ![t] = FALSE]
  /\ UNCHANGED <<leaving, entering, jar, secrets, wishes>>

----------------------------------------------------------------------------
(* Calls of the API.                                                       *)

\* The dashboard's hooks send with the token of the moment: signed out, the
\* account load is not mounted, but another hook's next call may still come.
Call(t, f) ==
  /\ entering[t] # "closed" /\ ~restoring[t] /\ fetch[t][f].pc = "none"
  /\ f = "me" => access[t] # SignedOut
  /\ wishes < MaxAsked /\ wishes' = wishes + 1
  /\ fetch' = [fetch EXCEPT ![t][f] = [pc |-> "sent", bearer |-> access[t].age]]
  /\ UNCHANGED <<access, restoring, renewal, leaving, entering, jar, secrets>>

Received(t, f) ==
  /\ fetch[t][f].pc = "sent" /\ fetch[t][f].bearer = "fresh"
  /\ fetch' = [fetch EXCEPT ![t][f] = NoFetch]
  /\ UNCHANGED <<access, restoring, renewal, leaving, entering, jar, secrets, wishes>>

\* A 401 for a token, and only for a token, asks for a new one.
Unauthorized(t, f) ==
  /\ fetch[t][f].pc = "sent" /\ fetch[t][f].bearer # "fresh"
  /\ IF fetch[t][f].bearer = "none"
     THEN fetch' = [fetch EXCEPT ![t][f] = NoFetch] /\ UNCHANGED renewal
     ELSE /\ fetch' = [fetch EXCEPT ![t][f].pc = "waiting"]
          /\ Coalesced(t, TRUE)
  /\ UNCHANGED <<access, restoring, leaving, entering, jar, secrets, wishes>>

\* The second answer is final, and a second 401 signs the account load out.
Replayed(t, f) ==
  /\ fetch[t][f].pc = "replayed"
  /\ fetch' = [fetch EXCEPT ![t][f] = NoFetch]
  /\ IF f = "me" /\ fetch[t][f].bearer = "stale" /\ leaving[t].pc = "none"
     THEN Leave(t, jar, "expired") /\ access' = [access EXCEPT ![t] = SignedOut]
     ELSE UNCHANGED <<leaving, access>>
  /\ UNCHANGED <<restoring, renewal, entering, jar, secrets, wishes>>

----------------------------------------------------------------------------
(* Signing out and in.                                                     *)

SignOut(t) ==
  /\ access[t] # SignedOut /\ ~restoring[t] /\ leaving[t].pc = "none"
  /\ wishes < MaxAsked /\ wishes' = wishes + 1
  /\ access' = [access EXCEPT ![t] = SignedOut]
  /\ Leave(t, jar, "asked")
  /\ UNCHANGED <<restoring, renewal, fetch, entering, jar, secrets>>

\* Only the current secret ends its session.
ServeLeave(t) ==
  /\ leaving[t].pc = "sent"
  /\ leaving' = [leaving EXCEPT ![t].pc = "served"]
  /\ secrets' = IF State(leaving[t].cookie) # "current" THEN secrets
                ELSE [c \in DOMAIN secrets |->
                        IF secrets[c].of = secrets[leaving[t].cookie].of
                        THEN [secrets[c] EXCEPT !.state = "ended"] ELSE secrets[c]]
  /\ UNCHANGED <<access, restoring, renewal, fetch, entering, jar, wishes>>

\* The answer clears the cookie, whether or not anything was ended; a lost one
\* is ignored.
LeaveSettled(t) ==
  /\ \/ leaving[t].pc = "served" /\ jar' = 0
     \/ leaving[t].pc # "none" /\ "lost" \in TabFaults /\ UNCHANGED jar
  /\ leaving' = [leaving EXCEPT ![t] = NotLeaving]
  /\ UNCHANGED <<access, restoring, renewal, fetch, entering, secrets, wishes>>

\* The form is there once the tab knows that it is signed out.
Enter(t) ==
  /\ entering[t] = "no" /\ ~restoring[t] /\ access[t] = SignedOut
  /\ entering' = [entering EXCEPT ![t] = "yes"]
  /\ UNCHANGED <<access, restoring, renewal, fetch, leaving, jar, secrets, wishes>>

Entered(t) ==
  /\ entering[t] = "yes" /\ Len(secrets) < MaxSecrets
  /\ jar' = Len(secrets) + 1
  /\ secrets' = Append(secrets, [of |-> jar', state |-> "current", by |-> t])
  /\ access' = [access EXCEPT ![t] = [of |-> jar', age |-> "fresh"]]
  /\ entering' = [entering EXCEPT ![t] = "no"]
  /\ UNCHANGED <<restoring, renewal, fetch, leaving, wishes>>

\* Access tokens run out.
RunOut ==
  /\ "expires" \in TabFaults
  /\ \E t \in AuthTabIds : access[t].age = "fresh"
  /\ access' = [t \in AuthTabIds |->
       IF access[t].age = "fresh" THEN [access[t] EXCEPT !.age = "stale"] ELSE access[t]]
  /\ fetch' = [t \in AuthTabIds |-> [f \in Callers |->
       IF fetch[t][f].bearer = "fresh" THEN [fetch[t][f] EXCEPT !.bearer = "stale"] ELSE fetch[t][f]]]
  /\ UNCHANGED <<restoring, renewal, leaving, entering, jar, secrets, wishes>>

----------------------------------------------------------------------------
(* The specification.                                                      *)

\* The tabs are not open yet; the browser may have the cookie of a live session.
TabsInit ==
  /\ access = [t \in AuthTabIds |-> SignedOut]
  /\ restoring = [t \in AuthTabIds |-> FALSE]
  /\ renewal = [t \in AuthTabIds |-> NoRenewal]
  /\ fetch = [t \in AuthTabIds |-> [f \in Callers |-> NoFetch]]
  /\ leaving = [t \in AuthTabIds |-> NotLeaving]
  /\ entering = [t \in AuthTabIds |-> "closed"]
  /\ \E first \in AuthTabIds :
       secrets \in {<<>>, <<[of |-> 1, state |-> "current", by |-> first]>>}
  /\ jar = Len(secrets)
  /\ wishes = 0

TabsNext ==
  \/ \E t \in AuthTabIds :
       \/ Mount(t) \/ ServeRenewal(t) \/ RenewalGranted(t) \/ RenewalRefused(t) \/ RenewalLost(t)
       \/ \E f \in Callers : Call(t, f) \/ Received(t, f) \/ Unauthorized(t, f) \/ Replayed(t, f)
       \/ SignOut(t) \/ ServeLeave(t) \/ LeaveSettled(t) \/ Enter(t) \/ Entered(t)
  \/ RunOut

TabsSpec == TabsInit /\ [][TabsNext]_tabs

----------------------------------------------------------------------------
(* Properties.                                                             *)

TabsTypeOK ==
  /\ \A t \in AuthTabIds :
       /\ access[t].of \in 0..Len(secrets)
       /\ \A f \in Callers : Waiting(t, f) => renewal[t].pc # "none"
       /\ renewal[t].brings \in 0..Len(secrets)
  /\ jar \in 0..Len(secrets)
  /\ \A c \in DOMAIN secrets : secrets[c].state \in {"current", "previous", "old", "ended"}

SignsOut(t) == access[t] # SignedOut /\ access'[t] = SignedOut
SignsIn(t) == access[t] = SignedOut /\ access'[t] # SignedOut

\* A call that was sent with a token waits for the tab's refresh.
SentSignedIn(t) == \E f \in Callers : Waiting(t, f) /\ fetch[t][f].bearer # "none"

AskedToLeave(t) == leaving'[t] # leaving[t] /\ leaving'[t].why \in {"asked", "expired"}

\* The secret the tab's refresh was refused for: there was none, its session had
\* ended or was another one's, or another tab had exchanged it.
NotItsOwnDoing(t) ==
  LET c == renewal[t].cookie
  IN  \/ State(c) \in {"none", "ended"} \/ secrets[c].of # access[t].of
      \/ secrets[c].by # t

Ends == \E c \in DOMAIN secrets : secrets[c].state = "current" /\ secrets'[c].state = "ended"

\* AuthProvider.tsx: coalescing keeps a tab's own refreshes from signing it out.
\* A tab is signed out only if the person asked, its refresh was lost, or found
\* no session, or lost against another tab's.  It is signed in only by a
\* sign-in, at its start, or by the refresh for a call that was sent with a token,
\* before the tab was signed out, and is refused afterwards: a call without one
\* asks for no refresh (authorizedRequest.ts).  And a session ends only if a sign-out
\* was asked for or a replay seen, or if the account load signs out after losing
\* such a race ("redundant - harmlessly so", useCurrentUser.ts).
SessionAsAsked ==
  [][/\ \A t \in AuthTabIds :
          /\ SignsOut(t) => AskedToLeave(t) \/ (RenewalLost(t) \/ NotItsOwnDoing(t))
          /\ SignsIn(t) => entering[t] = "yes" \/ restoring[t]
                                               \/ (renewal[t].prompted /\ SentSignedIn(t))
     /\ Ends => \E t \in AuthTabIds :
          \/ leaving[t].pc = "sent" /\ leaving'[t].pc = "served"
             /\ leaving[t].why \in {"asked", "overtaken", "expired"}
          \/ renewal[t].pc = "sent" /\ renewal'[t].answer = "refused"]_tabs
=============================================================================
