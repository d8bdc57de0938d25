------------------------------ MODULE Sessions ------------------------------
(***************************************************************************)
(* Staff sessions: sign-in, refresh-token rotation with reuse detection,   *)
(* sign-out and sign-out-everywhere (auth/{login,refresh,logout,logoutAll} *)
(* .service.ts, sessions/session.repository.ts), together with the browser *)
(* that holds the refresh cookie for all of its dashboard tabs (web        *)
(* features/auth/AuthProvider.tsx).                                        *)
(*                                                                         *)
(* A refresh secret is 256 random bits, so two secrets are equal only when *)
(* they are the same one: it is modelled by its place in the sequence of   *)
(* secrets its session has accepted.  The session whose secret number 3 is *)
(* current has retired the numbers 0, 1 and 2, of which it remembers the   *)
(* last HistoryBound.  A cookie names a session and a secret.              *)
(*                                                                         *)
(* Every request is a process that awaits the database.  A tab coalesces   *)
(* its own refreshes but knows nothing of the other tabs, so the requests  *)
(* of one browser overlap freely; what a tab shows is not modelled.  The   *)
(* browser applies the Set-Cookie of each response as it arrives.  Time is *)
(* the server's clock.                                                     *)
(***************************************************************************)
EXTENDS Naturals, Sequences, Functions

CONSTANTS
  Users, Browsers,
  UserOf,        \* the person at each browser
  Sids,          \* session ids the collection may ever issue
  Requests,      \* requests that may be under way at once
  NoCookie,      \* no cookie in the jar; a response that clears it
  NoBrowser, NoUser,
  HistoryBound,  \* MAX_PREVIOUS_REFRESH_TOKEN_HASHES
  Grace,         \* REFRESH_RACE_GRACE_MS
  Ttl,           \* SESSION_TTL_MS
  MaxRotations,  \* bound: refreshes are sent while there have been fewer
  MaxTime,       \* bound: the clock stops here
  Faults         \* the failures that may happen

\* vanish: a response is lost on the way, or a write was applied and reported
\* as failed, so that there is none; revokeError: a revocation fails;
\* crash: a request is lost, or its handler ends where it stands; disable: an
\* operator disables an account (nothing in the server does).
AllFaults == {"vanish", "revokeError", "crash", "disable"}

Cookies == [sid : Sids, n : Nat]

ASSUME SessionsAssumption ==
  /\ UserOf \in [Browsers -> Users]
  /\ NoBrowser \notin Browsers /\ NoUser \notin Users
  /\ NoCookie \notin Cookies
  /\ HistoryBound \in Nat \ {0}
  /\ Grace \in Nat /\ Ttl \in Nat /\ MaxRotations \in Nat /\ MaxTime \in Nat
  /\ Faults \subseteq AllFaults

VARIABLES
  sessions,   \* the sessions collection
  disabled,   \* accounts that are no longer active
  jar,        \* the refresh cookie each browser holds
  req,        \* the requests under way
  now,        \* the clock
  estranged,  \* history: sessions whose cookie a browser was made to give up
  late        \* history: rotations of a session after it had ended

vars == <<sessions, disabled, jar, req, now, estranged, late>>

----------------------------------------------------------------------------
(* The sessions collection (session.model.ts).                             *)

Session ==
  [ state     : {"none", "live", "revoked", "purged"},
    user      : Users \cup {NoUser},
    current   : Nat,       \* currentRefreshTokenHash
    previous  : Seq(Nat),  \* previousRefreshTokenHashes, oldest first
    rotated   : BOOLEAN,   \* lastRotatedAt # null
    rotatedAt : Nat,
    expiresAt : Nat ]

Stored(s) == sessions[s].state \in {"live", "revoked"}

Live(s) == sessions[s].state = "live"

\* Mutant: only the expiry counts.
UsableIgnoringRevocation(s) == Stored(s) /\ now < sessions[s].expiresAt

\* isUsable: not revoked and not expired, whether or not the TTL index has
\* already removed the document.
Usable(s) == Live(s) /\ now < sessions[s].expiresAt

\* Mutant: the history without its $slice.
RetireUnbounded(previous, n) == Append(previous, n)

\* $slice of the history with the outgoing secret appended: the newest
\* HistoryBound entries.
Retire(previous, n) ==
  LET h == Append(previous, n)
  IN  IF Len(h) <= HistoryBound THEN h
      ELSE SubSeq(h, Len(h) - HistoryBound + 1, Len(h))

\* Where a presented secret stands with its session (ADR-004's table, with
\* the grace window splitting replay in two).
IsCurrent(s, n)  == n = sessions[s].current
IsRetired(s, n)  == \E i \in 1..Len(sessions[s].previous) : sessions[s].previous[i] = n
InGrace(s, n) ==
  /\ IsRetired(s, n)
  /\ sessions[s].previous[Len(sessions[s].previous)] = n
  /\ sessions[s].rotated
  /\ now <= sessions[s].rotatedAt + Grace

----------------------------------------------------------------------------
(* Requests.                                                               *)

Ops == {"login", "refresh", "logout", "logoutAll"}

Pcs == {"idle", "sent", "create", "entitle", "rotate", "revoke", "revokeAll",
        "sweep", "reply", "failed"}

Idle == [pc |-> "idle", op |-> "login", browser |-> NoBrowser, cookie |-> NoCookie,
         reply |-> NoCookie, todo |-> {}]

Handlers ==
  [ pc : Pcs, op : Ops, browser : Browsers \cup {NoBrowser},
    cookie : Cookies \cup {NoCookie},
    reply : Cookies \cup {NoCookie}, todo : SUBSET Sids ]

At(r, pc)  == req[r].pc = pc
Is(r, op)  == req[r].op = op
Presented(r) == req[r].cookie
BrowserAt(r) == req[r].browser

Goto(r, pc) == req' = [req EXCEPT ![r].pc = pc]

\* A response without a Set-Cookie changes nothing in the browser: the
\* request is over.
Finish(r) == req' = [req EXCEPT ![r] = Idle]

\* A response that sets the cookie, or clears it, is on its way; "failed" is
\* one that follows a failed revocation.
Answer(r, reply) == req' = [req EXCEPT ![r].pc = "reply", ![r].reply = reply]

AnswerFailure(r) == req' = [req EXCEPT ![r].pc = "failed", ![r].todo = {}]

Answered(r) == At(r, "reply") \/ At(r, "failed")

Send(r, b, op, cookie) ==
  /\ At(r, "idle")
  /\ req' = [req EXCEPT ![r] = [Idle EXCEPT !.pc = "sent", !.op = op,
                                            !.browser = b, !.cookie = cookie]]
  /\ UNCHANGED <<sessions, disabled, jar, now, estranged, late>>

Rotations == FoldFunction(+, 0, [s \in Sids |-> sessions[s].current])

\* The restore of a page load, or the retry of a request answered 401.  The
\* browser attaches the cookie its jar holds when the request leaves.
SendRefresh(r, b) ==
  /\ Rotations < MaxRotations
  /\ Send(r, b, "refresh", jar[b])

\* Sign-in does not read the cookie.
SendLogin(r, b) == Send(r, b, "login", NoCookie)

\* signOut and signOutAllDevices.
SendLogout(r, b) ==
  \E op \in {"logout", "logoutAll"} : Send(r, b, op, jar[b])

----------------------------------------------------------------------------
(* Sign-in, from a correct password on.                                    *)

LoginRefused(r) ==
  /\ At(r, "sent") /\ Is(r, "login")
  /\ UserOf[BrowserAt(r)] \in disabled
  /\ Finish(r)
  /\ UNCHANGED <<sessions, disabled, jar, now, estranged, late>>

LoginAllowed(r) ==
  /\ At(r, "sent") /\ Is(r, "login")
  /\ UserOf[BrowserAt(r)] \notin disabled
  /\ Goto(r, "create")
  /\ UNCHANGED <<sessions, disabled, jar, now, estranged, late>>

CreateSession(r) ==
  /\ At(r, "create")
  /\ \E s \in Sids :
       /\ sessions[s].state = "none"
       /\ sessions' = [sessions EXCEPT ![s] =
            [state |-> "live", user |-> UserOf[BrowserAt(r)], current |-> 0,
             previous |-> <<>>, rotated |-> FALSE, rotatedAt |-> 0,
             expiresAt |-> now + Ttl]]
       /\ Answer(r, [sid |-> s, n |-> 0])
  /\ UNCHANGED <<disabled, jar, now, estranged, late>>

----------------------------------------------------------------------------
(* Refresh: read and classify, check the account, compare and swap.        *)

Arrived(r, op) == At(r, "sent") /\ Is(r, op)

\* The session a request addresses is usable.
Addresses(r) == Presented(r) # NoCookie /\ Usable(Presented(r).sid)

\* No cookie, no usable session, or a secret it does not know.
RefuseRefresh(r) ==
  /\ Arrived(r, "refresh")
  /\ Addresses(r) => /\ ~IsCurrent(Presented(r).sid, Presented(r).n)
                     /\ ~IsRetired(Presented(r).sid, Presented(r).n)
  /\ Answer(r, NoCookie)
  /\ UNCHANGED <<sessions, disabled, jar, now, estranged, late>>

\* Mutant: the loser of a race has its cookie cleared too.
RefuseRaceAndClear(r) ==
  /\ Arrived(r, "refresh") /\ Addresses(r)
  /\ ~IsCurrent(Presented(r).sid, Presented(r).n)
  /\ InGrace(Presented(r).sid, Presented(r).n)
  /\ Answer(r, NoCookie)
  /\ UNCHANGED <<sessions, disabled, jar, now, estranged, late>>

\* concurrent_refresh: nothing is issued and the cookie is left alone.
RefuseRace(r) ==
  /\ Arrived(r, "refresh") /\ Addresses(r)
  /\ ~IsCurrent(Presented(r).sid, Presented(r).n)
  /\ InGrace(Presented(r).sid, Presented(r).n)
  /\ Finish(r)
  /\ UNCHANGED <<sessions, disabled, jar, now, estranged, late>>

\* replay: every session of the user is to be revoked.
DetectReplay(r) ==
  /\ Arrived(r, "refresh") /\ Addresses(r)
  /\ ~IsCurrent(Presented(r).sid, Presented(r).n)
  /\ IsRetired(Presented(r).sid, Presented(r).n)
  /\ ~InGrace(Presented(r).sid, Presented(r).n)
  /\ Goto(r, "revokeAll")
  /\ UNCHANGED <<sessions, disabled, jar, now, estranged, late>>

AcceptCurrent(r) ==
  /\ Arrived(r, "refresh") /\ Addresses(r)
  /\ IsCurrent(Presented(r).sid, Presented(r).n)
  /\ Goto(r, "entitle")
  /\ UNCHANGED <<sessions, disabled, jar, now, estranged, late>>

\* loadEntitledUser; a dead account's session is revoked on the way out.
CheckAccount(r) ==
  /\ At(r, "entitle")
  /\ Goto(r, IF sessions[Presented(r).sid].user \in disabled THEN "revoke" ELSE "rotate")
  /\ UNCHANGED <<sessions, disabled, jar, now, estranged, late>>

\* A session has ended: revoked, expired, purged or its owner disabled.
Ended(s) ==
  ~Live(s) \/ sessions[s].expiresAt <= now \/ sessions[s].user \in disabled

\* What rotateRefreshToken leaves behind in session s.
Rotated(s) ==
  [sessions[s] EXCEPT !.previous = Retire(@, sessions[s].current),
                      !.current = @ + 1, !.rotated = TRUE, !.rotatedAt = now]

\* Mutant: the filter without the validated secret.
RotateUnguarded(r) ==
  /\ At(r, "rotate")
  /\ LET s == Presented(r).sid
     IN  IF Stored(s)
         THEN /\ sessions' = [sessions EXCEPT ![s] = Rotated(s)]
              /\ late' = [late EXCEPT ![s] = IF Ended(s) THEN @ + 1 ELSE @]
              /\ Answer(r, [sid |-> s, n |-> sessions[s].current + 1])
         ELSE Finish(r) /\ UNCHANGED <<sessions, late>>
  /\ UNCHANGED <<disabled, jar, now, estranged>>

\* The filter asks for the secret that was validated and for nothing else:
\* neither revocation nor expiry.
Rotate(r) ==
  /\ At(r, "rotate")
  /\ LET s == Presented(r).sid
     IN  IF Stored(s) /\ IsCurrent(s, Presented(r).n)
         THEN /\ sessions' = [sessions EXCEPT ![s] = Rotated(s)]
              /\ late' = [late EXCEPT ![s] = IF Ended(s) THEN @ + 1 ELSE @]
              /\ Answer(r, [sid |-> s, n |-> sessions[s].current + 1])
         ELSE Finish(r) /\ UNCHANGED <<sessions, late>>
  /\ UNCHANGED <<disabled, jar, now, estranged>>

----------------------------------------------------------------------------
(* Sign-out.                                                               *)

\* resolveSessionFromRefreshCookie: only the current secret counts.
Resolves(r) == Addresses(r) /\ IsCurrent(Presented(r).sid, Presented(r).n)

\* Nothing to revoke: the answer is the same.
LogoutNoop(r) ==
  /\ Arrived(r, "logout") \/ Arrived(r, "logoutAll")
  /\ ~Resolves(r)
  /\ Answer(r, NoCookie)
  /\ UNCHANGED <<sessions, disabled, jar, now, estranged, late>>

LogoutResolved(r) ==
  /\ Arrived(r, "logout") \/ Arrived(r, "logoutAll")
  /\ Resolves(r)
  /\ Goto(r, IF Is(r, "logout") THEN "revoke" ELSE "revokeAll")
  /\ UNCHANGED <<sessions, disabled, jar, now, estranged, late>>

WithRevoked(s) ==
  [sessions EXCEPT ![s].state = IF @ = "live" THEN "revoked" ELSE @]

\* revokeById.
Revoke(r) ==
  /\ At(r, "revoke")
  /\ sessions' = WithRevoked(Presented(r).sid)
  /\ Answer(r, NoCookie)
  /\ UNCHANGED <<disabled, jar, now, estranged, late>>

\* revokeAllForUser: updateMany meets the user's sessions one at a time, and
\* a session created meanwhile may be missed.
RevokeAll(r) ==
  /\ At(r, "revokeAll")
  /\ req' = [req EXCEPT ![r].pc = "sweep",
                        ![r].todo = {s \in Sids : Live(s) /\
                           sessions[s].user = sessions[Presented(r).sid].user}]
  /\ UNCHANGED <<sessions, disabled, jar, now, estranged, late>>

RevokeNext(r) ==
  /\ At(r, "sweep")
  /\ \E s \in req[r].todo :
       /\ sessions' = WithRevoked(s)
       /\ req' = [req EXCEPT ![r].todo = @ \ {s}]
  /\ UNCHANGED <<disabled, jar, now, estranged, late>>

RevokedAll(r) ==
  /\ At(r, "sweep") /\ req[r].todo = {}
  /\ Answer(r, NoCookie)
  /\ UNCHANGED <<sessions, disabled, jar, now, estranged, late>>

\* A failed revocation is logged.  Signing out and reuse detection answer as
\* they would have; refusing a dead account ends in a 500 and no Set-Cookie.
RevokeFails(r) ==
  /\ "revokeError" \in Faults
  /\ req[r].pc \in {"revoke", "revokeAll", "sweep"}
  /\ IF At(r, "revoke") /\ Is(r, "refresh") THEN Finish(r) ELSE AnswerFailure(r)
  /\ UNCHANGED <<sessions, disabled, jar, now, estranged, late>>

\* The request never arrives, the process dies, or a read or a rotation
\* throws: a 5xx or no answer.
Crash(r) ==
  /\ "crash" \in Faults
  /\ ~At(r, "idle") /\ ~Answered(r)
  /\ Finish(r)
  /\ UNCHANGED <<sessions, disabled, jar, now, estranged, late>>

----------------------------------------------------------------------------
(* The response reaches the browser, or never does.                        *)

\* The sessions whose cookie browser b gives up when its jar becomes c.
GivenUp(b, c) ==
  {s \in Sids : /\ jar[b] # NoCookie /\ jar[b].sid = s
                /\ c = NoCookie \/ c.sid # s}

Deliver(r) ==
  /\ Answered(r)
  /\ jar' = [jar EXCEPT ![BrowserAt(r)] = req[r].reply]
  /\ estranged' = estranged \cup GivenUp(BrowserAt(r), req[r].reply)
  /\ Finish(r)
  /\ UNCHANGED <<sessions, disabled, now, late>>

Vanish(r) ==
  /\ "vanish" \in Faults
  /\ Answered(r)
  /\ estranged' = estranged \cup {s \in Sids : /\ req[r].reply \in Cookies
                                               /\ req[r].reply.sid = s}
  /\ Finish(r)
  /\ UNCHANGED <<sessions, disabled, jar, now, late>>

----------------------------------------------------------------------------
(* The environment.                                                        *)

Tick ==
  /\ now < MaxTime
  /\ now' = now + 1
  /\ UNCHANGED <<sessions, disabled, jar, req, estranged, late>>

\* The TTL index removes an expired document some time after it expired.
Purge(s) ==
  /\ Stored(s) /\ sessions[s].expiresAt <= now
  /\ sessions' = [sessions EXCEPT ![s].state = "purged"]
  /\ UNCHANGED <<disabled, jar, req, now, estranged, late>>

Disable(u) ==
  /\ "disable" \in Faults
  /\ disabled' = disabled \cup {u}
  /\ UNCHANGED <<sessions, jar, req, now, estranged, late>>

----------------------------------------------------------------------------
(* The specification.                                                      *)

\* Before anyone has signed in.
Init ==
  /\ sessions = [s \in Sids |->
       [state |-> "none", user |-> NoUser, current |-> 0, previous |-> <<>>,
        rotated |-> FALSE, rotatedAt |-> 0, expiresAt |-> 0]]
  /\ disabled = {}
  /\ jar = [b \in Browsers |-> NoCookie]
  /\ req = [r \in Requests |-> Idle]
  /\ now = 0
  /\ estranged = {}
  /\ late = [s \in Sids |-> 0]

Ask(r) ==
  \E b \in Browsers : SendRefresh(r, b) \/ SendLogin(r, b) \/ SendLogout(r, b)

Serve(r) ==
  \/ LoginRefused(r) \/ LoginAllowed(r) \/ CreateSession(r)
  \/ RefuseRefresh(r) \/ RefuseRace(r) \/ DetectReplay(r) \/ AcceptCurrent(r)
  \/ CheckAccount(r) \/ Rotate(r)
  \/ LogoutNoop(r) \/ LogoutResolved(r)
  \/ Revoke(r) \/ RevokeAll(r) \/ RevokeNext(r) \/ RevokedAll(r)

Environment ==
  \/ Tick
  \/ \E s \in Sids : Purge(s)
  \/ \E u \in Users : Disable(u)

Next ==
  \/ \E r \in Requests :
       Ask(r) \/ Serve(r) \/ RevokeFails(r) \/ Crash(r) \/ Deliver(r) \/ Vanish(r)
  \/ Environment

Spec == Init /\ [][Next]_vars

----------------------------------------------------------------------------
(* Properties.                                                             *)

\* What a handler holds fits where it stands.
HandlerOK(h) ==
  /\ h.pc # "idle" => h.browser \in Browsers
  /\ h.pc \in {"entitle", "rotate", "revoke", "revokeAll", "sweep"} =>
       h.cookie \in Cookies /\ sessions[h.cookie.sid].state # "none"

\* Every variable has its type, and no session remembers more than
\* HistoryBound retired secrets (rotateRefreshToken's $slice).
TypeOK ==
  /\ sessions \in [Sids -> Session]
  /\ \A s \in Sids : Len(sessions[s].previous) <= HistoryBound
  /\ disabled \in SUBSET Users
  /\ jar \in [Browsers -> Cookies \cup {NoCookie}]
  /\ req \in [Requests -> Handlers]
  /\ \A r \in Requests : HandlerOK(req[r])
  /\ now \in Nat
  /\ estranged \in SUBSET Sids
  /\ late \in [Sids -> Nat]

\* The cookie session s accepts now.
CurrentCookie(s) == [sid |-> s, n |-> sessions[s].current]

\* Rotation is a compare-and-swap so that tabs racing with one cookie cannot
\* leave their browser with a secret the session has already retired
\* (refresh.service.ts:245-263): unless its cookie was cleared, replaced by
\* another sign-in's or lost on the way, a usable session's current secret is
\* in a browser's jar or in a response on its way there.
RotationNeverOrphans ==
  \A s \in Sids : Usable(s) /\ s \notin estranged =>
    \/ \E b \in Browsers : jar[b] = CurrentCookie(s)
    \/ \E r \in Requests : Answered(r) /\ req[r].reply = CurrentCookie(s)

\* Revocation does not stop a refresh that has already been admitted: the
\* swap asks for the secret only.  What isUsable and loadEntitledUser still
\* guarantee is that an ended session rotates at most once more, however
\* many requests were under way when it ended.
EndedSessionRotatesOnce == \A s \in Sids : late[s] <= 1

\* The response of r clears the cookie of the session r presented.
ClearsOwnCookie(r) ==
  LET b == BrowserAt(r)
  IN  /\ Answered(r) /\ Is(r, "refresh") /\ req'[r].pc = "idle"
      /\ jar[b] \in Cookies /\ jar'[b] = NoCookie
      /\ Presented(r) \in Cookies /\ jar[b].sid = Presented(r).sid

\* Secret n of session s was rotated away more than once, or longer ago than
\* the grace lasts.
Replayed(s, n) ==
  \/ n + 1 < sessions[s].current
  \/ n + 1 = sessions[s].current /\ sessions[s].rotatedAt + Grace < now

\* A refused refresh clears the cookie only when the session it presented is
\* over (ADR-012 sections 4 and 5): losing a race, at any moment, never costs
\* a browser the live cookie the winner brought.  The exceptions are a
\* secret older than the history remembers, a disabled account, and a replayed
\* secret when revoking the user's sessions failed: revokeEverythingFor
\* swallows the failure and the refusal still clears the cookie
\* (refresh.service.ts:123-131), so the live one of a session that nobody
\* revoked may go.
RefusalSparesLiveCookie ==
  [][\A r \in Requests : ClearsOwnCookie(r) =>
       LET s == Presented(r).sid
       IN  \/ ~Usable(s)
           \/ sessions[s].current - Presented(r).n > HistoryBound
           \/ sessions[s].user \in disabled
           \/ At(r, "failed") /\ Replayed(s, Presented(r).n)]_vars

\* Claimed by ADR-013 (section 4 and Consequences): a browser signs out with
\* its session's current secret, so the session is over when the answer is
\* sent.  A sign-out racing a rotation presents a retired one.
SignOutEndsSession ==
  \A r \in Requests :
    At(r, "reply") /\ Is(r, "logout") /\ Presented(r) \in Cookies
      => ~Usable(Presented(r).sid)

\* Claimed by classify's comment (refresh.service.ts:90-92) and ADR-012's
\* Consequences: no first-party client presents a secret that has been
\* rotated away more than once, so with no time passing there is no alarm.
FirstPartyNeverAlarms ==
  \A r \in Requests : ~(At(r, "revokeAll") /\ Is(r, "refresh"))
=============================================================================
