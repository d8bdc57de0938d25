------------------------------ MODULE Accounts ------------------------------
(***************************************************************************)
(* One address's account (auth/{registration,verification,login}.service,  *)
(* auth/emailVerification, the accountTokens and users modules).           *)
(*                                                                         *)
(* A call is one request; an action of a call is one database operation    *)
(* with the code that follows it up to the next await:                     *)
(*                                                                         *)
(*   register   lookup -> create -> issue -> mail                          *)
(*   resend     lookup -> invalidate -> issue -> mail                      *)
(*   verify     lookup -> consume -> mark -> clear codes                   *)
(*                               \-> count                                 *)
(*   login      lookup -> fail | clear lock                                *)
(*                                                                         *)
(* Codes are told apart by the token they were issued with; a person types *)
(* one that was mailed, or a wrong one.  The session a login creates is in *)
(* Sessions.                                                               *)
(***************************************************************************)
EXTENDS Naturals, FiniteSets

CONSTANTS
  Requests,      \* calls that may be in flight at once
  MaxTokens,     \* bound: codes ever issued
  MaxGuesses,    \* bound: codes and passwords ever submitted
  MaxAttempts,   \* EMAIL_VERIFICATION_MAX_ATTEMPTS
  MaxFailures,   \* LOGIN_MAX_FAILED_ATTEMPTS
  CodeLife,      \* EMAIL_VERIFICATION_TOKEN_TTL_MS
  LockTime,      \* LOGIN_LOCK_DURATION_MS
  MaxTime,       \* bound: the clock
  AccountFaults  \* of "dbFails", "mailFails", "dies"

ASSUME AccountsAssumption ==
  /\ {MaxTokens, MaxGuesses, MaxTime} \subseteq Nat
  /\ IsFiniteSet(Requests)
  /\ {MaxAttempts, MaxFailures, CodeLife, LockTime} \subseteq Nat \ {0}
  /\ AccountFaults \subseteq {"dbFails", "mailFails", "dies"}

VARIABLES
  user,        \* the account, if the address has one
  token,       \* its verification tokens
  issued,      \* how many were issued
  mailed,      \* tokens whose code the person has
  now,         \* the clock
  req,         \* the calls
  guesses,     \* codes and passwords submitted so far
  tested,      \* history: wrong codes tested while a token was live
  mischarged,  \* history: tokens tested by a guess that was not counted
               \* against them, or counted one that was tested against another
  raced,       \* history: tokens issued by a call after which another one had
               \* been issued since it made sure that there was none
  locks        \* history: how often the account was locked

accounts == <<user, token, issued, mailed, now, req, guesses, tested, mischarged, raced, locks>>

Tokens == 1..MaxTokens

\* What a person types: a mailed code by its token, for a login the password.
Wrong == 0
Right == 1

\* A token that does not exist.
NoToken == [state |-> "absent", attempts |-> 0, expires |-> 0]

NoAccount == [exists |-> FALSE, verified |-> FALSE, failures |-> 0, lockedUntil |-> 0]

\* "at" is the call's own reading of the clock, "since" and "locks" what it saw.
NoRequest == [op |-> "none", pc |-> "idle", code |-> Wrong, at |-> 0, since |-> 0,
              locks |-> 0, verified |-> FALSE, against |-> {}]

Is(k, pc) == req[k].pc = pc

Live(t) == token[t].state = "live"

\* consumedAt is null and expiresAt is after the call's reading of the clock.
Redeemable(t, k) == Live(t) /\ token[t].expires > req[k].at

Goto(k, pc) == req' = [req EXCEPT ![k].pc = pc]

Done(k) == req' = [req EXCEPT ![k] = NoRequest]

MayFail(fault) == fault \in AccountFaults

tokens == <<token, issued, mailed>>

past == <<tested, mischarged, raced, locks>>

----------------------------------------------------------------------------
(* Requests, and the first lookup of each by address.                      *)

Ask(k) ==
  /\ Is(k, "idle")
  /\ \/ \E op \in {"register", "resend"} :
          /\ issued + Cardinality({j \in Requests : req[j].op \in {"register", "resend"}})
               < MaxTokens
          /\ req' = [req EXCEPT ![k] = [NoRequest EXCEPT !.op = op, !.pc = "lookup"]]
          /\ UNCHANGED guesses
     \/ \E op \in {"verify", "login"} :
          /\ guesses < MaxGuesses /\ guesses' = guesses + 1
          /\ \E code \in {Wrong} \cup (IF op = "login" THEN {Right} ELSE mailed) :
               /\ req' = [req EXCEPT ![k] =
                    [NoRequest EXCEPT !.op = op, !.pc = "lookup", !.code = code, !.at = now]]
  /\ UNCHANGED <<user, tokens, now, past>>

\* A registration goes on if there is no account; the others if there is one,
\* a resend unless it is verified.
Lookup(k) ==
  /\ Is(k, "lookup") /\ req[k].op # "login"
  /\ CASE req[k].op = "register" -> IF user.exists THEN Done(k) ELSE Goto(k, "create")
       [] req[k].op = "resend" ->
            IF user.exists /\ ~user.verified THEN Goto(k, "invalidate") ELSE Done(k)
       [] OTHER ->
            IF user.exists
            THEN req' = [req EXCEPT ![k].pc = "consume", ![k].verified = user.verified]
            ELSE Done(k)
  /\ UNCHANGED <<user, tokens, now, guesses, past>>

----------------------------------------------------------------------------
(* Registering, and sending codes.                                         *)

\* The unique index has the last word.  Nothing is invalidated: the account is
\* taken to be too young to have a code.
CreateUser(k) ==
  /\ Is(k, "create")
  /\ IF user.exists
     THEN Done(k) /\ UNCHANGED user
     ELSE /\ user' = [NoAccount EXCEPT !.exists = TRUE]
          /\ req' = [req EXCEPT ![k].pc = "issue", ![k].since = issued]
  /\ UNCHANGED <<tokens, now, guesses, past>>

DeleteLive == [t \in Tokens |-> IF Live(t) THEN [token[t] EXCEPT !.state = "deleted"] ELSE token[t]]

\* Mutant: a resend leaves the codes before it alone.
InvalidateNothing(k) ==
  /\ Is(k, "invalidate")
  /\ req' = [req EXCEPT ![k].pc = "issue", ![k].since = issued]
  /\ UNCHANGED <<user, tokens, now, guesses, past>>

\* invalidateOutstandingForUser deletes what is not consumed.
Invalidate(k) ==
  /\ Is(k, "invalidate")
  /\ token' = DeleteLive
  /\ req' = [req EXCEPT ![k].pc = "issue", ![k].since = issued]
  /\ UNCHANGED <<user, issued, mailed, now, guesses, past>>

\* issueVerificationCode
Issue(k) ==
  /\ Is(k, "issue")
  /\ issued' = issued + 1
  /\ token' = [token EXCEPT ![issued + 1] =
                 [state |-> "live", attempts |-> 0, expires |-> now + CodeLife]]
  /\ raced' = IF issued > req[k].since THEN raced \cup {issued + 1} ELSE raced
  /\ req' = [req EXCEPT ![k].pc = "mail", ![k].code = issued + 1]
  /\ UNCHANGED <<user, mailed, now, guesses, tested, mischarged, locks>>

\* Delivery may fail; the request succeeds all the same.
Mail(k) ==
  /\ Is(k, "mail")
  /\ mailed' \in {mailed \cup {req[k].code}} \cup (IF MayFail("mailFails") THEN {mailed} ELSE {})
  /\ Done(k)
  /\ UNCHANGED <<user, token, issued, now, guesses, past>>

----------------------------------------------------------------------------
(* Redeeming a code.                                                       *)

\* The person's code, live and not expired, is consumed in one operation;
\* otherwise every live token has withstood a guess.
Consume(k) ==
  /\ Is(k, "consume")
  /\ LET c == req[k].code
         met == {t \in Tokens : Redeemable(t, k)}
     IN  IF c \in met
         THEN /\ token' = [token EXCEPT ![c].state = "spent"]
              /\ Goto(k, IF req[k].verified THEN "clearCodes" ELSE "mark")
              /\ UNCHANGED tested
         ELSE /\ tested' = [t \in Tokens |-> IF t \in met THEN tested[t] + 1 ELSE tested[t]]
              /\ req' = [req EXCEPT ![k].pc = "count", ![k].against = met]
              /\ UNCHANGED token
  /\ UNCHANGED <<user, issued, mailed, now, guesses, mischarged, raced, locks>>

\* Mutant: the budget ends one guess late.
AfterCountLate(attempts) == IF attempts > MaxAttempts THEN "spent" ELSE "live"

\* The second stage of the pipeline: a token is consumed with its budget.
AfterCount(attempts) == IF attempts >= MaxAttempts THEN "spent" ELSE "live"

\* registerFailedAttempt counts against one live token, whichever it finds.
Count(k) ==
  /\ Is(k, "count")
  /\ LET met == {t \in Tokens : Redeemable(t, k)}
     IN  IF met = {}
         THEN UNCHANGED <<token, mischarged>>
         ELSE \E t \in met :
                /\ token' = [token EXCEPT ![t].attempts = @ + 1,
                                          ![t].state = AfterCount(token[t].attempts + 1)]
                /\ mischarged' = mischarged \cup (req[k].against \ {t})
                                            \cup ({t} \ req[k].against)
  /\ Done(k)
  /\ UNCHANGED <<user, issued, mailed, now, guesses, tested, raced, locks>>

\* A failure to count is logged and swallowed.
CountFails(k) ==
  /\ Is(k, "count") /\ MayFail("dbFails")
  /\ mischarged' = mischarged \cup req[k].against
  /\ Done(k)
  /\ UNCHANGED <<user, tokens, now, guesses, tested, raced, locks>>

\* markEmailVerified, set once.
Mark(k) ==
  /\ Is(k, "mark")
  /\ user' = [user EXCEPT !.verified = TRUE]
  /\ Goto(k, "clearCodes")
  /\ UNCHANGED <<tokens, now, guesses, past>>

ClearCodes(k) ==
  /\ Is(k, "clearCodes")
  /\ token' = DeleteLive
  /\ Done(k)
  /\ UNCHANGED <<user, issued, mailed, now, guesses, past>>

----------------------------------------------------------------------------
(* Signing in.                                                             *)

\* Mutant: a lock is not looked at.
NeverLocked(until) == FALSE

Locked(until) == until > now

\* A locked account is refused whatever the password, and not counted.
LoginLookup(k) ==
  /\ Is(k, "lookup") /\ req[k].op = "login"
  /\ IF ~user.exists \/ Locked(user.lockedUntil) \/ (req[k].code # Wrong /\ ~user.verified)
     THEN Done(k)
     ELSE req' = [req EXCEPT ![k].pc = IF req[k].code = Wrong THEN "fail" ELSE "clearLock",
                             ![k].locks = locks]
  /\ UNCHANGED <<user, tokens, now, guesses, past>>

\* registerFailedLogin: counted and, at the threshold, locked and reset.
Fail(k) ==
  /\ Is(k, "fail")
  /\ IF user.failures + 1 >= MaxFailures
     THEN /\ user' = [user EXCEPT !.failures = 0, !.lockedUntil = now + LockTime]
          /\ locks' = locks + 1
     ELSE user' = [user EXCEPT !.failures = @ + 1] /\ UNCHANGED locks
  /\ Done(k)
  /\ UNCHANGED <<tokens, now, guesses, tested, mischarged, raced>>

\* clearLoginFailures, once the session has been created.
ClearLock(k) ==
  /\ Is(k, "clearLock")
  /\ user' = [user EXCEPT !.failures = 0, !.lockedUntil = 0]
  /\ Done(k)
  /\ UNCHANGED <<tokens, now, guesses, past>>

----------------------------------------------------------------------------
(* Everything else that can happen to a call.                              *)

\* The other operations end the call when they fail.
StepFails(k) ==
  /\ MayFail("dbFails")
  /\ req[k].pc \in {"invalidate", "issue", "mark", "clearCodes", "fail", "clearLock"}
  /\ Done(k)
  /\ UNCHANGED <<user, tokens, now, guesses, past>>

\* The process dies with its calls.
Dies ==
  /\ MayFail("dies") /\ \E k \in Requests : ~Is(k, "idle")
  /\ req' = [k \in Requests |-> NoRequest]
  /\ mischarged' = mischarged \cup
       UNION {req[k].against : k \in {j \in Requests : Is(j, "count")}}
  /\ UNCHANGED <<user, tokens, now, guesses, tested, raced, locks>>

Tick ==
  /\ now < MaxTime /\ now' = now + 1
  /\ UNCHANGED <<user, tokens, req, guesses, past>>

----------------------------------------------------------------------------
(* The specification.                                                      *)

\* No account yet, or one verified long ago.
AccountsInit ==
  /\ user \in {NoAccount, [NoAccount EXCEPT !.exists = TRUE, !.verified = TRUE]}
  /\ token = [t \in Tokens |-> NoToken] /\ issued = 0 /\ mailed = {}
  /\ now = 0
  /\ req = [k \in Requests |-> NoRequest] /\ guesses = 0
  /\ tested = [t \in Tokens |-> 0] /\ mischarged = {} /\ raced = {} /\ locks = 0

AccountsNext ==
  \/ \E k \in Requests :
       \/ Ask(k) \/ Lookup(k)
       \/ CreateUser(k) \/ Invalidate(k) \/ Issue(k) \/ Mail(k)
       \/ Consume(k) \/ Count(k) \/ CountFails(k) \/ Mark(k) \/ ClearCodes(k)
       \/ LoginLookup(k) \/ Fail(k) \/ ClearLock(k)
       \/ StepFails(k)
  \/ Dies
  \/ Tick

AccountsSpec == AccountsInit /\ [][AccountsNext]_accounts

----------------------------------------------------------------------------
(* Properties.                                                             *)

AccountsTypeOK ==
  /\ user.verified => user.exists
  /\ user.failures < MaxFailures
  /\ user.lockedUntil <= now + LockTime
  /\ \A t \in Tokens : token[t].state = "absent" <=> t > issued
  /\ \A t \in Tokens : token[t].attempts <= MaxAttempts
  /\ mailed \cup raced \cup mischarged \subseteq 1..issued

Uncounted(t) == Cardinality({k \in Requests : Is(k, "count") /\ t \in req[k].against})

\* ADR-030, section 4: a code can be guessed MaxAttempts times.  However
\* guesses overlap, a live code has withstood fewer wrong ones, but for those
\* still to be counted, and a code destroyed by its count has withstood as many;
\* except that the count goes to whichever code is live by then, and may fail.
GuessesCounted ==
  \A t \in 1..issued : t \notin mischarged =>
    /\ Live(t) => tested[t] - Uncounted(t) < MaxAttempts
    /\ token[t].attempts >= MaxAttempts => tested[t] >= MaxAttempts

\* emailVerification.ts: "a user never holds two valid codes at once".  Two are
\* live only if the later was issued by a call that had made sure there was none
\* before the earlier one was issued (registration only assumes so).
OneCodeUnlessRaced ==
  \A s, t \in Tokens : Live(s) /\ Live(t) /\ s < t => t \in raced

\* ADR-011, section 7: a lock expires by itself.  It is lifted before that only
\* by a right password read before the account was locked.
LockLiftedOnlyByOverlap ==
  [][user.lockedUntil > now /\ user'.lockedUntil = 0
       => \E k \in Requests : Is(k, "clearLock") /\ req[k].locks < locks]_accounts
=============================================================================
