# A verification of Serviqo

Serviqo is a multi-tenant customer-support service: an Express and Mongoose API
over a single MongoDB server, a Socket.IO gateway, a React dashboard for staff and
a widget embedded in customers' sites. Its decisions are recorded in
`src/docs/decisions/`. This directory holds TLA+ models of the parts where its
steps interleave, the configurations TLC checks them with, and proofs checked by
TLAPS.

One fact shapes every model: **the server has no transactions and no locks**. The
unit of atomicity is one MongoDB operation on one document (a filter and an
update), and a unique index may refuse a write its filter allowed. Each HTTP
request is a process that awaits several such operations, and between two awaits
any other request may run. So an action of these models is one database operation
with the synchronous code up to the next `await`, and a handler's local variables
(what it read, and will act on later) are part of the state.

## Inventory

| Component | State | Operations | What is hard | What makes it correct | Module |
|---|---|---|---|---|---|
| roles and permissions (`memberships/permissions.ts`) | none | `can` | - | owner differs from admin by transfer alone | `Permissions` |
| memberships (`memberships/membership.repository.ts`) | one document per user and organization, two unique indexes | create, role, status, demote, promote, restore, delete | filters guard a document, only the indexes guard the collection | one membership per user, at most one owner | `MembershipStore`, `Tenants` (onboarding's undo) |
| team administration (`members/member.service.ts`) | memberships, assignments | add, change role, suspend, reactivate, remove | decisions on stale reads; sweep against claim | owners untouched, no suspended owner, revocation releases | `Team` |
| ownership transfer (`organizations/ownershipTransfer.service.ts`) | memberships | gates, demote, promote, compensate | a window without owner, failures inside it | exclusive, closes, ownership kept | `Team` |
| assignment (`conversations/*`) | `assignedTo` | claim, release, sweep | claim after sweep | no theft, nothing stranded | `Team` |
| staff sessions (`sessions/*`, `auth/{login,refresh,logout,logoutAll}.service.ts`) | session documents, cookies | sign-in, rotate, revoke | tabs sharing a cookie, lost and reordered responses, reuse detection | rotation strands nobody, ended means ended, no false alarm | `Sessions` |
| dashboard session (`web/features/auth`) | in-memory token per tab, cookie jar of all | restore, renew, retry a call, sign in, sign out | tabs coalesce their own refreshes only; answers of a session that is over | a tab changes hands only when asked to, or for a refresh it could not help losing | `AuthTabs`, `Sessions` (jar) |
| conversations and messages (`conversations`, `messages`) | one open conversation per customer, messages, `lastMessageAt` | resolve or open, send, close, reopen, publish | check then insert; unconditional touch; publish after write | one open conversation, nothing new in a closed one, dates lag only where sends overlap | `Conversations` |
| agent sockets (`realtime/*`, `memberships/membershipEvents.ts`) | connections, the inbox room | handshake, join, disconnect revoked; broadcasts | a handshake racing a revocation | nobody but members listens | `AgentSockets`, `AgentInbox` (broadcasts) |
| widget sockets (`realtime/createSocketServer.ts`) | connections, conversation rooms | join, send, broadcast, acknowledge | broken connections, late or no acknowledgements | what is stored is broadcast before it is acknowledged | `WidgetThread` |
| widget (`web/src/widget`) | panel, thread, cursor, composer, token | open, join, catch up, send, recover a closed conversation, details | live events against catch-up; a conversation closed under the visitor; a composer rebuilt under a send | every message shown once and none missing, no text lost, none stored twice unless unanswered or reported as failed | `WidgetThread`, `WidgetSessions` |
| agent inbox (`web/src/features/inbox`) | list, selection, thread, cursors | page, select, load more, reply, change status, live events | answers of a selection left behind, gaps at reconnect, announcements against answers | shows what the server has, but for the listed gaps | `AgentInbox` |
| accounts (`auth/{registration,verification,login}`, `accountTokens`, `users`) | the user, codes and their attempts, failed logins | register, resend, verify, sign in | concurrent guesses and resends; counters written after the read that used them | guesses are counted, one live code, a lock expires by itself | `Accounts` |
| onboarding (`organizations/organizationOnboarding.service.ts`) | organizations, memberships, slugs | create, undo | failure between two writes; a slug lost to another creation | no tenant without an owner, no membership without a tenant | `Tenants` |
| widget sessions (`widget/*`, `customers/*`, the client's storage) | customers, tokens by key and tab | find the tenant, resume or create, answer | lost answers, expiry, a token cleared for another's | a visitor becomes a new customer only once | `WidgetSessions` |
| organization settings (`organizations/widgetSettings.service.ts`) | widget key, allowed origins | read (minting a missing key), replace origins, rotate | Mongoose saves of documents read earlier | a key stands until rotated | `Tenants` |
| dashboard, team and installation pages (`web/features/{organizations,team,widget}`) | context, roster, settings shown | choose, reload, transfer, install | answers applied in the order they arrive | sections act in the organization chosen and show what they did | `Dashboard` |
| rate limits, platform, marketing and presentation | - | - | - | - | not modelled |

Calls between them: a route admits a request through `requireAccessToken`,
`requireOrganization` and `requirePermission`, which read the membership once; the
member and transfer services write memberships, publish a revocation to which only
the socket gateway listens, and sweep assignments in the conversation repository;
the dashboard obtains access tokens from `/auth/refresh`, whose cookie all tabs of a
browser share. Messages reach both clients twice over: by REST pages, and by a broadcast into a
conversation's room and the tenant's inbox room. The two clients merge these with one idea (a
set of ids seen and a single place where messages are appended), which `MessageFeed` states.

## Modules

| Module | Role |
|---|---|
| `Permissions` | the role catalogue and `Can` |
| `MembershipStore` | the collection: each repository method as a filter (`...Matches`) and the collection it leaves, and the two indexes |
| `Team` | requests that administer the team, transfer ownership, claim and release |
| `MCTeam` | symmetry for TLC |
| `AgentSockets` | `Team` composed with the agents' connections: handshake, inbox room, disconnection of a revoked member |
| `MCAgentSockets` | symmetry for TLC |
| `MembershipStoreProofs`, `TeamProofs`, `AgentSocketsProofs`, `SessionsProofs`, `ConversationsProofs`, `WidgetThreadProofs`, `AgentInboxProofs` | theorems about the module of that name |
| `PlatformProofs` | theorems about `Accounts`, `Tenants`, `WidgetSessions`, `AuthTabs`, `Dashboard` and their composition |
| `Sessions` | sign-in, refresh with rotation and reuse detection, sign-out, the browser's cookie |
| `MCSessions` | who sits at which browser, symmetry |
| `Conversations` | the services of conversations and messages, to be called by whoever extends it |
| `MessageFeed` | abstract: what a list of messages on a screen promises |
| `WidgetThread` | a visitor's widget and its socket, over `Conversations`; implements `MessageFeed` |
| `AgentInbox` | an agent's inbox and its socket, over `Conversations`; implements `MessageFeed` |
| `MCWidgetThread`, `MCAgentInbox` | constants, symmetry, and the one restriction each run makes |
| `Accounts` | registration, verification codes, the login lock |
| `Tenants` | onboarding and widget settings |
| `WidgetSessions` | visitors' tabs and tokens, over `Tenants` |
| `AuthTabs` | what the tabs of a staff browser take themselves to be |
| `Dashboard` | the page of one person: switcher, team, transfer, installation |
| `MCPlatform` | the last five in one run |

Definitions whose comment begins with `Mutant:`, or does not name code, and that stand before a definition
they resemble (`OwnerIndexIgnored`, `ClaimUnguarded`, `RotateUnguarded`, ...) are
mutants: plausible mistakes in the definition that follows. Replacing the definition
by its mutant makes the property listed in `PROJECT.json` fail, which is how the
properties are known to depend on the code.

### Team

`members` is the collection, `assignee` is `Conversation.assignedTo`, and `req[r]` is
a handler: its place in the code (`pc`), who acts, the validated inputs, and what it
has read. `Admit` is the middleware chain. `Check`/`Refuse` are a service's reads and
gates. `Add`, `ChangeRole`, `ChangeStatus`, `Remove`, `Demote`, `Promote`, `Compensate`,
`Claim`, `Release` are the writes, and each applies to the collection *as it is then*.
`Announce`, `SweepFind` and `Sweep` follow a revocation; `updateMany` clears one
conversation at a time. `releaseAssignmentsIfNeeded` of a transfer is a no-op, because
the former owner becomes an admin and admins may hold conversations; the owner count
after a transfer is only logged. `PromoteFails`, `PromoteReplyLost` and `Abort` are the
failures: not applied, applied but reported as failed, and the handler gone.

### AgentSockets

Extends `Team` with the staff's connections to the inbox room. `sock[s]` is a connection: waiting
for its membership to be read (`handshake`), for its organization (`proved`), or in the room
(`joined`). `ReadMembership` and `JoinInbox` are `authenticateAgent` before and after its second
await, the latter with `onAgentConnected`, which follows without one; the organization is taken
to be active. `Publish` is Team's `Announce` together with what its one subscriber does in the
same turn: ask the adapter for the sockets of the room. `DisconnectFetched` is the loop over the
answer, so `closing` is that answer. A failing `fetchSockets`, which the code logs, is left out:
the adapter in use answers from memory. `Restart` ends handlers and connections together, since
they live in one process; for the same reason no handler of Team is killed alone here. Broadcasts
look at the room and at nothing else, so "hears the tenant's traffic" is "is in the room".
`GiveUp` is a revocation that was written but that the driver reports as failed
(`GatewayFaults`): the handler throws before `announceRevocation`, and nobody is told. `overtaken` is a
history variable: connections past their read when a revocation of their user was published, and
connections past it or in the room when one was given up.

### Sessions

A secret is 256 random bits, so it is modelled by its place in the sequence of secrets
its session has accepted; a cookie is a session and such a number. `sessions[s]` is the
document, `jar[b]` the cookie a browser holds, `req[r]` a request: the cookie it left
with, and the Set-Cookie on its way back. `RefuseRefresh`, `RefuseRace`, `DetectReplay` and
`AcceptCurrent` are the branches of `classify`; `Rotate` is the compare-and-swap, whose
filter is the session id and the validated secret, nothing else. `RevokeAll` is
`updateMany`, which reads the matching sessions and writes them one by one. `Deliver`
is the browser applying the Set-Cookie, in whatever order responses arrive. A response
without a Set-Cookie changes nothing the model has, so its request just ends.
`estranged` and `late` are history variables: sessions whose cookie some browser had to
give up, and rotations applied after the session had ended.

### Conversations

`conv`, `messages` are the collections, and `call[k]` is one run of a service method: `resolveOpen`
is `Find`, `Create`, `FindAgain`; `create` of the message service is `AdmitSend` or `RefuseSend`,
`Insert`, `Touch`, `Publish`; `setStatus` is `SetStatus`, `AnnounceStatus`. Mongoose draws a message's
id in the process, before the insertion, so ids are numbered when drawn and may be stored in another
order; a date is the newest id drawn so far. `Touch` writes `lastMessageAt` unconditionally, as the
repository does. The partial unique index stands behind `Create` and the reopening. A failure is a write
that was not applied (`InsertFails`, `TouchFails`) or one that was applied and reported as failed
(`InsertReplyLost`, `SetStatusReplyLost`): the service throws, so nothing is touched, published or
announced. `closedAt`, `untouched`, `overtaken` and `misreported` are history variables: how many ids were drawn
when a conversation was closed, messages whose touch failed or never came, messages a newer one was stored before
they were published, and messages stored by an insertion reported as failed.

### WidgetThread

A page with one visitor's widget. `OpenSession`, `ConversationResolved` and the first walk through the history
are `openPanel`; `Connect`, `ServeJoin`, `JoinAcknowledged` and a walk from the last message shown are the join
and catch-up of every connection; `Submit` and what follows is `submitMessage` with its one recovery from
`CONVERSATION_CLOSED` (resolve again, rejoin, send again); `AskDetails`, `DetailsSaved`, `DetailsFail` are the
details form, whose answer opens a new thread and a new composer. `wire` is what the current
connection carries to the widget, in order; `Disconnect` and `Restart` lose it. A call the widget has
given up on goes on in the server. Broadcasts reach the room before the sender's acknowledgement
does, as in `handleSend`. `SwitchTo` replaces the thread and keeps what is shown, with its cursor. The
history variables say what the properties exempt: `passed` (messages the cursor went past unseen: a newer one was shown
on a connection that had not caught up, came with the history of another conversation, or was on the screen
already when the thread was switched), `unanswered` (a send given up without an answer),
`displaced` (a text whose composer was filled or thrown away), `caughtUp` (the current connection joined
the thread and read it to its end).

### AgentInbox

The hook `useAgentInbox` over three conversations that customers and colleagues write into.
The list is paged by a cursor; a click selects a row and starts the effect that loads the thread page by page;
`loadMoreMessages` follows the cursor the effect left; a reply and a change of status are answered
late, possibly to another selection; the socket delivers `message:new` and
`conversation:updated` in order, and nothing is read again when it is back. The history variables
name the gaps: `gapless` (the socket has been up since the selection), `reclicked` (the selected row
was clicked again, which clears the thread but runs no effect), `misled` (a page asked for on an
earlier visit of the thread set its cursor), `strayed` (a reply appended to another thread), `crossed` (writes of
a status overlapped, or one was not heard of) and `moved` (conversations touched since the list was read).

### Refinement: MessageFeed

`MessageFeed` has what is stored and what is shown, and four promises: only stored messages of
the thread are shown, each once, what is shown stays where it is, and the list changes otherwise only by
being cleared for another thread. `WidgetThread` implements it with `stored` = the ids of all messages (a switched
conversation keeps what was shown of the old one), `AgentInbox` with `stored` = the ids of the selected
thread's messages and of replies that strayed into it. Both are checked as the property
`ImplementsFeed`. The feed says nothing about what must be shown: that is `NothingMissing` and
`ThreadComplete`.

### Accounts

One address. `req[r]` is a registration (lookup, create, issue, mail), a resend (lookup, invalidate, issue,
mail), a verification (lookup, consume, mark, clear; or count a wrong guess) or a sign-in (lookup,
then fail or clear the lock), each step one database operation that may fail, the process dying at any.
A code is its token: a person types a mailed one or a wrong one. Each call carries its own
reading of the clock. `tested`, `mischarged`, `raced` and `locks` are history.

### Tenants

A creation is its gate, the owner's membership, then for each candidate slug a look and a write, and
the undo when all fail; every write may fail, and the owner's and the organization's may also be
applied and reported as failed. A settings request reads the organization and saves it: Mongoose's save
writes the paths that changed and leaves the others, which is why a key minted by a
read and origins replaced by another request do not undo each other. `retired`, `rotated`, `crossed` and
`misled` are history.

### WidgetSessions

Tabs of visitors, each showing a page of a tenant that embeds a widget key; `storage[t][k]` is the
token in the tab's `sessionStorage`. A visit is a request for a session with the token it carried: find
the tenant by key and origin, resume the token's customer or create one, answer. Tokens expire, answers
are lost, a browser may have no storage, keys are rotated by Tenants meanwhile. The details form's
request, whose customer the server takes from the token, is included, with `clearStoredToken`.

### AuthTabs

`access[t]` is a tab's access token, `renewal[t]` its one refresh in flight, which every caller
joins, `fetch[t]` the account load and another call with their single replay after a 401, `leaving[t]` and
`entering[t]` the sign-out and the sign-in. The jar is shared. The server is one step per request
here, since `Sessions` has it in full; what this module adds is who in the browser waits for which
answer.

### Dashboard

`chosen` is what the switcher shows and `context` what the server last confirmed; the team and
installation sections are mounted for the context. Every read in flight is a record of its own, because
nothing orders the answers; what is asked for by a section that is gone is not heard. The server is one step
per request: rosters and keys are version numbers. A request may fail at the page before or after it was served, and
a transfer the page has given up may be served later all the same (`adrift`, `ServeAdrift`). A second 401, which
the code takes for a sign-out in progress, has actions of its own (`RosterUnauthorized`, `ChangeUnauthorized`,
`TransferUnauthorized`): it leaves the status as it is, and `run` announces over the roster it has. `crossing`,
`doubtful` and `unheard` are history: reads that overlap, sections that may show the older of two answers or none to
the last read, and a transfer taken for failed that was made and not read again.

### MCPlatform

Accounts, Tenants with WidgetSessions, AuthTabs and Dashboard share no state, so
interleaving them shows nothing: the initial states each set one of them going (`focus`) and leave the others
at rest, and the states add up instead of multiplying. `FirstTab` and `FirstWorkspace` pick
one of several interchangeable starts.

## Runs

| Run | Bounds | Shows |
|---|---|---|
| `team_safety` | 3 people, 3 documents, 2 requests, kills, failed and lost promotions | one owner at most, one membership each, exclusive transfers, no suspended owner but by a restore |
| `team_progress` | 2 people, 1 conversation, 2 requests, failing promotions, fairness | nobody takes a colleague's conversation, ownership lost in the listed ways only, windows close, revocation releases |
| `team_ownerless` | no failures at all | *violated*: a stale role change or removal leaves no owner |
| `team_stranded` | no failures at all | *violated*: a claim landing after the sweep strands a conversation |
| `agent_sockets` | 2 people, of whom one connects, 3 documents, 2 requests, 2 connections, restarts, revocations reported as failed, fairness | a non-member's socket is in the room only while a disconnection is coming to it, after a handshake the revocation overtook, or after a revocation reported as failed; the first of these ends |
| `agent_sockets_revoked` | the same, but no write is misreported | *violated*: an overtaken handshake leaves a revoked member connected |
| `sessions` | 1 browser, 2 sessions, 2 requests, history 2, 3 rotations, clock 0..2 with lifetime 2 and grace 0, every failure; what expires is the only session | rotation strands nobody, an ended session rotates at most once more, a refused refresh clears a live cookie in the listed cases only |
| `widget_thread` | 1 visitor, 1 staff call, 2 overlapping submissions of 2 texts, 2 conversations, 2 messages, 1 closing or reopening, pages of 1, 1 broken connection, inserts that fail or are reported as failed, failing reads, timeouts, refused connections, a restart | the thread is whole once caught up, no text is lost, none is stored twice unless a send of it went unanswered or was reported as failed, and the widget is a feed |
| `agent_inbox` | 3 conversations (2 with a message), 2 sends or changes of status, lists and threads paged by 1, thread effect of 1 page, 3 clicks, 1 broken socket or failing touches, inserts and changes of status reported as failed, failing reads | the thread is complete, the rows current and the list whole but for the named gaps, and the inbox is a feed |
| `platform` | accounts: 2 requests, 2 codes, 3 guesses, limits of 2; tenants: 2 creations, 2 settings requests, 3 slugs of which one reserved, 4 keys; visits: 1 tab, 2 customers, 2 visits, 1 settings request; tabs: 2, with 3 secrets and 2 wishes; dashboard: 2 organizations, 2 acts; every failure | limits, undo, keys, tokens, sessions and pages hold but for the overlaps and failures each property names |
| `sessions_signout` | 1 session, 2 requests, no failures, no time | *violated*: a sign-out racing a rotation ends nothing |
| `sessions_false_alarm` | 1 session, 2 requests, no failures, no time | *violated*: an overtaken refresh is taken for theft |

Why the bounds are enough. In Team every race is between the read of one handler and
the write of another, so two handlers meet all of them; three documents are the owner, a
target and a person added or removed meanwhile (a person added twice needs the third
id). AgentSockets adds a second connection of the one person who can be revoked (the owner
cannot), so that the loop over fetched sockets has something to skip. In Sessions two overlapping requests give a validated refresh overtaken by any other
operation, including a refresh overtaken by several (the other request slot is used
again), and three rotations take a secret through current, previous, older and forgotten
with a history of two. Two sessions are the cookie's old and new owner. A lifetime of two ticks with a
grace of zero has a usable session at the moment of its rotation, one that is past the grace and still usable, and one that
has expired. The action constraint `OneEnd` keeps the ends of a session apart: when one expires, its account is
active and no other session is there (or the TTL index has removed it), while revocations, two sessions and a disabled account meet
one another before that.
 In `widget_thread` two texts and two
submissions are a send overtaken by another and a send repeated; two conversations are the closed one
and its successor; pages of one message make a catch-up take several reads, which live events
interleave. `MAX_HISTORY_PAGES` is not reached there: the cap is translated, but two messages do not fill it.
With one change of status, a resolution that fails because of a closing does not happen, so there
`ResolveFailsOnlyByClosing` says that resolutions do not fail. The theorem has no such bound. The action constraint keeps
the details form apart from broken and slow connections, each of which is explored in full on its own; likewise
`agent_inbox` has either a broken socket or messages that were not touched. In `agent_inbox` the thread effect's one page
and `loadMoreMessages` after it are the two ways pages come, and three clicks are a visit, another
conversation, and the first one again. In `platform` two requests are the overlap each of its properties is about,
and a limit of two is the smallest a race can overrun.

Deadlock is not checked: ids run out, and with them what callers can still do.

### What the violations mean

- **`team_ownerless`** - `updateRoleForOrganization` and `deleteForOrganization` filter on the ids
  alone. A handler that read its target as a non-owner writes after a transfer promoted
  it. ADR-028 calls that race unaffected and gives its failure window "in full" without it.
  `OwnershipLostOnlyBy`, which passes, bounds the damage: there is no other way.
- **`team_stranded`** - a claim admitted before its caller was removed is applied after the
  sweep. ADR-027 says a colleague who has left no longer strands their queue.
- **`agent_sockets_revoked`** - `fetchSockets` sees who is in the room. A handshake that read an active
  membership and awaits the organization joins afterwards, past both gates ADR-029 counts on to
  bound the window. `StaleSocketOnlyByHandshake`, which passes, says this is the only way but for a revocation
  that was written and reported as failed, which is never published.
- **`sessions_signout`** - ADR-013 argues that a stale secret at sign-out "cannot arise". It does
  when another tab's rotation is between its write and its response: the sign-out is a no-op and
  that response restores a live cookie.
- **`sessions_false_alarm`** - `classify` takes a secret older than the last history entry for theft,
  since no double-submit produces one. Two tabs do: one refresh is slow, the other tab
  refreshes twice. No time need pass, so the grace window is no help.

### Where other properties name an exception

Some statements of comments and decisions hold but for a race; the property states the exact
exception, and TLC shows that there is no other.

- `NothingMissing`: `widget.ts:516` says of a failed catch-up that the next reconnect tries again. It
  does, from the last message shown, which a live message may have moved past what was missed (`passed`). ADR-024:332-334 counts on a
  catch-up after every re-join; the join of `retryInNewConversation` has none, so a colleague's reply published into the
  new conversation before that join is passed by the visitor's own message, and the catch-up of a later connection starts
  after it. A switch of the thread, by that recovery or by the details form, keeps the cursor of the other conversation.
- `RefusalSparesLiveCookie`: ADR-012 has a refusal clear the cookie of a session that is over. A replayed secret is
  refused with a clearing answer even when `revokeEverythingFor` failed and swallowed the failure
  (`refresh.service.ts:123-131`): the live cookie of a session nobody revoked may go.
- `StoredTwiceOnlyUnanswered`: when `messageRepository.create` rejects after the document was stored (`message.service.ts:192`),
  the answer is INTERNAL_ERROR, the widget puts the text back, and the visitor sends it again; nothing marks it
  as the same message (`misreported`). Nobody is told of the first copy, so `NothingMissing` and `ThreadComplete` except it too
  until something reads it.
- `RowsCurrent`: a change of status that was written and reported as failed is not announced; likewise
  `StaleSocketOnlyByHandshake`: nor is a revocation (`member.service.ts:341`).
- `TextKept`: `widget.ts:529-531` must not lose the paragraph somebody typed. A text goes when the answer to the
  details form builds a new composer under a send, or when a failed send puts its text over another (`displaced`).
- `CustomersHeld`: `submitDetails` saves the details for the visitor of the token; when that token has
  expired, the visitor becomes another customer (`expired`).
- `OneCodeUnlessRaced`: `emailVerification.ts` says a user never holds two valid codes. Registration
  issues without invalidating, so a resend in between leaves two.
- `KeyStandsUntilRotated`: `ensureWidgetKey` mints at most once for a document; of two requests that both read
  none, the second replaces the first's key (`crossed`).
- `OwnerAndTenantTogether`: onboarding calls the order of its writes structural. An insertion applied and reported
  as failed, or a failed undo, breaks the pair (`misled`).
- `SessionAsAsked`: `useCurrentUser.ts:82-84` calls a sign-out redundant and harmless. After losing a
  benign race to another tab, it carries that tab's live cookie and ends the session. A tab that signed out
  is signed in again by a refresh that a call had asked for before (`AuthProvider.tsx:126`); a call sent without a token
  asks for none, which is what the property's clause about sign-ins says.
- `ActsInChosen`: nothing orders two reads of the organization (`OrganizationSwitcher.tsx:120-124`), so
  the older answer may win. A transfer whose request failed at the page is read again at once
  (`useOwnershipTransfer.ts:187-207`), while the server may still be at work on it, and not at all if its form is gone.
- `ShowsOwnChanges`: `reload` returns without a word on a second 401, so `run` announces a change over the
  roster from before it (`useTeamMembers.ts:155`, `:218`); and overlapping answers are applied as they come.
- `ThreadComplete`: `inboxRealtime.ts:182-187` leaves catching up to its caller, and the hook does not; a click
  on the selected row clears the thread without loading it.
- `ImplementsFeed` of the inbox: a reply answered after the selection moved on is appended to the wrong thread.

Two more are plain from the code and are not modelled: `AgentInbox.tsx:101-105` clears the draft before
the reply is known to have been stored and does not put it back, and `WidgetInstallation.tsx:134` writes the answer
of a save over a draft edited meanwhile. A few races break nothing that anything promises: a session created
while a logout-all passes (`session.repository.ts:153`), a clearing answer that arrives after a sign-in
in another tab (`refresh.service.ts:169`), a disconnection that meets the connection of a member just reactivated
(`createSocketServer.ts:208`), and a process that dies after storing a message and before publishing it.

## Fairness

`FairSpec` of Team adds weak fairness of each handler's `Serve`: Node's event loop resumes a
handler whenever its database call settles, and every call settles. Callers owe nothing:
`Admit` has no fairness, and neither has any failure. Runs that check liveness exclude `abort`,
since a killed handler finishes nothing. `FairGatewaySpec` does the same for handlers that publish, and for
the continuation of the subscriber; clients owe nothing, and a restart may come at any time. Sessions and the modules
after it state no liveness: their clients stop when a person stops, their sockets come back when the
network lets them, and the code retries nothing on its own.

## Proofs

Every theorem below holds for all values of the constants that the modules' named assumptions allow: any
finite or infinite sets of people, documents, calls, requests, tabs or connections, any page sizes and bounds, any
subset of the failures. The assumptions (`TeamAssumption`, `SocketsAssumption`, `SessionsAssumption`,
`ConversationsAssumption`, `WidgetAssumption`, `InboxAssumption`, `NoUserAssumption`, `AccountsAssumption`, `TenantsAssumption`,
`WidgetSessionsAssumption`, `AuthTabsAssumption`, `DashboardAssumption`) say what the constants are: numbers are
numbers, what stands for nobody is nobody, the slots of different callers are different slots, a colleague's reply is no
visitor's text. Two counts need finite sets: calls in flight on an account are finitely many (`AccountsAssumption`), as guesses still
to be counted are counted by cardinality, and so are organizations, whose keys are within the bound `MaxKeys` on keys ever minted
(`TenantsAssumption`), as those that are there from the start have theirs. `SocketsAssumption` also sets Team's own failures aside, because a process that dies takes the
sockets with it, which is `Restart`. TLC evaluates all of them in the runs.

Each safety theorem is `Init => IInv`, `IInv /\ [Next]_vars => IInv'` and `IInv => Inv`, with one lemma per action or per
kind of step; an action property is one lemma under the type invariant.

**`TeamProofs`**, over the lemmas of `MembershipStoreProofs`:

- `TypeCorrect`. Its `HandlerOK` says what a handler's fields hold at each place in the code; it is inductive.
- `NeverTwoOwners`, `NeverTwoMemberships`. Every action writes at most one document, and only through the repository
  (`StepWrites`); the two indexes admit no write that breaks the invariant.
- `OneTransferAtATime` (`TransferWindowExclusive`). A window opens only with a demotion, whose filter asks for
  an owner; with at most one owner, and none while a window is open, no second one opens.
- `SuspendedOwnersOnlyRestored`, `OwnershipNotLostOtherwise`, `NobodyTakesAnothersConversation`. Action properties, by
  cases on the repository's writes.

**`AgentSocketsProofs`**: `GatewayTypeCorrect`, and `OnlyHandshakesLeaveStaleSockets`
(`StaleSocketOnlyByHandshake`). The property speaks of sockets that have joined; what is inductive (`NoneUnexcused`) includes
those that have read their membership and not joined yet, and needs to know that a handler that passed its checks still names
the user of its document (`SubjectIsTargets`), so that the revocation it will announce is that user's.

**`SessionsProofs`**:

- `TypeCorrect`; `NothingOrphaned` (`RotationNeverOrphans`). `Circulation` says how secrets travel:
  nobody holds a secret its session has not issued, and an answer on its way has the only copy of the current one.
- `AtMostOneLateRotation` (`EndedSessionRotatesOnce`). After one late rotation nobody is left holding the
  secret that a second one would have to present (`LateOnce`).
- `RefusalsSpareLiveCookies` (`RefusalSparesLiveCookie`). The history is exactly the newest retired secrets (`HistoryOK`), and what
  a refused request presented stays refusable until its answer arrives (`RefusedForCause`); a replayed secret stays
  replayed, whatever happens until then (`ReplaysStand`), which is the case of the failed revocation.

**`ConversationsProofs`** has no theorem of its own, as nobody calls the services there. It proves for each operation
that it keeps `StoreInv` (types, ids drawn once, one open conversation for a customer, what a closed one may hold) and
`DatesInv` (the newest message of a conversation dates it, was published out of order, was not
touched, or has a send under way that will). The two clients add their callers to it:

- **`WidgetThreadProofs`**: `WidgetTypeCorrect`, `ClosedOnlyAdmitted`, `ResolutionsFailByClosing` and `WidgetThreadIsFeed`
  from `TypeInv`, which says for the panel, the connection, every walk, call, submission and signal what it can be while
  the others are where they are. `TextsKept` and `StoredOnceIfAnswered` from `TextInv`: a text whose sends have
  all been answered is in one place, in the composer, with one submission or stored once, not counting copies whose
  insertion was reported as failed (`Credited`), so a refusal on its way means that it was not stored but for those. Ids grow,
  so the copy a later send adds is the younger one (`CopiesInv`). `NothingIsMissing` from `TrackInv`: a walk has collected what its cursor
  is past (`WalkTracks`), broadcasts come in the order of ids or were overtaken (`WireOrdered`), and what
  is older than something shown is accounted for (`Behinds`).
- **`AgentInboxProofs`**: `InboxTypeCorrect`, `DatesBehindOnly` (`LastMessageAtBehindOnly`) and
  `ThreadIsFeed` from `TypeInv`. `ListReachesAll` (`ListComplete`) from `ListInv`: each conversation is listed, in a page on its way, after
  the cursor, or has moved. `RowsShowStatus` (`RowsCurrent`) from `RowsInv`: what will be heard of
  a row last is its status. `ThreadsAreWhole` (`ThreadComplete`) from `ThreadInv`: each message is shown, live, in a page
  read, or in the pages to come.

`WidgetThreadIsFeed` and `ThreadIsFeed` are the two refinements: an initial state of the client is one of `MessageFeed`, and
every step is a step of the feed or a stutter of it.

**`PlatformProofs`** has five inductive invariants, one for each component of the `platform` run, and what follows from each:

- `TenantsInv` gives `OwnerAndTenantTogether`, `NotExhaustedFalsely` and `KeyStandsUntilRotated`. A creation has its owner and no
  organization between its first and its last write (`Paired`), and every candidate behind its attempt is taken, and stays
  taken (`Tried`). All keys are at most `minted`, so a new one is neither another organization's nor retired (`KeysStand`).
- `VisitsInv`, over `TenantsInv`, gives `CustomersHeld`. That no token is kept under another tenant's key must be said of keys no
  organization has any more, or a later step could give them a meaning: a token's customer is of the only organization that
  has its key *or ever will* (`OfKey`, which is why keys must be minted once). A request that found a tenant answers with a customer of it, and
  with another than its token's only if that token had expired (`VisitOK`); a page that waits has stored nothing since
  but what its request carried (`PageOK`). So what an answer overwrites is nobody's, the same customer's, or expired.
- `AccountsInv` gives `GuessesCounted`, `OneCodeUnlessRaced` and `LockLiftedOnlyByOverlap`. What a code has withstood is what was counted
  plus the calls that have still to count it (`Charged`); a call about to issue knows that no code up to those it saw
  issued is live (`CallOK`), and one about to clear a lock knows how many locks it saw. The bound on codes holds because
  the calls that may still issue one are counted against it.
- `TabsInv` gives `SessionAsAsked`. The secret a granted refresh brings is nobody else's until it is delivered (`Brought`),
  the tab that exchanged the cookie's secret has not heard of it yet or is signed in with another session (`JarOK`), and so a tab whose
  refresh loses has not lost against itself (`Fair`). A refresh that a refused token asked for has its calls
  waiting, and each of them was sent with a token (`PromptedOK`).
- `DashboardInv` gives `ActsInChosen` and `ShowsOwnChanges`. As long as no two reads have overlapped there is one of which the section
  hears, it is about what is shown, and it is as new as everything announced (`ContextOK`, `TeamOK`, `InstallOK`).

`PlatformImplementsComponents` says that the composition implements the specification of each component, so that these theorems hold of
what TLC runs; `PlatformTypesOK` (`TypesOK`) follows from it and the five invariants.

The larger inductive invariants were checked with TLC, as invariants of a small instance, before they were proved. One was not inductive at
first for a reason that lay in the model: the history variable `passed` did not count what a switch of the thread
or a walk of the old thread leaves behind, which the bounds of the run did not reach.

### What is only model-checked

- Liveness (`WindowCloses`, `RevocationReleases`, `RevocationDisconnects`): the prover has no rule for fairness.

Every invariant and every action property of a passing run is stated by a theorem; so are the two refinements. The violations stay with
TLC by their nature: each is one behaviour.

## Plan

Done: all the modules, their runs, and the theorems above. What would come next is breadth, not proof: the inbox's filters, unread
counts and claiming.

There are a dozen runs: four for Team, three for Sessions, two for AgentSockets, one each for the widget,
the inbox and the rest.

## Not modelled, and why

Rate limiting is a counter kept by a library, or by one synchronous object per socket; the refusal it
gives a socket is one of the refusals `WidgetThread` has. Start-up, configuration, headers, logging and e-mail
are input and output; the marketing site and the rendering of the dashboard are presentation.
Left out of components that are otherwise modelled: the inbox's filters and unread counts, and claiming and
releasing from it (the same `runAction` as a change of status; the server's side is in Team);
`signOutAllDevices`, which the browser handles as it does a sign-out; the editing of the origins' draft; the
form that creates an organization; the sign-up and verification pages, which are forms over Accounts. Access
tokens are stateless: a revoked session's token lives out its fifteen minutes by design. Several
organizations never share a membership, a conversation or a message, so one is modelled where those are.
