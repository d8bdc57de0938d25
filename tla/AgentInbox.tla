----------------------------- MODULE AgentInbox -----------------------------
(***************************************************************************)
(* One agent's inbox (web/src/features/inbox/{useAgentInbox,inboxRealtime, *)
(* inboxApi}.ts), composed with Conversations: the list, the selected      *)
(* thread, replies and status changes of this agent, and the events of     *)
(* everybody's that the inbox room broadcasts to the agent's socket.       *)
(*                                                                         *)
(* A request is asked, read by the database, and answered later; the agent *)
(* may select another conversation in between.  The socket delivers events *)
(* in order and loses what it carries when it breaks; nothing is read      *)
(* again when it is back.                                                  *)
(***************************************************************************)
EXTENDS Conversations, Sequences, SequencesExt

CONSTANTS
  StaffSlots,     \* calls of colleagues, and of customers
  ReplySlot, ActionSlot,  \* this agent's reply, and change of status
  Started,        \* conversations, with a message each, at the beginning
  RowLimit,       \* PAGE_LIMIT of the list
  PageSize,       \* PAGE_LIMIT of a thread
  MaxThreadPages, \* MAX_THREAD_PAGES
  MaxWrites,      \* bound: sends and changes of status
  MaxDrops,       \* bound: sockets that break
  MaxSelections,  \* bound: clicks on a row
  NetFaults       \* of "restFails"

ASSUME InboxAssumption ==
  /\ Calls = StaffSlots \cup {ReplySlot, ActionSlot} /\ ReplySlot # ActionSlot
  /\ "reply" \in Bodies
  /\ Started \in 0..MaxConvs /\ Started <= MaxMessages
  /\ {RowLimit, PageSize, MaxThreadPages} \subseteq Nat \ {0}
  /\ {MaxDrops, MaxSelections, MaxWrites} \subseteq Nat
  /\ MaxMessages = Started + MaxWrites /\ MaxChanges = MaxWrites
  /\ NetFaults \subseteq {"restFails"}

VARIABLES
  rows,       \* the status of each conversation listed, as last heard of
  listing,    \* the request for a page of the list
  older,      \* the cursor of the next page of the list
  selected,   \* selectedConversationId
  thread,     \* threadStatus
  shown,      \* messages, by id
  seen,       \* seenMessageIds
  walk,       \* the effect that loads the thread
  newer,      \* threadCursor and the request of loadMoreMessages, fresh if it
              \* was asked since this thread was selected
  link,       \* is the socket connected?
  wire,       \* events on their way to it
  drops,      \* sockets that broke
  clicks,     \* rows clicked
  gapless,    \* history: the socket has been up since this thread was selected
  reclicked,  \* history: the selected row was clicked again
  misled,     \* history: a further page asked for on an earlier visit of this
              \* thread has set its cursor
  strayed,    \* history: replies shown in a thread they do not belong to
  crossed,    \* history: conversations whose status was written while another
              \* write or read of it was on its way here, or whose event was lost
              \* or never published
  moved       \* history: conversations created or touched since the list was read

list == <<rows, listing, older>>

view == <<selected, thread, shown, seen, walk, newer>>

connection == <<link, wire, drops>>

history == <<gapless, reclicked, misled, strayed, crossed, moved>>

inbox == <<list, view, connection, clicks, history>>

everything == <<store, inbox>>

NoListing == [pc |-> "none", page |-> [c \in Convs |-> "absent"]]

NoWalk == [pc |-> "none", after |-> 0, got |-> {}, pages |-> 0, more |-> FALSE]

\* No cursor: no further page.
NoCursor == <<0, 0>>

NoNewer == [pc |-> "none", conv |-> NoConv, after |-> 0, got |-> {}, more |-> FALSE,
            cursor |-> 0, fresh |-> FALSE]

Listed(c) == rows[c] # "absent"

\* A list or thread page: the first n of a set in the given order, and whether
\* there are more.
Oldest(ids, n) == {i \in ids : Cardinality({j \in ids : j < i}) < n}

IdsAfter(c, cursor) == {m.id : m \in {x \in MessagesOf(c) : x.id > cursor}}

----------------------------------------------------------------------------
(* The thread.                                                             *)

\* Mutant: a message older than the last one shown is taken for a duplicate.
AppendNewerOnly(ids) ==
  LET fresh == {i \in ids \ seen : shown = <<>> \/ i > Last(shown)}
  IN  /\ shown' = shown \o InOrder(fresh)
      /\ seen' = seen \cup fresh

\* Every source appends through seenMessageIds, a batch at a time.
AppendMessages(ids) ==
  /\ shown' = shown \o InOrder(ids \ seen)
  /\ seen' = seen \cup ids

\* A new selection starts with an empty list and a fresh identity set.
ForgetThread == shown' = <<>> /\ seen' = {}

\* selectConversation, and the effect that loads the thread: it only runs when
\* the selection has changed, and cancels the load before it.
Select(c) ==
  /\ Listed(c) /\ clicks < MaxSelections
  /\ clicks' = clicks + 1
  /\ selected' = c /\ thread' = "loading" /\ ForgetThread
  /\ newer' = [newer EXCEPT !.cursor = 0, !.fresh = FALSE]
  /\ misled' = FALSE
  /\ IF c = selected
     THEN reclicked' = TRUE /\ UNCHANGED <<walk, gapless>>
     ELSE /\ reclicked' = FALSE
          /\ gapless' = link
          /\ walk' = [NoWalk EXCEPT !.pc = "page"]
  /\ strayed' = {}
  /\ UNCHANGED <<store, list, connection, crossed, moved>>

\* The database answers the effect's request for a page.
ReadPage ==
  /\ walk.pc = "page"
  /\ LET later == IdsAfter(selected, walk.after)
         page == Oldest(later, PageSize)
     IN  walk' = [walk EXCEPT !.pc = "read", !.got = page, !.more = page # later]
  /\ UNCHANGED <<store, list, selected, thread, shown, seen, newer, connection,
                 clicks, history>>

\* The page is shown at once; the first makes the thread ready, and the last
\* leaves the cursor, if the cap ended the load.
ShowPage ==
  /\ walk.pc = "read"
  /\ AppendMessages(walk.got)
  /\ thread' = IF walk.pages = 0 THEN "ready" ELSE thread
  /\ LET cursor == Max(walk.got \cup {walk.after})
         goOn == walk.more /\ walk.pages + 1 < MaxThreadPages
     IN  /\ walk' = IF goOn
                    THEN [NoWalk EXCEPT !.pc = "page", !.after = cursor,
                                        !.pages = walk.pages + 1]
                    ELSE NoWalk
         /\ newer' = IF goOn THEN newer
                     ELSE [newer EXCEPT !.cursor = IF walk.more THEN cursor ELSE 0]
  /\ UNCHANGED <<store, list, selected, connection, clicks, history>>

LoadFails ==
  /\ walk.pc \in {"page", "read"} /\ "restFails" \in NetFaults
  /\ walk' = NoWalk /\ thread' = "error" /\ shown' = <<>>
  /\ UNCHANGED <<store, list, selected, seen, newer, connection, clicks, history>>

\* loadMoreMessages, past the cap: asked, read, answered; a failure sets only a
\* message that is not shown.
LoadMore ==
  /\ newer.pc = "none" /\ newer.cursor # 0 /\ thread = "ready"
  /\ newer' = [newer EXCEPT !.pc = "page", !.conv = selected, !.after = newer.cursor,
                            !.fresh = TRUE]
  /\ UNCHANGED <<store, list, selected, thread, shown, seen, walk, connection,
                 clicks, history>>

ReadMore ==
  /\ newer.pc = "page"
  /\ LET later == IdsAfter(newer.conv, newer.after)
         page == Oldest(later, PageSize)
     IN  newer' = [newer EXCEPT !.pc = "read", !.got = page, !.more = page # later]
  /\ UNCHANGED <<store, list, selected, thread, shown, seen, walk, connection,
                 clicks, history>>

\* Mutant: the answer is not checked against the selection.
ShowMoreUnchecked ==
  /\ newer.pc = "read"
  /\ AppendMessages(newer.got)
  /\ newer' = [NoNewer EXCEPT !.cursor =
                 IF newer.more THEN Max(newer.got \cup {newer.after}) ELSE 0]
  /\ UNCHANGED <<store, list, selected, thread, walk, connection, clicks, history>>

ShowMore ==
  /\ newer.pc = "read"
  /\ IF newer.conv = selected
     THEN /\ AppendMessages(newer.got)
          /\ newer' = [NoNewer EXCEPT !.cursor =
                         IF newer.more THEN Max(newer.got \cup {newer.after}) ELSE 0]
          /\ misled' = (misled \/ ~newer.fresh)
     ELSE /\ newer' = [NoNewer EXCEPT !.cursor = newer.cursor]
          /\ UNCHANGED <<shown, seen, misled>>
  /\ UNCHANGED <<store, list, selected, thread, walk, connection, clicks, gapless,
                 reclicked, strayed, crossed, moved>>

LoadMoreFails ==
  /\ newer.pc \in {"page", "read"} /\ "restFails" \in NetFaults
  /\ newer' = [NoNewer EXCEPT !.cursor = newer.cursor]
  /\ UNCHANGED <<store, list, selected, thread, shown, seen, walk, connection,
                 clicks, history>>

----------------------------------------------------------------------------
(* The list.                                                               *)

Position(c) == <<conv[c].lastAt, c>>

\* Most recent first: p comes after q.
After(p, q) == p[1] < q[1] \/ (p[1] = q[1] /\ p[2] < q[2])

\* listByOrganization from a cursor, NoCursor being the start.
Page(cursor) ==
  LET rest == {c \in Convs : Exists(c) /\ (cursor # NoCursor => After(Position(c), cursor))}
  IN  {c \in rest :
        Cardinality({d \in rest : After(Position(c), Position(d))}) < RowLimit}

\* Mutant: the row beyond the page is not asked for.
HasMoreOfPage(cursor, page) == Cardinality(page) > RowLimit

\* One row beyond the page says so.
HasMore(cursor, page) ==
  \E c \in Convs \ page :
    Exists(c) /\ (cursor # NoCursor => After(Position(c), cursor))

\* A button asks for the next page.
AskList ==
  /\ listing.pc = "none" /\ older # NoCursor
  /\ listing' = [listing EXCEPT !.pc = "asked"]
  /\ UNCHANGED <<store, rows, older, view, connection, clicks, history>>

\* The cursor is taken from the last row of the page.
LastOf(page) == CHOOSE c \in page : \A d \in page : d = c \/ After(Position(c), Position(d))

ReadList ==
  /\ listing.pc = "asked"
  /\ LET page == Page(older)
     IN  /\ listing' = [pc |-> "read", page |-> [c \in Convs |->
                          IF c \in page THEN conv[c].status ELSE "absent"]]
         /\ older' = IF HasMore(older, page) THEN Position(LastOf(page)) ELSE NoCursor
         /\ moved' = IF rows = NoListing.page THEN {} ELSE moved
  /\ UNCHANGED <<store, rows, view, connection, clicks, gapless, reclicked,
                 misled, strayed, crossed>>

\* The first page replaces the list; an older one adds the rows not yet held.
ShowList ==
  /\ listing.pc = "read"
  /\ rows' = [c \in Convs |-> IF Listed(c) THEN rows[c] ELSE listing.page[c]]
  /\ listing' = NoListing
  /\ UNCHANGED <<store, older, view, connection, clicks, history>>

\* Without a first page there is no list; an older page may be asked for again.
ListFails ==
  /\ listing.pc = "asked" /\ "restFails" \in NetFaults
  /\ listing' = IF rows = NoListing.page THEN [listing EXCEPT !.pc = "failed"]
                                         ELSE NoListing
  /\ UNCHANGED <<store, rows, older, view, connection, clicks, history>>

----------------------------------------------------------------------------
(* What the agent does.                                                    *)

\* The bound on sends, changes of status and creations, begun or done.
Budget ==
  (issued - Started) + changes + (Cardinality({c \in Convs : Exists(c)}) - Started)
    + Cardinality({k \in Calls : call[k].pc \in {"check", "setStatus", "find", "create"}})
    < MaxWrites

\* send: the composer is there for an open row and a thread that is ready, and
\* disabled while a reply is being sent.
Reply ==
  /\ At(ReplySlot, "idle") /\ Budget
  /\ thread = "ready" /\ rows[selected] = "open"
  /\ Begin(ReplySlot, "check", conv[selected].customer, selected, "reply", TRUE)
  /\ UNCHANGED <<data, inbox>>

\* The answer is appended to the thread on the screen, whichever it is by now.
ReplyAnswered ==
  /\ At(ReplySlot, "answered")
  /\ LET i == call[ReplySlot].answer
     IN  IF i = Failed \/ i \in seen
         THEN UNCHANGED <<shown, seen, strayed>>
         ELSE /\ AppendMessages({i})
              /\ strayed' = IF call[ReplySlot].conv = selected THEN strayed
                            ELSE strayed \cup {i}
  /\ Forget(ReplySlot)
  /\ UNCHANGED <<data, list, selected, thread, walk, newer, connection, clicks,
                 gapless, reclicked, misled, crossed, moved>>

\* runAction for close and reopen, the button being chosen by the row.
ChangeStatus ==
  /\ At(ActionSlot, "idle") /\ Budget
  /\ selected # NoConv /\ Listed(selected)
  /\ Begin(ActionSlot, "setStatus", conv[selected].customer, selected,
           IF rows[selected] = "closed" THEN "open" ELSE "closed", TRUE)
  /\ UNCHANGED <<data, inbox>>

\* The answer replaces the row.
ActionAnswered ==
  /\ At(ActionSlot, "answered")
  /\ LET c == call[ActionSlot].answer
     IN  rows' = IF c # Failed /\ Listed(c)
                 THEN [rows EXCEPT ![c] = call[ActionSlot].arg] ELSE rows
  /\ Forget(ActionSlot)
  /\ UNCHANGED <<data, listing, older, view, connection, clicks, history>>

----------------------------------------------------------------------------
(* The socket.                                                             *)

\* The handshake puts the socket into the inbox room; nothing is read again.
Connect ==
  /\ ~link
  /\ link' = TRUE
  /\ UNCHANGED <<store, list, view, wire, drops, clicks, history>>

\* What was on its way is lost.
Disconnect ==
  /\ link /\ drops < MaxDrops
  /\ link' = FALSE /\ wire' = <<>> /\ drops' = drops + 1
  /\ gapless' = FALSE
  /\ crossed' = crossed \cup {wire[i].conv : i \in {j \in DOMAIN wire : wire[j].kind = "updated"}}
  /\ UNCHANGED <<store, list, view, clicks, reclicked, misled, strayed, moved>>

Delivers(kind) == wire # <<>> /\ Head(wire).kind = kind /\ wire' = Tail(wire)

\* onMessage: appended, if it is of the selected thread.  Badges and the rows'
\* dates are left out.
OnMessage ==
  /\ Delivers("message")
  /\ IF Head(wire).conv = selected THEN AppendMessages({Head(wire).id})
                                   ELSE UNCHANGED <<shown, seen>>
  /\ UNCHANGED <<store, list, selected, thread, walk, newer, link, drops, clicks, history>>

\* Mutant: the row keeps its status.
KeepStatus(row, status) == row

\* The status is replaced.  The assignee, which is too, is left out.
Merge(row, status) == status

\* onConversationUpdate: a row not listed is left alone.
OnConversationUpdate ==
  /\ Delivers("updated")
  /\ LET c == Head(wire).conv
     IN  rows' = IF Listed(c) THEN [rows EXCEPT ![c] = Merge(@, Head(wire).status)] ELSE rows
  /\ UNCHANGED <<store, listing, older, view, link, drops, clicks, history>>

----------------------------------------------------------------------------
(* The server, and everybody else.                                         *)

\* An event reaches the inbox room if the socket is in it.
Emit(kind, c, id, status) ==
  wire' = IF link THEN Append(wire, [kind |-> kind, conv |-> c, id |-> id, status |-> status])
                  ELSE wire

\* Conversations created or touched by a step.
Moves ==
  moved' = moved \cup {c \in Convs : conv'[c].lastAt # conv[c].lastAt
                                       \/ (~Exists(c) /\ conv'[c].status # "absent")}

QuietStep(k) ==
  /\ Find(k) \/ Create(k) \/ FindAgain(k) \/ RefuseSend(k) \/ SendStep(k)
     \/ InsertFails(k) \/ InsertReplyLost(k)
  /\ Moves
  /\ UNCHANGED <<list, view, connection, clicks, gapless, reclicked, misled,
                 strayed, crossed>>

PublishMessage(k) ==
  /\ Publish(k)
  /\ Emit("message", call[k].conv, call[k].id, "none")
  /\ UNCHANGED <<list, view, link, drops, clicks, history>>

\* The status of c is being written, announced or answered by another call, or
\* a page that holds c is on its way.
Crossing(k, c) ==
  \/ listing.page[c] # "absent"
  \/ \E j \in Calls \ {k} :
       /\ call[j].conv = c
       /\ At(j, "announce") \/ (j = ActionSlot /\ At(j, "answered"))

WriteStatus(k) ==
  /\ SetStatus(k)
  /\ crossed' = IF Crossing(k, call[k].conv) THEN crossed \cup {call[k].conv} ELSE crossed
  /\ UNCHANGED <<list, view, connection, clicks, gapless, reclicked, misled, strayed,
                 moved>>

\* A status of which the inbox will not hear.
WriteStatusUnheard(k) ==
  /\ SetStatusReplyLost(k)
  /\ crossed' = crossed \cup {call[k].conv}
  /\ UNCHANGED <<list, view, connection, clicks, gapless, reclicked, misled, strayed,
                 moved>>

AnnounceUpdate(k) ==
  /\ AnnounceStatus(k)
  /\ Emit("updated", call[k].conv, 0, call[k].arg)
  /\ crossed' = IF link THEN crossed ELSE crossed \cup {call[k].conv}
  /\ UNCHANGED <<list, view, link, drops, clicks, gapless, reclicked, misled, strayed,
                 moved>>

\* A customer opens the widget.
CustomerCalls(k) ==
  /\ At(k, "idle")
  /\ \E u \in Customers : Begin(k, "find", u, NoConv, "resolve", FALSE)
  /\ UNCHANGED data

----------------------------------------------------------------------------
(* The specification.                                                      *)

\* A customer has written once in each conversation, and all were closed, but
\* the first is open again; the inbox has mounted, its socket is up and the
\* first page of the list asked for.
InboxInit ==
  /\ \E u \in Customers :
       conv = [c \in Convs |->
                 IF c \in 1..Started
                 THEN [status |-> IF c = 1 THEN "open" ELSE "closed",
                       customer |-> u, lastAt |-> c]
                 ELSE Absent]
  /\ messages = {[id |-> i, conv |-> i, body |-> "reply"] : i \in 1..Started}
  /\ issued = Started
  /\ changes = 0 /\ closedAt = [c \in Convs |-> IF c \in 2..Started THEN c ELSE 0]
  /\ untouched = {} /\ overtaken = {} /\ misreported = {}
  /\ call = [k \in Calls |-> Idle]
  /\ rows = NoListing.page /\ listing = [NoListing EXCEPT !.pc = "asked"]
  /\ older = NoCursor
  /\ selected = NoConv /\ thread = "idle" /\ shown = <<>> /\ seen = {}
  /\ walk = NoWalk /\ newer = NoNewer
  /\ link = TRUE /\ wire = <<>> /\ drops = 0 /\ clicks = 0
  /\ gapless = FALSE /\ reclicked = FALSE /\ misled = FALSE
  /\ strayed = {} /\ crossed = {} /\ moved = {}

Server(k) ==
  \/ QuietStep(k) \/ PublishMessage(k)
  \/ WriteStatus(k) \/ WriteStatusUnheard(k) \/ AnnounceUpdate(k)

Browser ==
  \/ AskList \/ ShowList \/ ListFails
  \/ \E c \in Convs : Select(c)
  \/ ShowPage \/ LoadFails \/ LoadMore \/ ShowMore \/ LoadMoreFails
  \/ Reply \/ ReplyAnswered \/ ChangeStatus \/ ActionAnswered
  \/ Connect \/ Disconnect \/ OnMessage \/ OnConversationUpdate

InboxNext ==
  \/ Browser
  \/ ReadList \/ ReadPage \/ ReadMore
  \/ \E k \in Calls : Server(k)
  \/ \E k \in StaffSlots : (StaffCalls(k) \/ CustomerCalls(k)) /\ Budget /\ UNCHANGED inbox

InboxSpec == InboxInit /\ [][InboxNext]_everything

----------------------------------------------------------------------------
(* Properties.                                                             *)

InboxTypeOK ==
  /\ StoreTypeOK
  /\ rows \in [Convs -> {"absent", "open", "closed"}]
  /\ selected \in Convs \cup {NoConv} /\ selected # NoConv => Listed(selected)
  /\ thread \in {"idle", "loading", "ready", "error"}
  /\ ToSet(shown) \subseteq seen /\ seen \subseteq Ids
  /\ ~link => wire = <<>>

\* Nothing of this thread is being loaded, sent or broadcast.
ThreadSettled ==
  /\ thread # "error" /\ walk.pc = "none" /\ newer.pc = "none" /\ newer.cursor = 0
  /\ \A i \in DOMAIN wire : wire[i].conv # selected
  /\ \A k \in Calls : call[k].conv = selected => ~Sending(k)

\* Pages and live events together show the whole thread, in whatever order
\* they come, or else an error, if the socket was up since the thread was
\* selected (a reconnection reads nothing again), if its row was not clicked
\* again (the thread stays at "loading": the effect does not run for an
\* unchanged selection), and if no page asked for on an earlier visit of it
\* has taken its cursor.  A message whose insertion was reported as failed is
\* published to nobody.
ThreadComplete ==
  ThreadSettled /\ gapless /\ ~reclicked /\ ~misled =>
    \A m \in MessagesOf(selected) : m.id \in ToSet(shown) \cup misreported

\* No write of c's status, and no page or event with c, is on its way.
RowSettled(c) ==
  /\ listing.page[c] = "absent"
  /\ \A i \in DOMAIN wire : wire[i].conv # c
  /\ \A k \in Calls : call[k].conv = c => At(k, "idle") \/ Sending(k)

\* A row shows the status its conversation has, unless writes of it overlapped
\* (their announcements or answers may come in the other order), one overlapped
\* a page of the list, or the announcement met no connection or never came, the
\* write having been reported as failed.
RowsCurrent ==
  \A c \in Convs :
    Listed(c) /\ RowSettled(c) /\ c \notin crossed => rows[c] = conv[c].status

\* Following the list's cursor to its end lists every conversation, but those
\* created since, or touched, and so moved before the cursor.
ListComplete ==
  listing.pc = "none" /\ older = NoCursor =>
    \A c \in Convs : Exists(c) => Listed(c) \/ c \in moved

\* ADR-025, section 8: one append point.  The thread is a feed of the selected
\* conversation's messages, whatever answers come in after the selection has
\* moved on; except that a reply answered late is appended to whatever is shown
\* then, and so counts as one of that thread's.
Feed == INSTANCE MessageFeed WITH stored <- {m.id : m \in MessagesOf(selected)} \cup strayed

ImplementsFeed == Feed!Spec
=============================================================================
