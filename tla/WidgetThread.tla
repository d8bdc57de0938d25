---------------------------- MODULE WidgetThread ----------------------------
(***************************************************************************)
(* One visitor's chat widget (web/src/widget/{widget,realtime,             *)
(* conversation}.ts) and its socket (handleJoin and handleSend of          *)
(* realtime/createSocketServer.ts), composed with Conversations.           *)
(*                                                                         *)
(*   open:       session -> resolve the conversation -> history -> connect *)
(*   connected:  join -> catch up from the last message shown              *)
(*   submit:     send -> acknowledged, or closed: resolve -> join -> send  *)
(*                                                                         *)
(* A connection carries events and acknowledgements to the widget in       *)
(* order, and loses what it carries when it breaks; HTTP answers arrive    *)
(* when they please.  The widget's page stays open throughout.             *)
(***************************************************************************)
EXTENDS Conversations, Sequences, SequencesExt

CONSTANTS
  Visitor,       \* the customer the widget's token is for
  StaffSlots,    \* calls of staff
  SendSlots,     \* submissions of the widget that may overlap
  BootSlot,      \* the call that resolves the conversation at the opening
  Walkers,       \* history loads that may overlap
  Texts, NoText, \* what the visitor may type
  PageSize,      \* messages per page of history
  MaxPages,      \* MAX_HISTORY_PAGES
  MaxDrops,      \* bound: connections that break
  NetFaults      \* of "restFails", "timeout", "refused", "restart"

\* A slot belongs to one caller, a signal to one receiver, and each of the texts
\* to what the visitor typed once.
ASSUME WidgetAssumption ==
  /\ Calls = StaffSlots \cup SendSlots \cup {BootSlot}
  /\ StaffSlots \cap SendSlots = {} /\ BootSlot \notin StaffSlots \cup SendSlots
  /\ Walkers \cap SendSlots = {} /\ "room" \notin Walkers \cup SendSlots
  /\ Visitor \in Customers /\ Texts \subseteq Bodies /\ "reply" \in Bodies
  /\ "reply" \notin Texts /\ NoText \notin Texts
  /\ PageSize \in Nat \ {0} /\ MaxPages \in Nat \ {0} /\ MaxDrops \in Nat
  /\ NetFaults \subseteq {"restFails", "timeout", "refused", "restart"}

VARIABLES
  panel,      \* the widget's state: idle, loading, ready or error
  thread,     \* its conversationId
  shown,      \* renderedMessages, by id
  link,       \* the connection: off (never started), down, up, failed
  room,       \* joinedConversationIds of the current connection
  wire,       \* what the current connection carries to the widget
  walk,       \* loads of history
  submission, \* runs of submitMessage
  input,      \* what the composer holds
  locked,     \* is the composer disabled?
  typed,      \* history: texts typed so far
  unanswered, \* history: texts whose send was given up without an answer
  displaced,  \* history: texts a composer held that was filled or thrown away
  details,    \* the details form: offered, asked (of a conversation) or saved
  caughtUp,   \* history: this connection joined the thread and then read it
              \* to the end
  passed,     \* history: stored messages of the thread, not shown, when a newer
              \* one was shown out of turn, on a connection that had not caught
              \* up or of another conversation; or shown before the thread was
  drops       \* how many connections have broken

screen == <<panel, thread, shown>>

socket == <<link, room, wire, drops>>

composer == <<submission, input, locked, typed, unanswered, displaced, details>>

progress == <<caughtUp, passed>>

widget == <<screen, socket, composer, walk, progress>>

everything == <<store, widget>>

\* What a connection carries, and whom it concerns.
Signal(kind, to, id) == [kind |-> kind, to |-> to, id |-> id]

NoWalk == [pc |-> "idle", conv |-> NoConv, after |-> 0, got |-> {},
           pages |-> 0, more |-> FALSE, fresh |-> FALSE]

NoSubmission ==
  [pc |-> "none", text |-> NoText, conv |-> NoConv, live |-> FALSE, own |-> TRUE]

Stage(k, pc) == submission[k].pc = pc

Walking(w, pc) == walk[w].pc = pc

----------------------------------------------------------------------------
(* The list of messages.                                                   *)

\* Mutant: an append point forgets the check.
AppendUnchecked(ids) == shown' = shown \o InOrder(ids)

\* appendMessage, for the messages of one answer: seenMessageIds drops the
\* ones already shown.
AppendMessages(ids) == shown' = shown \o InOrder(ids \ ToSet(shown))

\* lastRenderedMessageId: the last appended, not the greatest.
LastRendered == IF shown = <<>> THEN 0 ELSE Last(shown)

\* The messages of c that showing these leaves behind.
Behind(c, ids) ==
  {m.id : m \in {x \in MessagesOf(c) : /\ x.id \notin ToSet(shown) \cup ids
                                       /\ \E i \in ids : x.id < i}}

\* The thread becomes c.  What is shown stays, and so does the cursor.
SwitchTo(c) ==
  /\ thread' = c
  /\ caughtUp' = (caughtUp /\ c = thread)
  /\ passed' = IF c = thread THEN passed ELSE passed \cup Behind(c, ToSet(shown))

----------------------------------------------------------------------------
(* Opening the panel.                                                      *)

\* open() when idle, or the retry button: the session is opened (or not),
\* and the conversation is asked for.
OpenSession ==
  /\ panel \in {"idle", "error"} /\ At(BootSlot, "idle")
  /\ \/ /\ panel' = "loading"
        /\ Begin(BootSlot, "find", Visitor, NoConv, "resolve", TRUE)
     \/ /\ panel' = "error" /\ "restFails" \in NetFaults
        /\ UNCHANGED call
  /\ UNCHANGED <<data, thread, shown, socket, composer, walk, progress>>

\* The conversation has arrived: its history is loaded from the start.
ConversationResolved(w) ==
  /\ At(BootSlot, "answered") /\ call[BootSlot].answer # Failed
  /\ Walking(w, "idle")
  /\ walk' = [walk EXCEPT ![w] = [NoWalk EXCEPT !.pc = "page",
                                    !.conv = call[BootSlot].answer]]
  /\ Forget(BootSlot)
  /\ UNCHANGED <<data, screen, socket, composer, progress>>

OpeningFails ==
  /\ \/ At(BootSlot, "answered") /\ call[BootSlot].answer = Failed
     \/ "restFails" \in NetFaults /\ (At(BootSlot, "find") \/ At(BootSlot, "answered"))
  /\ panel' = "error"
  /\ Forget(BootSlot)
  /\ UNCHANGED <<data, thread, shown, socket, composer, walk, progress>>

----------------------------------------------------------------------------
(* loadHistory, for the opening and for the catch-up.                      *)

\* The oldest n messages of the walk's conversation after its cursor.
Following(w, n) ==
  LET later == {m.id : m \in {x \in MessagesOf(walk[w].conv) : x.id > walk[w].after}}
  IN  {i \in later : Cardinality({j \in later : j < i}) < n}

Collect(w, page, cursor, more) ==
  walk' = [walk EXCEPT
    ![w].got = @ \cup page,
    ![w].after = cursor,
    ![w].pages = @ + 1,
    ![w].more = more,
    ![w].pc = IF more /\ walk[w].pages + 1 < MaxPages THEN "page" ELSE "read"]

\* Mutant: the cursor is the extra row that says whether there are more.
ReadPageSkipping(w) ==
  /\ Walking(w, "page")
  /\ LET rows == Following(w, PageSize + 1)
         page == Following(w, PageSize)
     IN  Collect(w, page, Max(rows \cup {walk[w].after}), rows # page)
  /\ UNCHANGED <<store, screen, socket, composer, progress>>

\* One page, and one row more to see whether another follows.
ReadPage(w) ==
  /\ Walking(w, "page")
  /\ LET rows == Following(w, PageSize + 1)
         page == Following(w, PageSize)
     IN  Collect(w, page, Max(page \cup {walk[w].after}), rows # page)
  /\ UNCHANGED <<store, screen, socket, composer, progress>>

\* The whole answer is shown.  At the opening the panel becomes ready and the
\* socket is created; afterwards it was a catch-up.
Show(w) ==
  /\ Walking(w, "read")
  /\ AppendMessages(walk[w].got)
  /\ walk' = [walk EXCEPT ![w] = NoWalk]
  /\ IF panel = "loading"
     THEN /\ panel' = "ready" /\ thread' = walk[w].conv
          /\ link' = "down"
          /\ UNCHANGED progress
     ELSE /\ caughtUp' = (caughtUp \/ (walk[w].fresh /\ ~walk[w].more
                                         /\ walk[w].conv = thread))
          /\ passed' = IF walk[w].conv = thread THEN passed
                       ELSE passed \cup Behind(thread, walk[w].got)
          /\ UNCHANGED <<panel, thread, link>>
  /\ UNCHANGED <<store, room, wire, drops, composer>>

\* A page cannot be had: the opening shows an error, a catch-up gives up.
WalkFails(w) ==
  /\ walk[w].pc \in {"page", "read"} /\ "restFails" \in NetFaults
  /\ walk' = [walk EXCEPT ![w] = NoWalk]
  /\ panel' = IF panel = "loading" THEN "error" ELSE panel
  /\ UNCHANGED <<store, thread, shown, socket, composer, progress>>

----------------------------------------------------------------------------
(* The connection.                                                         *)

\* The "connect" event: join, then catch up.
Connect(w) ==
  /\ link = "down" /\ Walking(w, "idle")
  /\ link' = "up"
  /\ walk' = [walk EXCEPT ![w] = [NoWalk EXCEPT !.pc = "join", !.conv = thread,
                                                !.fresh = TRUE]]
  /\ locked' = FALSE
  /\ UNCHANGED <<store, screen, room, wire, drops, submission, input, typed,
                 unanswered, displaced, details, progress>>

\* Mutant: the rooms outlive the connection.
DropKeepingRoom == link' = "down" /\ wire' = <<>> /\ drops' = drops + 1 /\ UNCHANGED room

Drop == link' = "down" /\ room' = {} /\ wire' = <<>> /\ drops' = drops + 1

\* What a broken connection takes with it, on both sides.
Broken ==
  /\ link = "up" /\ drops < MaxDrops
  /\ Drop
  /\ walk' = [w \in Walkers |-> [walk[w] EXCEPT !.fresh = FALSE]]
  /\ submission' = [k \in SendSlots |-> [submission[k] EXCEPT !.live = FALSE]]
  /\ locked' = FALSE
  /\ caughtUp' = FALSE
  /\ UNCHANGED <<screen, passed, input, typed, unanswered, displaced, details>>

\* An emission that had not reached the server is lost.
Disconnect ==
  /\ Broken
  /\ \E lost \in SUBSET {k \in SendSlots : At(k, "check") /\ submission[k].live} :
       call' = [k \in Calls |-> IF k \in lost THEN Idle ELSE call[k]]
  /\ UNCHANGED data

\* The server restarts.
Restart ==
  /\ Broken /\ "restart" \in NetFaults
  /\ ProcessDies

\* A handshake is refused: the token is no good any more.
Refused ==
  /\ link = "down" /\ "refused" \in NetFaults
  /\ link' = "failed" /\ locked' = TRUE
  /\ UNCHANGED <<store, screen, room, wire, drops, walk, progress, submission,
                 input, typed, unanswered, displaced, details>>

\* handleJoin, for a catch-up or a recovery: the conversation is the
\* visitor's, so the socket joins its room and is told so.
ServeJoin(w) ==
  /\ Walking(w, "join") /\ walk[w].fresh
  /\ room' = room \cup {walk[w].conv}
  /\ wire' = Append(wire, Signal("joined", w, 0))
  /\ walk' = [walk EXCEPT ![w].pc = "joined"]
  /\ UNCHANGED <<store, screen, link, drops, composer, progress>>

ServeRejoin(k) ==
  /\ Stage(k, "rejoin") /\ submission[k].live
  /\ room' = room \cup {submission[k].conv}
  /\ wire' = Append(wire, Signal("joined", k, 0))
  /\ submission' = [submission EXCEPT ![k].pc = "rejoined"]
  /\ UNCHANGED <<store, screen, link, drops, walk, progress, input, locked, typed,
                 unanswered, displaced, details>>

----------------------------------------------------------------------------
(* The composer.                                                           *)

\* The visitor types into an empty composer.
Type(t) ==
  /\ panel = "ready" /\ ~locked /\ input = NoText /\ t \notin typed
  /\ input' = t /\ typed' = typed \cup {t}
  /\ UNCHANGED <<store, screen, socket, walk, progress, submission, locked,
                 unanswered, displaced, details>>

\* Bound: every send in flight can still draw an id.
MayDrawId ==
  issued + Cardinality({k \in Calls : At(k, "check")}
             \cup {k \in SendSlots : ~Stage(k, "none") /\ call[k].id = 0}) < MaxMessages

\* A slot is free once nothing of its last submission is under way.
Free(k) ==
  /\ Stage(k, "none") /\ At(k, "idle")
  /\ \A i \in DOMAIN wire : wire[i].to # k

\* The emission reaches handleSend, which refuses a conversation the socket has
\* not joined before it calls the service.
Emit(k, c, text) ==
  IF c \in room
  THEN Begin(k, "check", Visitor, c, text, FALSE) /\ UNCHANGED wire
  ELSE wire' = Append(wire, Signal("refused", k, 0)) /\ UNCHANGED call

\* Mutant: the composer keeps the text while it is being sent.
SubmitKeepingText(k) ==
  /\ input # NoText /\ ~locked /\ link = "up" /\ Free(k) /\ MayDrawId
  /\ submission' = [submission EXCEPT ![k] =
       [pc |-> "send", text |-> input, conv |-> thread, live |-> TRUE, own |-> TRUE]]
  /\ Emit(k, thread, input)
  /\ locked' = TRUE
  /\ UNCHANGED <<data, screen, link, room, drops, walk, progress, input, typed,
                 unanswered, displaced, details>>

\* submitMessage with a socket that is up; with one that is down the text is
\* restored in the same turn.
Submit(k) ==
  /\ input # NoText /\ ~locked /\ link = "up" /\ Free(k) /\ MayDrawId
  /\ submission' = [submission EXCEPT ![k] =
       [pc |-> "send", text |-> input, conv |-> thread, live |-> TRUE, own |-> TRUE]]
  /\ Emit(k, thread, input)
  /\ input' = NoText
  /\ locked' = TRUE
  /\ UNCHANGED <<data, screen, link, room, drops, walk, progress, typed,
                 unanswered, displaced, details>>

\* The end of submitMessage: the composer it began in is enabled again.
Finish(k) ==
  /\ submission' = [submission EXCEPT ![k] = NoSubmission]
  /\ locked' = IF submission[k].own THEN link = "failed" ELSE locked

Sent(k) ==
  /\ Finish(k)
  /\ UNCHANGED <<input, typed, unanswered, displaced, details>>

\* Mutant: a failed send leaves the composer as it is.
RestoreNothing(k) ==
  /\ Finish(k)
  /\ UNCHANGED <<input, typed, displaced, details>>

\* The text is put back, over whatever the composer holds by now - or into a
\* composer that is no longer shown.
Restore(k) ==
  /\ Finish(k)
  /\ IF submission[k].own
     THEN /\ input' = submission[k].text
          /\ displaced' = displaced \cup ({input} \ {NoText, submission[k].text})
     ELSE /\ displaced' = displaced \cup {submission[k].text}
          /\ UNCHANGED input
  /\ UNCHANGED <<typed, details>>

\* submitDetails: the visitor's name is sent, with the conversation of the moment.
AskDetails ==
  /\ panel = "ready" /\ details.form = "offered"
  /\ details' = [form |-> "asked", conv |-> thread]
  /\ UNCHANGED <<store, screen, socket, walk, progress, submission, input, locked,
                 typed, unanswered, displaced>>

\* Its answer puts that conversation back and builds the chat anew, with an
\* empty composer.
DetailsSaved ==
  /\ details.form = "asked"
  /\ details' = [form |-> "saved", conv |-> NoConv]
  /\ SwitchTo(details.conv)
  /\ submission' = [k \in SendSlots |-> [submission[k] EXCEPT !.own = Stage(k, "none")]]
  /\ input' = NoText /\ locked' = (link = "failed")
  /\ displaced' = displaced \cup ({input} \ {NoText})
  /\ UNCHANGED <<store, panel, shown, socket, walk, typed, unanswered>>

DetailsFail ==
  /\ details.form = "asked" /\ "restFails" \in NetFaults
  /\ details' = [form |-> "offered", conv |-> NoConv]
  /\ UNCHANGED <<store, screen, socket, walk, progress, submission, input, locked,
                 typed, unanswered, displaced>>

\* No acknowledgement in ACK_TIMEOUT_MS: certain on a broken connection, and
\* possible on a live one.
GiveUp(k) ==
  /\ submission[k].pc \in {"send", "resend", "rejoin", "rejoined"}
  /\ submission[k].live => "timeout" \in NetFaults
  /\ Restore(k)
  /\ unanswered' = unanswered \cup {submission[k].text}
  /\ UNCHANGED <<store, screen, socket, walk, progress>>

JoinTimesOut(w) ==
  /\ walk[w].pc \in {"join", "joined"}
  /\ walk[w].fresh => "timeout" \in NetFaults
  /\ walk' = [walk EXCEPT ![w] = NoWalk]
  /\ UNCHANGED <<store, screen, socket, composer, progress>>

----------------------------------------------------------------------------
(* retryInNewConversation.                                                 *)

\* The conversation has been resolved again: it replaces the old one, and is
\* joined before the text is sent once more.
Recover(k) ==
  /\ At(k, "answered") /\ Stage(k, "resolve")
  /\ call[k].answer # Failed
  /\ SwitchTo(call[k].answer)
  /\ Forget(k)
  /\ IF link = "up"
     THEN /\ submission' = [submission EXCEPT ![k].pc = "rejoin", ![k].live = TRUE,
                                              ![k].conv = call[k].answer]
          /\ UNCHANGED <<input, locked, typed, displaced, details>>
     ELSE Restore(k)
  /\ UNCHANGED <<data, panel, shown, socket, walk, unanswered>>

RecoveryFails(k) ==
  /\ Stage(k, "resolve")
  /\ \/ At(k, "answered") /\ call[k].answer = Failed
     \/ "restFails" \in NetFaults /\ (At(k, "find") \/ At(k, "answered"))
  /\ Forget(k)
  /\ Restore(k)
  /\ UNCHANGED <<data, screen, socket, walk, progress, unanswered>>

----------------------------------------------------------------------------
(* What the connection delivers.                                           *)

Arrives(kind) == wire # <<>> /\ Head(wire).kind = kind

Taken == wire' = Tail(wire) /\ UNCHANGED <<link, room, drops>>

\* A message is shown as it comes.
ShowLive(i) ==
  /\ AppendMessages({i})
  /\ passed' = IF caughtUp THEN passed ELSE passed \cup Behind(thread, {i})
  /\ UNCHANGED caughtUp

\* message:new
Hear ==
  /\ Arrives("message") /\ Taken
  /\ ShowLive(Head(wire).id)
  /\ UNCHANGED <<store, panel, thread, composer, walk>>

\* The join of a catch-up: history after the last message shown is asked for.
JoinAcknowledged(w) ==
  /\ Arrives("joined") /\ Head(wire).to = w /\ Taken
  /\ walk' = IF Walking(w, "joined")
             THEN [walk EXCEPT ![w].pc = "page", ![w].after = LastRendered]
             ELSE walk
  /\ UNCHANGED <<store, screen, composer, progress>>

\* The join of a recovery: the text is sent into the new conversation.
RejoinAcknowledged(k) ==
  /\ Arrives("joined") /\ Head(wire).to = k /\ Taken
  /\ IF Stage(k, "rejoined")
     THEN /\ Begin(k, "check", Visitor, submission[k].conv, submission[k].text, FALSE)
          /\ submission' = [submission EXCEPT ![k].pc = "resend"]
     ELSE UNCHANGED <<call, submission>>
  /\ UNCHANGED <<data, screen, walk, progress, input, locked, typed, unanswered,
                 displaced, details>>

\* A send is acknowledged with the stored message.
SendAcknowledged(k) ==
  /\ Arrives("ack") /\ Head(wire).to = k /\ Taken
  /\ IF Stage(k, "none")
     THEN UNCHANGED <<shown, composer, progress>>
     ELSE ShowLive(Head(wire).id) /\ Sent(k)
  /\ UNCHANGED <<store, panel, thread, walk>>

\* CONVERSATION_CLOSED: recovered from once.
ClosedAnswer(k) ==
  /\ Arrives("closed") /\ Head(wire).to = k /\ Taken
  /\ CASE Stage(k, "send") ->
            /\ Begin(k, "find", Visitor, NoConv, "resolve", TRUE)
            /\ submission' = [submission EXCEPT ![k].pc = "resolve"]
            /\ UNCHANGED <<input, locked, typed, displaced, details>>
       [] Stage(k, "resend") -> Restore(k) /\ UNCHANGED call
       [] OTHER -> UNCHANGED <<call, composer>>
  /\ UNCHANGED <<data, screen, walk, progress, unanswered>>

\* NOT_JOINED or INTERNAL_ERROR
RefusedAnswer(k) ==
  /\ Arrives("refused") /\ Head(wire).to = k /\ Taken
  /\ IF Stage(k, "none") THEN UNCHANGED composer ELSE Restore(k) /\ UNCHANGED unanswered
  /\ UNCHANGED <<store, screen, walk, progress>>

----------------------------------------------------------------------------
(* The server's calls, seen from the socket.                               *)

\* An acknowledgement goes to the connection its request came on, if it is
\* still there and somebody waits for it.
Answering(k, kind, id) ==
  IF k \in SendSlots /\ submission[k].live /\ submission[k].pc \in {"send", "resend"}
  THEN <<Signal(kind, k, id)>> ELSE <<>>

\* The broadcast reaches the room before the sender's acknowledgement does.
PublishToRoom(k) ==
  /\ Publish(k)
  /\ wire' = wire
       \o (IF call[k].conv \in room THEN <<Signal("message", "room", call[k].id)>> ELSE <<>>)
       \o Answering(k, "ack", call[k].id)
  /\ UNCHANGED <<screen, link, room, drops, composer, walk, progress>>

AnswerRefusal(k) ==
  /\ \/ RefuseSend(k) /\ wire' = wire \o Answering(k, "closed", 0)
     \/ (InsertFails(k) \/ InsertReplyLost(k)) /\ wire' = wire \o Answering(k, "refused", 0)
  /\ UNCHANGED <<screen, link, room, drops, composer, walk, progress>>

\* Everything else happens without a word to the widget.
ServerStep(k) ==
  /\ \/ Find(k) \/ Create(k) \/ FindAgain(k) \/ SendStep(k)
     \/ SetStatus(k) \/ SetStatusReplyLost(k) \/ AnnounceStatus(k)
  /\ UNCHANGED widget

----------------------------------------------------------------------------
(* The specification.                                                      *)

WidgetInit ==
  /\ StoreInit
  /\ panel = "idle" /\ thread = NoConv /\ shown = <<>>
  /\ link = "off" /\ room = {} /\ wire = <<>> /\ drops = 0
  /\ walk = [w \in Walkers |-> NoWalk]
  /\ submission = [k \in SendSlots |-> NoSubmission]
  /\ input = NoText /\ locked = FALSE
  /\ typed = {} /\ unanswered = {} /\ displaced = {}
  /\ details = [form |-> "offered", conv |-> NoConv]
  /\ caughtUp = FALSE /\ passed = {}

Server(k) == ServerStep(k) \/ PublishToRoom(k) \/ AnswerRefusal(k)

Receive ==
  \/ Hear
  \/ \E w \in Walkers : JoinAcknowledged(w)
  \/ \E k \in SendSlots : \/ RejoinAcknowledged(k) \/ SendAcknowledged(k)
                          \/ ClosedAnswer(k) \/ RefusedAnswer(k)

Load(w) == ReadPage(w) \/ Show(w)

WidgetNext ==
  \/ \E k \in StaffSlots : StaffCalls(k) /\ MayDrawId /\ UNCHANGED widget
  \/ \E k \in Calls : Server(k)
  \/ OpenSession \/ OpeningFails
  \/ \E w \in Walkers : \/ ConversationResolved(w) \/ Load(w) \/ WalkFails(w)
                        \/ Connect(w) \/ ServeJoin(w) \/ JoinTimesOut(w)
  \/ Disconnect \/ Restart \/ Refused
  \/ \E t \in Texts : Type(t)
  \/ AskDetails \/ DetailsSaved \/ DetailsFail
  \/ \E k \in SendSlots : \/ Submit(k) \/ GiveUp(k) \/ ServeRejoin(k)
                          \/ Recover(k) \/ RecoveryFails(k)
  \/ Receive

WidgetSpec == WidgetInit /\ [][WidgetNext]_everything

----------------------------------------------------------------------------
(* Properties.                                                             *)

WidgetTypeOK ==
  /\ StoreTypeOK
  /\ panel \in {"idle", "loading", "ready", "error"}
  /\ link \in {"off", "down", "up", "failed"}
  /\ thread \in Convs \cup {NoConv} /\ room \subseteq Convs
  /\ panel = "ready" <=> thread # NoConv
  /\ link # "up" => room = {} /\ wire = <<>>
  /\ input \in Texts \cup {NoText}
  /\ caughtUp => link = "up" /\ thread \in room
  /\ \A k \in SendSlots : submission[k].live => link = "up"

\* Nothing is on its way to a widget that is connected and has caught up.
Settled ==
  /\ link = "up" /\ caughtUp /\ wire = <<>>
  /\ \A k \in Calls : call[k].conv = thread => ~Sending(k)

\* ADR-024, sections 3 to 5: joining before reading, one append point and the
\* cursor of the last message shown lose nothing over any number of broken
\* connections and switched conversations, unless the cursor passed it: it was
\* published after a newer one had been stored; or a newer one was shown on a
\* connection whose catch-up had failed or not come yet, or from another
\* conversation, before the thread was switched or by a catch-up of the old one.
\* ADR-024 (line 332) has a catch-up on every re-join; the join of a recovery
\* (widget.ts:613) has none, so there the visitor's own message is the newer one.
\* A message whose insertion was reported as failed is published to nobody, and
\* waits for the next catch-up.
NothingMissing ==
  Settled => \A m \in MessagesOf(thread) :
               m.id \in ToSet(shown) \cup overtaken \cup passed \cup misreported

\* What the visitor typed is in the composer, on its way, or stored; unless
\* a send that failed after a connection change had enabled the composer again
\* put its text back over it, or saving the visitor's details put a new
\* composer in the place of the one that held it or that it would come back to.
TextKept ==
  \A t \in typed : \/ t = input \/ t \in displaced
                   \/ \E k \in SendSlots : submission[k].text = t
                   \/ \E m \in messages : m.body = t

\* A text is stored twice only if a send of it was given up unanswered, or if
\* the earlier copy was stored by an insertion reported as failed: the answer
\* is INTERNAL_ERROR then, the text is put back, and nothing in a second send
\* says that it is the first one's.  Neither the recovery of a closed
\* conversation nor any other refusal duplicates it.
StoredTwiceOnlyUnanswered ==
  \A m, n \in messages :
    m.body = n.body /\ m.body \in Texts /\ m.id < n.id
      => m.body \in unanswered \/ m.id \in misreported

\* The thread is a feed of what is stored.
Feed == INSTANCE MessageFeed WITH stored <- {m.id : m \in messages}

ImplementsFeed == Feed!Spec
=============================================================================
