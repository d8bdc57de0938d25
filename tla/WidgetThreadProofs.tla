------------------------- MODULE WidgetThreadProofs -------------------------
(***************************************************************************)
(* Theorems about one visitor's widget, for every number of conversations, *)
(* messages, calls and overlapping submissions, every length of the pages, *)
(* and every failure of the network, the server and the visitor's patience.*)
(***************************************************************************)
EXTENDS WidgetThread, ConversationsProofs

StoredIds == {m.id : m \in messages}

----------------------------------------------------------------------------
(* The inductive invariant: types, and who is doing what.                  *)

Panels == {"idle", "loading", "ready", "error"}

Links == {"off", "down", "up", "failed"}

Stages == {"none", "send", "resend", "resolve", "rejoin", "rejoined"}

Submissions == [pc : Stages, text : Texts \cup {NoText}, conv : 0..MaxConvs,
                live : BOOLEAN, own : BOOLEAN]

Walks == [pc : {"idle", "page", "read", "join", "joined"}, conv : 0..MaxConvs,
          after : 0..MaxMessages, got : SUBSET Ids, pages : Nat, more : BOOLEAN,
          fresh : BOOLEAN]

Signals == [kind : {"message", "joined", "ack", "closed", "refused"},
            to : Walkers \cup SendSlots \cup {"room"}, id : 0..MaxMessages]

Forms == [form : {"offered", "asked", "saved"}, conv : 0..MaxConvs]

Typings ==
  /\ panel \in Panels /\ link \in Links
  /\ thread \in 0..MaxConvs /\ room \subseteq Convs
  /\ wire \in Seq(Signals)
  /\ walk \in [Walkers -> Walks]
  /\ submission \in [SendSlots -> Submissions]
  /\ input \in Texts \cup {NoText} /\ typed \subseteq Texts
  /\ details \in Forms /\ caughtUp \in BOOLEAN

\* The panel is ready when it has a thread; until then nothing is connected,
\* typed or sent, and either the conversation is being resolved or one walk
\* reads its history.
PanelOK ==
  /\ panel = "ready" <=> thread # NoConv
  /\ panel = "ready" <=> link # "off"
  /\ ~At(BootSlot, "idle") => panel = "loading" /\ \A w \in Walkers : Walking(w, "idle")
  /\ panel # "ready" =>
       /\ input = NoText /\ details.form = "offered"
       /\ \A k \in SendSlots : Stage(k, "none")
       /\ \A v, w \in Walkers : ~Walking(v, "idle") /\ ~Walking(w, "idle") => v = w
  /\ panel \in {"idle", "error"} => \A w \in Walkers : Walking(w, "idle")
  /\ details.form = "asked" => details.conv # NoConv

\* What a broken connection ends is over.
LinkOK ==
  /\ link # "up" => room = {} /\ wire = <<>>
  /\ caughtUp => link = "up" /\ thread \in room
  /\ \A k \in SendSlots : submission[k].live => link = "up"
  /\ \A w \in Walkers : walk[w].fresh => link = "up"

\* A walk that the current connection answers for is in the room it joined.
WalkOK(w) ==
  /\ ~Walking(w, "idle") => walk[w].conv \in Convs
  /\ walk[w].fresh /\ walk[w].pc \in {"joined", "page", "read"} => walk[w].conv \in room
  /\ walk[w].got \subseteq StoredIds

\* Only the widget waits for answers, and only to its resolutions.
CallsOK ==
  \A k \in Calls :
    /\ call[k].http <=> call[k].pc \in Resolving \cup {"answered"}
    /\ call[k].http =>
         k = BootSlot \/ (k \in SendSlots /\ Stage(k, "resolve"))
    /\ k = BootSlot => call[k].http \/ At(k, "idle")
    /\ At(k, "answered") => call[k].answer \in 0..MaxConvs
    /\ call[k].pc \in Resolving => call[k].arg = "resolve"

\* What is sent or resolved has its conversation; a rejoining has no call.
StageOK(k) ==
  /\ submission[k].pc = "none" => submission[k] = NoSubmission
  /\ submission[k].pc # "none" => submission[k].text \in Texts /\ submission[k].conv \in Convs
  /\ submission[k].pc \in {"rejoin", "rejoined"} => At(k, "idle")
  /\ submission[k].pc = "resolve" => call[k].http

\* A submission is told one thing at a time, when its call is over.
SignalOK(i) ==
  /\ wire[i].kind = "message" => wire[i].to = "room"
  /\ wire[i].kind \in {"ack", "closed", "refused"} => wire[i].to \in SendSlots
  /\ wire[i].kind \in {"message", "ack"} => wire[i].id \in StoredIds
  /\ wire[i].to \in SendSlots =>
       /\ At(wire[i].to, "idle")
       /\ submission[wire[i].to].pc # "rejoin"
       /\ \A j \in DOMAIN wire : wire[j].to = wire[i].to => j = i

\* The list holds stored messages, each once.
Shows == shown \in Seq(Ids) /\ IsInjective(shown) /\ ToSet(shown) \subseteq StoredIds

\* A lost race to create: the winner's conversation is open, or was closed since.
Resolves ==
  \A k \in Calls :
    /\ At(k, "findAgain") => \/ \E c \in Convs : Open(c) /\ conv[c].customer = call[k].customer
                             \/ changes > call[k].since
    /\ At(k, "answered") /\ call[k].arg = "resolve" /\ call[k].answer = Failed
         => changes > call[k].since

WidgetOK ==
  /\ Typings /\ PanelOK /\ LinkOK /\ CallsOK /\ Resolves /\ Shows
  /\ \A w \in Walkers : WalkOK(w)
  /\ \A k \in SendSlots : StageOK(k)
  /\ \A i \in DOMAIN wire : SignalOK(i)

TypeInv == StoreInv /\ DatesInv /\ WidgetOK

----------------------------------------------------------------------------
(* The inductive invariant of the texts.                                   *)

Carries(k, t) == call[k].pc \in {"check", "insert"} /\ call[k].arg = t

Said(t) == \E m \in messages : m.body = t

\* Stored by an insertion that was not reported as failed.
Credited(t) == \E m \in messages : m.body = t /\ m.id \notin misreported

\* A text is in one place as long as no send of it was given up unanswered:
\* in the composer, with one submission, or stored to somebody's knowledge.
TextOnce(t) ==
  /\ input = t => /\ ~Credited(t)
                  /\ \A k \in SendSlots : submission[k].text # t
                  /\ \A k \in Calls : ~Carries(k, t)
  /\ \A j, k \in SendSlots : submission[j].text = t /\ submission[k].text = t => j = k
  /\ \A k \in Calls : Carries(k, t) =>
       /\ k \in SendSlots /\ submission[k].text = t
       /\ submission[k].pc \in {"send", "resend"} /\ ~Credited(t)
  /\ \A k \in SendSlots :
       submission[k].text = t /\ submission[k].pc \in {"resolve", "rejoin", "rejoined"}
         => ~Credited(t)

\* Nothing carries a text before it is typed.
Unheard(t) ==
  /\ input # t /\ ~Said(t)
  /\ \A k \in SendSlots : submission[k].text # t
  /\ \A k \in Calls : ~Carries(k, t)

\* A call carries what its submission says, and what it stored.
Quotes(k) ==
  /\ Sending(k) /\ ~Stage(k, "none") => call[k].arg = submission[k].text
  /\ call[k].pc \in Stored => \E m \in messages : m.id = call[k].id /\ m.body = call[k].arg

\* A refusal means that nothing stored the text to the knowledge of its call, and
\* an acknowledgement that it was stored.
Truthful(i) ==
  LET text == submission[wire[i].to].text
  IN  /\ wire[i].kind \in {"closed", "refused"} /\ text \in Texts \ unanswered => ~Credited(text)
      /\ wire[i].kind = "ack" /\ ~Stage(wire[i].to, "none") =>
           \E m \in messages : m.id = wire[i].id /\ m.body = text

TextInv ==
  /\ \A t \in Texts \ unanswered : TextOnce(t)
  /\ \A t \in Texts \ typed : Unheard(t)
  /\ \A k \in SendSlots : Quotes(k)
  /\ \A i \in DOMAIN wire : Truthful(i)
  /\ TextKept

\* Of two copies of such a text the older was misreported; and the next one will
\* be the newest.
Copies(t) ==
  /\ \A m, n \in messages : m.body = t /\ n.body = t /\ m.id < n.id => m.id \in misreported
  /\ \A k \in Calls : At(k, "insert") /\ call[k].arg = t =>
       \A m \in messages : m.body = t => m.id < call[k].id

CopiesInv == \A t \in Texts \ unanswered : Copies(t)

----------------------------------------------------------------------------
(* The inductive invariant of what is not shown.                           *)

\* Shown, exempt, or to be overtaken by what is stored already.
Tracked(i) ==
  \/ i \in ToSet(shown) \cup overtaken \cup passed \cup misreported
  \/ \E k \in Calls : call[k].pc \in Stored /\ call[k].id = i

OnWire(i) == \E n \in DOMAIN wire : wire[n].kind = "message" /\ wire[n].id = i

\* Not newer than everything shown.
Reached(i) == \E j \in ToSet(shown) : i <= j

\* A walk has collected what its cursor is past, unless that was accounted for.
Walked(w, m) == m.id \in walk[w].got \/ Tracked(m.id) \/ Reached(m.id)

WalkTracks(w) ==
  /\ walk[w].pc \in {"join", "joined"} => walk[w].got = {}
  /\ walk[w].pc \in {"page", "read"} =>
       /\ walk[w].after \in walk[w].got \cup ToSet(shown) \cup {0}
       /\ \A i \in walk[w].got : i <= walk[w].after
       /\ \A m \in MessagesOf(walk[w].conv) : m.id <= walk[w].after => Walked(w, m)
  /\ walk[w].pc = "read" /\ walk[w].fresh /\ ~walk[w].more =>
       \A m \in MessagesOf(walk[w].conv) : Walked(w, m) \/ OnWire(m.id)

\* Broadcasts that come in another order than that of the ids were overtaken.
WireOrdered ==
  \A a, b \in DOMAIN wire :
    /\ a < b /\ wire[b].kind = "message" /\ wire[a].kind \in {"message", "ack"}
    /\ wire[b].id < wire[a].id
    => wire[b].id \in overtaken

\* What is older than something shown is accounted for.
Behinds ==
  \A m \in MessagesOf(thread) : \A i \in ToSet(shown) : m.id < i => Tracked(m.id)

Caught ==
  caughtUp => \A m \in MessagesOf(thread) : Tracked(m.id) \/ OnWire(m.id)

TrackInv ==
  /\ panel # "ready" => shown = <<>>
  /\ Behinds /\ Caught /\ WireOrdered
  /\ \A w \in Walkers : WalkTracks(w)

----------------------------------------------------------------------------
(* What the actions do to the records of walks and submissions.            *)

LEMMA Records ==
  ASSUME NEW D, NEW R, NEW f \in [D -> R], NEW d \in D, NEW v \in R, NEW g,
         g = [f EXCEPT ![d] = v]
  PROVE  g \in [D -> R] /\ g[d] = v /\ \A e \in D \ {d} : g[e] = f[e]
OBVIOUS

LEMMA NoWalkTyped == NoWalk \in Walks /\ NoWalk.pc = "idle" /\ ~NoWalk.fresh /\ NoWalk.got = {}
BY ConversationsAssumption DEF NoWalk, Walks, NoConv

LEMMA NoSubmissionTyped ==
  /\ NoSubmission \in Submissions
  /\ NoSubmission.pc = "none" /\ NoSubmission.text = NoText
  /\ NoSubmission.live = FALSE /\ NoSubmission.own = TRUE
BY ConversationsAssumption DEF NoSubmission, Submissions, NoConv, Stages

LEMMA WalkOpens ==
  ASSUME NEW c \in 0..MaxConvs, NEW v, v = [NoWalk EXCEPT !.pc = "page", !.conv = c]
  PROVE  /\ v \in Walks /\ v.pc = "page" /\ v.conv = c /\ v.after = 0 /\ v.got = {}
         /\ ~v.fresh
<1> DEFINE w1 == [NoWalk EXCEPT !.pc = "page"]
           w2 == [w1 EXCEPT !.conv = c]
<1>1. v = w2
  BY DEF NoWalk
<1>2. w1 \in Walks
  BY NoWalkTyped DEF Walks
<1>3. w2 \in Walks
  BY <1>2 DEF Walks
<1>4. v.pc = "page" /\ v.conv = c /\ v.after = 0 /\ v.got = {} /\ v.fresh = FALSE
  BY <1>1 DEF NoWalk
<1>5. QED
  BY <1>1, <1>3, <1>4

LEMMA WalkJoins ==
  ASSUME NEW c \in 0..MaxConvs,
         NEW v, v = [NoWalk EXCEPT !.pc = "join", !.conv = c, !.fresh = TRUE]
  PROVE  v \in Walks /\ v.pc = "join" /\ v.conv = c /\ v.got = {} /\ v.fresh
<1> DEFINE w1 == [NoWalk EXCEPT !.pc = "join"]
           w2 == [w1 EXCEPT !.conv = c]
           w3 == [w2 EXCEPT !.fresh = TRUE]
<1>1. v = w3
  BY DEF NoWalk
<1>2. w1 \in Walks
  BY NoWalkTyped DEF Walks
<1>3. w2 \in Walks
  BY <1>2 DEF Walks
<1> HIDE DEF w2
<1>4. w3 \in Walks
  BY <1>3 DEF Walks
<1> USE DEF w2
<1>5. v.pc = "join" /\ v.conv = c /\ v.got = {} /\ v.fresh = TRUE
  BY <1>1 DEF NoWalk
<1>6. QED
  BY <1>1, <1>4, <1>5

Collected(u, got, after, more, pc) ==
  [u EXCEPT !.got = got, !.after = after, !.pages = u.pages + 1, !.more = more, !.pc = pc]

LEMMA WalkCollects ==
  ASSUME NEW u \in Walks, NEW got \in SUBSET Ids, NEW after \in 0..MaxMessages,
         NEW more \in BOOLEAN, NEW pc \in {"page", "read"}
  PROVE  LET v == Collected(u, got, after, more, pc)
         IN  /\ v \in Walks /\ v.pc = pc /\ v.conv = u.conv /\ v.after = after
             /\ v.got = got /\ v.more = more /\ v.fresh = u.fresh
<1> DEFINE w1 == [u EXCEPT !.got = got]
           w2 == [w1 EXCEPT !.after = after]
           w3 == [w2 EXCEPT !.pages = u.pages + 1]
           w4 == [w3 EXCEPT !.more = more]
           w5 == [w4 EXCEPT !.pc = pc]
<1>1. Collected(u, got, after, more, pc) = w5
  BY DEF Walks, Collected
<1>2. w1 \in Walks /\ w1.conv = u.conv /\ w1.fresh = u.fresh /\ w1.got = got
  BY DEF Walks
<1> HIDE DEF w1
<1>3. /\ w2 \in Walks /\ w2.conv = u.conv /\ w2.fresh = u.fresh /\ w2.got = got
      /\ w2.after = after
  BY <1>2 DEF Walks
<1> HIDE DEF w2
<1>4. u.pages + 1 \in Nat
  BY DEF Walks
<1>5. /\ w3 \in Walks /\ w3.conv = u.conv /\ w3.fresh = u.fresh /\ w3.got = got
      /\ w3.after = after
  BY <1>3, <1>4 DEF Walks
<1> HIDE DEF w3
<1>6. /\ w4 \in Walks /\ w4.conv = u.conv /\ w4.fresh = u.fresh /\ w4.got = got
      /\ w4.after = after /\ w4.more = more
  BY <1>5 DEF Walks
<1> HIDE DEF w4
<1>7. /\ w5 \in Walks /\ w5.conv = u.conv /\ w5.fresh = u.fresh /\ w5.got = got
      /\ w5.after = after /\ w5.more = more /\ w5.pc = pc
  BY <1>6 DEF Walks
<1> HIDE DEF w5
<1>8. QED
  BY <1>1, <1>7

Catching(u, after) == [u EXCEPT !.pc = "page", !.after = after]

LEMMA WalkRejoined ==
  ASSUME NEW u \in Walks, NEW after \in 0..MaxMessages
  PROVE  LET v == Catching(u, after)
         IN  /\ v \in Walks /\ v.pc = "page" /\ v.conv = u.conv /\ v.after = after
             /\ v.got = u.got /\ v.fresh = u.fresh
<1> DEFINE v == Catching(u, after)
           w1 == [u EXCEPT !.pc = "page"]
           w2 == [w1 EXCEPT !.after = after]
<1>1. v = w2
  BY DEF Walks, Catching
<1>2. w1 \in Walks
  BY DEF Walks
<1>3. w2 \in Walks
  BY <1>2 DEF Walks
<1>4. /\ v.pc = "page" /\ v.conv = u.conv /\ v.after = after
      /\ v.got = u.got /\ v.fresh = u.fresh
  BY DEF Walks, Catching
<1>5. QED
  BY <1>1, <1>3, <1>4

Rejoining(u, c) == [u EXCEPT !.pc = "rejoin", !.live = TRUE, !.conv = c]

LEMMA SubmissionRejoins ==
  ASSUME NEW u \in Submissions, NEW c \in 0..MaxConvs
  PROVE  LET v == Rejoining(u, c)
         IN  /\ v \in Submissions /\ v.pc = "rejoin" /\ v.live /\ v.conv = c
             /\ v.text = u.text /\ v.own = u.own
<1> DEFINE w1 == [u EXCEPT !.pc = "rejoin"]
           w2 == [w1 EXCEPT !.live = TRUE]
           w3 == [w2 EXCEPT !.conv = c]
<1> DEFINE v == Rejoining(u, c)
<1>1. v = w3
  BY DEF Submissions, Rejoining
<1>2. w1 \in Submissions
  BY DEF Submissions, Stages
<1>3. w2 \in Submissions
  BY <1>2 DEF Submissions
<1> HIDE DEF w2
<1>4. w3 \in Submissions
  BY <1>3 DEF Submissions
<1> USE DEF w2
<1>5. /\ v.pc = "rejoin" /\ v.live = TRUE /\ v.conv = c
      /\ v.text = u.text /\ v.own = u.own
  BY DEF Submissions, Rejoining
<1>6. QED
  BY <1>1, <1>4, <1>5

----------------------------------------------------------------------------
(* The widget's steps keep the invariant.                                  *)

\* Nothing is taken out of the store.
LEMMA StoredIdsTyped ==
  ASSUME StoreInv
  PROVE  StoredIds \subseteq Ids
BY DEF StoredIds, StoreInv, Typed, MessageDocs

\* The parts that only look at calls and at what is stored.
LEMMA CallsFrame ==
  ASSUME WidgetOK, UNCHANGED store,
         \A k \in SendSlots : submission'[k].pc = "resolve" <=> submission[k].pc = "resolve"
  PROVE  CallsOK' /\ Resolves'
BY DEF WidgetOK, store, data, CallsOK, Resolves, Stage, At, Open

\* What the screen shows, when it is left alone.
LEMMA ShowsFrame ==
  ASSUME WidgetOK, UNCHANGED shown, messages \subseteq messages'
  PROVE  Shows'
<1>1. StoredIds \subseteq StoredIds'
  BY DEF StoredIds
<1>2. QED
  BY <1>1 DEF WidgetOK, Shows, ToSet

LEMMA OpenSessionKeepsWidget ==
  ASSUME TypeInv, OpenSession
  PROVE  WidgetOK'
<1>1. WidgetOK /\ WidgetAssumption /\ ConversationsAssumption
  BY WidgetAssumption, ConversationsAssumption DEF TypeInv
<1>2. /\ UNCHANGED <<data, thread, shown, socket, composer, walk, progress>>
      /\ panel' \in {"loading", "error"} /\ panel \in {"idle", "error"}
      /\ At(BootSlot, "idle")
  BY DEF OpenSession
<1>3. /\ \A k \in Calls \ {BootSlot} : call'[k] = call[k]
      /\ \/ call'[BootSlot] = call[BootSlot]
         \/ /\ panel' = "loading" /\ call'[BootSlot].pc = "find"
            /\ call'[BootSlot].http /\ call'[BootSlot].arg = "resolve"
            /\ call'[BootSlot].since = changes
  <2>1. CASE Begin(BootSlot, "find", Visitor, NoConv, "resolve", TRUE) /\ panel' = "loading"
    BY <2>1 DEF Begin, Begun, TypeInv, StoreInv, Typed
  <2>2. CASE UNCHANGED call
    BY <2>2
  <2>3. QED
    BY <2>1, <2>2 DEF OpenSession
<1>4. Typings'
  BY <1>1, <1>2 DEF WidgetOK, Typings, socket, composer, progress, Panels
<1>5. PanelOK'
  BY <1>1, <1>2, <1>3 DEF WidgetOK, PanelOK, socket, composer, At, Walking, Stage
<1>6. LinkOK'
  BY <1>1, <1>2 DEF WidgetOK, LinkOK, socket, composer, progress
<1>7. CallsOK'
  BY <1>1, <1>2, <1>3 DEF WidgetOK, CallsOK, composer, At, Stage, Resolving
<1>8. Resolves'
  BY <1>1, <1>2, <1>3 DEF WidgetOK, Resolves, data, At, Open
<1>9. Shows'
  BY <1>1, <1>2, ShowsFrame DEF data
<1>10. \A w \in Walkers : WalkOK(w)'
  BY <1>1, <1>2 DEF WidgetOK, WalkOK, StoredIds, data, socket, Walking
<1>11. \A k \in SendSlots : StageOK(k)'
  BY <1>1, <1>2, <1>3 DEF WidgetOK, StageOK, WidgetAssumption, composer, At
<1>12. \A i \in DOMAIN wire' : SignalOK(i)'
  BY <1>1, <1>2, <1>3 DEF WidgetOK, SignalOK, WidgetAssumption, socket, composer, data, At, StoredIds
<1>13. QED
  BY <1>4, <1>5, <1>6, <1>7, <1>8, <1>9, <1>10, <1>11, <1>12 DEF WidgetOK

LEMMA ConnectKeepsWidget ==
  ASSUME TypeInv, NEW w \in Walkers, Connect(w)
  PROVE  WidgetOK'
<1>1. WidgetOK /\ WidgetAssumption /\ ConversationsAssumption
  BY WidgetAssumption, ConversationsAssumption DEF TypeInv
<1>2. /\ UNCHANGED <<store, screen, room, wire, drops, submission, input, typed,
                     unanswered, displaced, details, progress>>
      /\ link = "down" /\ link' = "up" /\ locked' = FALSE /\ Walking(w, "idle")
  BY DEF Connect
<1>3. thread \in 0..MaxConvs /\ thread # NoConv /\ panel = "ready" /\ thread \in Convs
  BY <1>1, <1>2 DEF WidgetOK, Typings, PanelOK, NoConv, Convs
<1> DEFINE v == [NoWalk EXCEPT !.pc = "join", !.conv = thread, !.fresh = TRUE]
<1>4. v \in Walks /\ v.pc = "join" /\ v.conv = thread /\ v.got = {} /\ v.fresh
  BY <1>3, WalkJoins
<1>5. walk' = [walk EXCEPT ![w] = v]
  BY DEF Connect
<1> HIDE DEF v
<1>6. /\ walk' \in [Walkers -> Walks] /\ walk'[w] = v
      /\ \A u \in Walkers \ {w} : walk'[u] = walk[u]
  BY <1>1, <1>4, <1>5 DEF WidgetOK, Typings
<1>7. Typings'
  BY <1>1, <1>2, <1>6 DEF WidgetOK, Typings, screen, progress, Links
<1>8. PanelOK'
  BY <1>1, <1>2, <1>3 DEF WidgetOK, PanelOK, screen, store, At, Walking, Stage
<1>9. LinkOK'
  BY <1>1, <1>2, <1>6 DEF WidgetOK, LinkOK, screen, progress
<1>10. CallsOK' /\ Resolves'
  BY <1>1, <1>2, CallsFrame
<1>11. Shows'
  BY <1>1, <1>2, ShowsFrame DEF store, data, screen
<1>12. \A u \in Walkers : WalkOK(u)'
  BY <1>1, <1>2, <1>3, <1>4, <1>6 DEF WidgetOK, WalkOK, StoredIds, store, data, Walking
<1>13. \A k \in SendSlots : StageOK(k)'
  BY <1>1, <1>2 DEF WidgetOK, StageOK, store, At
<1>14. \A i \in DOMAIN wire' : SignalOK(i)'
  BY <1>1, <1>2 DEF WidgetOK, SignalOK, store, data, At, StoredIds
<1>15. QED
  BY <1>7, <1>8, <1>9, <1>10, <1>11, <1>12, <1>13, <1>14 DEF WidgetOK

\* Steps that leave the slots and what concerns them alone.
LEMMA SlotsFrame ==
  ASSUME WidgetOK, UNCHANGED <<store, shown, wire, submission>>
  PROVE  /\ CallsOK' /\ Resolves' /\ Shows'
         /\ \A k \in SendSlots : StageOK(k)'
         /\ \A i \in DOMAIN wire' : SignalOK(i)'
<1>1. CallsOK' /\ Resolves'
  BY CallsFrame
<1>2. Shows'
  BY ShowsFrame DEF store, data
<1>3. \A k \in SendSlots : StageOK(k)'
  BY DEF WidgetOK, StageOK, store, At
<1>4. \A i \in DOMAIN wire' : SignalOK(i)'
  BY DEF WidgetOK, SignalOK, store, data, At, StoredIds
<1>5. QED
  BY <1>1, <1>2, <1>3, <1>4

LEMMA WalksFrame ==
  ASSUME WidgetOK, UNCHANGED walk, room \subseteq room', messages \subseteq messages'
  PROVE  \A w \in Walkers : WalkOK(w)'
<1>1. StoredIds \subseteq StoredIds'
  BY DEF StoredIds
<1>2. QED
  BY <1>1 DEF WidgetOK, WalkOK, Walking

LEMMA OpeningFailsKeepsWidget ==
  ASSUME TypeInv, OpeningFails
  PROVE  WidgetOK'
<1>1. WidgetOK /\ WidgetAssumption
  BY WidgetAssumption DEF TypeInv
<1>2. /\ UNCHANGED <<data, thread, shown, socket, composer, walk, progress>>
      /\ panel' = "error" /\ ~At(BootSlot, "idle") /\ Forget(BootSlot)
  BY DEF OpeningFails, At
<1>3. /\ \A k \in Calls \ {BootSlot} : call'[k] = call[k]
      /\ call'[BootSlot] = Idle
  BY <1>1, <1>2 DEF Forget, TypeInv, StoreInv, Typed, WidgetAssumption
<1>4. panel = "loading" /\ \A w \in Walkers : Walking(w, "idle")
  BY <1>1, <1>2 DEF WidgetOK, PanelOK
<1>5. Typings'
  BY <1>1, <1>2 DEF WidgetOK, Typings, socket, composer, progress, Panels
<1>6. PanelOK'
  BY <1>1, <1>2, <1>3, <1>4, IdleCall DEF WidgetOK, PanelOK, socket, composer, At, Walking, Stage
<1>7. LinkOK'
  BY <1>1, <1>2 DEF WidgetOK, LinkOK, socket, composer, progress
<1>8. CallsOK'
  BY <1>1, <1>2, <1>3, IdleCall DEF WidgetOK, CallsOK, composer, At, Stage, Resolving
<1>9. Resolves'
  BY <1>1, <1>2, <1>3, IdleCall DEF WidgetOK, Resolves, data, At, Open
<1>10. Shows'
  BY <1>1, <1>2, ShowsFrame DEF data
<1>11. \A w \in Walkers : WalkOK(w)'
  BY <1>1, <1>2, WalksFrame DEF socket, data
<1>12. \A k \in SendSlots : StageOK(k)'
  BY <1>1, <1>2, <1>3 DEF WidgetOK, StageOK, WidgetAssumption, composer, At
<1>13. \A i \in DOMAIN wire' : SignalOK(i)'
  BY <1>1, <1>2, <1>3 DEF WidgetOK, SignalOK, WidgetAssumption, socket, composer, data, At, StoredIds
<1>14. QED
  BY <1>5, <1>6, <1>7, <1>8, <1>9, <1>10, <1>11, <1>12, <1>13 DEF WidgetOK

LEMMA ConversationResolvedKeepsWidget ==
  ASSUME TypeInv, NEW w \in Walkers, ConversationResolved(w)
  PROVE  WidgetOK'
<1>1. WidgetOK /\ WidgetAssumption
  BY WidgetAssumption DEF TypeInv
<1>2. /\ UNCHANGED <<data, screen, socket, composer, progress>>
      /\ At(BootSlot, "answered") /\ call[BootSlot].answer # Failed /\ Forget(BootSlot)
  BY DEF ConversationResolved
<1>3. /\ \A k \in Calls \ {BootSlot} : call'[k] = call[k]
      /\ call'[BootSlot] = Idle
  BY <1>1, <1>2 DEF Forget, TypeInv, StoreInv, Typed, WidgetAssumption
<1>4. /\ panel = "loading" /\ (\A u \in Walkers : Walking(u, "idle"))
      /\ call[BootSlot].answer \in 0..MaxConvs /\ call[BootSlot].answer \in Convs
  BY <1>1, <1>2, ConversationsAssumption DEF WidgetOK, PanelOK, CallsOK, At, WidgetAssumption, Failed, Convs
<1> DEFINE v == [NoWalk EXCEPT !.pc = "page", !.conv = call[BootSlot].answer]
<1>5. v \in Walks /\ v.pc = "page" /\ v.conv = call[BootSlot].answer /\ v.got = {} /\ ~v.fresh
  BY <1>4, WalkOpens
<1>6. walk' = [walk EXCEPT ![w] = v]
  BY DEF ConversationResolved
<1> HIDE DEF v
<1>7. /\ walk' \in [Walkers -> Walks] /\ walk'[w] = v
      /\ \A u \in Walkers \ {w} : walk'[u] = walk[u]
  BY <1>1, <1>5, <1>6 DEF WidgetOK, Typings
<1>8. Typings'
  BY <1>1, <1>2, <1>7 DEF WidgetOK, Typings, screen, socket, composer, progress
<1>9. PanelOK'
  BY <1>1, <1>2, <1>3, <1>4, <1>5, <1>7, IdleCall
     DEF WidgetOK, PanelOK, screen, socket, composer, At, Walking, Stage
<1>10. LinkOK'
  BY <1>1, <1>2, <1>5, <1>7 DEF WidgetOK, LinkOK, screen, socket, composer, progress
<1>11. CallsOK'
  BY <1>1, <1>2, <1>3, IdleCall DEF WidgetOK, CallsOK, composer, At, Stage, Resolving
<1>12. Resolves'
  BY <1>1, <1>2, <1>3, IdleCall DEF WidgetOK, Resolves, data, At, Open
<1>13. Shows'
  BY <1>1, <1>2, ShowsFrame DEF data, screen
<1>14. \A u \in Walkers : WalkOK(u)'
  BY <1>1, <1>2, <1>4, <1>5, <1>7 DEF WidgetOK, WalkOK, StoredIds, data, socket, Walking
<1>15. \A k \in SendSlots : StageOK(k)'
  BY <1>1, <1>2, <1>3 DEF WidgetOK, StageOK, WidgetAssumption, composer, At
<1>16. \A i \in DOMAIN wire' : SignalOK(i)'
  BY <1>1, <1>2, <1>3 DEF WidgetOK, SignalOK, WidgetAssumption, socket, composer, data, At, StoredIds
<1>17. QED
  BY <1>8, <1>9, <1>10, <1>11, <1>12, <1>13, <1>14, <1>15, <1>16 DEF WidgetOK

\* A page of a walk holds messages of its conversation after its cursor.
LEMMA PageRead ==
  ASSUME StoreInv, NEW w, NEW n
  PROVE  /\ Following(w, n) \subseteq StoredIds /\ Following(w, n) \subseteq Ids
         /\ \A i \in Following(w, n) :
              i > walk[w].after /\ \E m \in MessagesOf(walk[w].conv) : m.id = i
BY DEF Following, StoredIds, StoreInv, Typed, MessagesOf, MessageDocs

LEMMA CursorTyped ==
  ASSUME NEW got \in SUBSET Ids, NEW after \in 0..MaxMessages
  PROVE  /\ Max(got \cup {after}) \in 0..MaxMessages
         /\ Max(got \cup {after}) \in got \cup {after}
         /\ \A i \in got \cup {after} : i <= Max(got \cup {after})
<1>1. got \cup {after} \in SUBSET (0..MaxMessages) /\ got \cup {after} # {}
  BY DEF Ids
<1>2. QED
  BY <1>1, ConversationsAssumption, GreatestNumber

\* What reading a page does to its walk.
LEMMA ReadPageMoves ==
  ASSUME TypeInv, NEW w \in Walkers, ReadPage(w)
  PROVE  LET page == Following(w, PageSize)
         IN  /\ UNCHANGED <<store, screen, socket, composer, progress>>
             /\ Walking(w, "page")
             /\ walk' \in [Walkers -> Walks]
             /\ walk'[w].pc \in {"page", "read"} /\ walk'[w].conv = walk[w].conv
             /\ walk'[w].after = Max(page \cup {walk[w].after})
             /\ walk'[w].got = walk[w].got \cup page
             /\ walk'[w].more = (Following(w, PageSize + 1) # page)
             /\ walk'[w].fresh = walk[w].fresh
             /\ (walk'[w].pc = "page" => walk'[w].more)
             /\ \A u \in Walkers \ {w} : walk'[u] = walk[u]
<1> DEFINE page == Following(w, PageSize)
           cursor == Max(page \cup {walk[w].after})
           more == Following(w, PageSize + 1) # page
           pc == IF more /\ walk[w].pages + 1 < MaxPages THEN "page" ELSE "read"
           got == walk[w].got \cup page
           v == Collected(walk[w], got, cursor, more, pc)
<1>1. /\ UNCHANGED <<store, screen, socket, composer, progress>> /\ Walking(w, "page")
      /\ Collect(w, page, cursor, more)
  BY DEF ReadPage
<1>2. walk[w] \in Walks /\ walk \in [Walkers -> Walks]
  BY DEF TypeInv, WidgetOK, Typings
<1>3. page \in SUBSET Ids /\ walk[w].after \in 0..MaxMessages /\ walk[w].got \in SUBSET Ids
  BY <1>2, PageRead DEF TypeInv, Walks
<1>4. cursor \in 0..MaxMessages /\ got \in SUBSET Ids /\ more \in BOOLEAN
      /\ pc \in {"page", "read"} /\ (pc = "page" => more)
  BY <1>3, CursorTyped
<1>5. walk' = [walk EXCEPT ![w] = v]
  <2> HIDE DEF page, cursor, more
  <2>1. QED
    BY <1>1 DEF Collect, Collected
<1> HIDE DEF page, cursor, more, pc, got
<1>6. /\ v \in Walks /\ v.pc = pc /\ v.conv = walk[w].conv /\ v.after = cursor
      /\ v.got = got /\ v.more = more /\ v.fresh = walk[w].fresh
  BY <1>2, <1>4, WalkCollects
<1> HIDE DEF v
<1>7. /\ walk' \in [Walkers -> Walks] /\ walk'[w] = v
      /\ \A u \in Walkers \ {w} : walk'[u] = walk[u]
  BY <1>2, <1>5, <1>6
<1>8. QED
  BY <1>1, <1>4, <1>6, <1>7 DEF page, cursor, more, got

LEMMA ReadPageKeepsWidget ==
  ASSUME TypeInv, NEW w \in Walkers, ReadPage(w)
  PROVE  WidgetOK'
<1>1. WidgetOK /\ StoreInv
  BY DEF TypeInv
<1>2. /\ UNCHANGED <<store, screen, socket, composer, progress>>
      /\ Walking(w, "page")
      /\ walk' \in [Walkers -> Walks]
      /\ walk'[w].pc \in {"page", "read"} /\ walk'[w].conv = walk[w].conv
      /\ walk'[w].got = walk[w].got \cup Following(w, PageSize)
      /\ walk'[w].fresh = walk[w].fresh
      /\ \A u \in Walkers \ {w} : walk'[u] = walk[u]
  BY ReadPageMoves
<1>3. Following(w, PageSize) \subseteq StoredIds
  BY <1>1, PageRead
<1>4. Typings'
  BY <1>1, <1>2 DEF WidgetOK, Typings, screen, socket, composer, progress
<1>5. PanelOK'
  BY <1>1, <1>2 DEF WidgetOK, PanelOK, screen, socket, composer, store, At, Walking, Stage
<1>6. LinkOK'
  BY <1>1, <1>2 DEF WidgetOK, LinkOK, screen, socket, composer, progress
<1>7. \A u \in Walkers : WalkOK(u)'
  BY <1>1, <1>2, <1>3 DEF WidgetOK, WalkOK, StoredIds, store, data, socket, Walking
<1>8. QED
  BY <1>1, <1>2, <1>4, <1>5, <1>6, <1>7, SlotsFrame DEF WidgetOK, screen, socket, composer

\* What is appended at the one append point is shown once, after the rest.
LEMMA Appends ==
  ASSUME TypeInv, NEW ids, ids \subseteq StoredIds, AppendMessages(ids)
  PROVE  /\ shown' \in Seq(Ids) /\ IsInjective(shown')
         /\ ToSet(shown') = ToSet(shown) \cup ids
         /\ IsPrefix(shown, shown')
<1> DEFINE fresh == ids \ ToSet(shown)
<1>1. shown \in Seq(1..MaxMessages) /\ IsInjective(shown) /\ MaxMessages \in Nat
  BY ConversationsAssumption DEF TypeInv, WidgetOK, Shows, Ids
<1>2. fresh \in SUBSET (1..MaxMessages) /\ fresh \cap ToSet(shown) = {}
  BY StoredIdsTyped DEF TypeInv, Ids
<1>3. shown' = Appended(shown, fresh)
  BY DEF AppendMessages, Appended
<1> HIDE DEF fresh
<1>4. /\ Appended(shown, fresh) \in Seq(1..MaxMessages)
      /\ IsInjective(Appended(shown, fresh))
      /\ ToSet(Appended(shown, fresh)) = ToSet(shown) \cup fresh
      /\ IsPrefix(shown, Appended(shown, fresh))
  BY <1>1, <1>2, AppendedInOrder
<1>5. QED
  BY <1>3, <1>4 DEF fresh, Ids

LEMMA ShowKeepsWidget ==
  ASSUME TypeInv, NEW w \in Walkers, Show(w)
  PROVE  WidgetOK'
<1>1. WidgetOK /\ StoreInv
  BY DEF TypeInv
<1>2. /\ UNCHANGED <<store, room, wire, drops, composer>>
      /\ Walking(w, "read") /\ AppendMessages(walk[w].got)
  BY DEF Show
<1>3. walk[w].got \subseteq StoredIds /\ walk[w].conv \in Convs
  BY <1>1, <1>2 DEF WidgetOK, WalkOK, Walking
<1>4. /\ walk' \in [Walkers -> Walks] /\ walk'[w] = NoWalk
      /\ \A u \in Walkers \ {w} : walk'[u] = walk[u]
  BY <1>1, NoWalkTyped DEF WidgetOK, Typings, Show
<1>5. Shows'
  <2>1. StoredIds' = StoredIds
    BY <1>2 DEF store, data, StoredIds
  <2>2. shown' \in Seq(Ids) /\ IsInjective(shown') /\ ToSet(shown') \subseteq StoredIds
    BY <1>1, <1>2, <1>3, Appends DEF WidgetOK, Shows
  <2>3. QED
    BY <2>1, <2>2 DEF Shows, ToSet
<1>6. /\ CallsOK' /\ Resolves' /\ (\A k \in SendSlots : StageOK(k)')
      /\ \A i \in DOMAIN wire' : SignalOK(i)'
  <2>1. CallsOK' /\ Resolves'
    BY <1>1, <1>2, CallsFrame DEF composer
  <2>2. \A k \in SendSlots : StageOK(k)'
    BY <1>1, <1>2 DEF WidgetOK, StageOK, composer, store, At
  <2>3. \A i \in DOMAIN wire' : SignalOK(i)'
    BY <1>1, <1>2 DEF WidgetOK, SignalOK, composer, store, data, At, StoredIds
  <2>4. QED
    BY <2>1, <2>2, <2>3
<1>7. \A u \in Walkers : WalkOK(u)'
  BY <1>1, <1>2, <1>4, NoWalkTyped DEF WidgetOK, WalkOK, StoredIds, store, data, Walking
<1>8. CASE panel = "loading"
  <2>1. /\ panel' = "ready" /\ thread' = walk[w].conv /\ link' = "down"
        /\ UNCHANGED progress
    BY <1>8 DEF Show
  <2>2. thread' \in 0..MaxConvs /\ thread' # NoConv /\ link = "off"
    BY <1>1, <1>3, <1>8, <2>1, ConversationsAssumption DEF Convs, NoConv, WidgetOK, PanelOK, Typings
  <2>3. room = {} /\ wire = <<>> /\ ~caughtUp
    BY <1>1, <2>2 DEF WidgetOK, LinkOK
  <2>4. At(BootSlot, "idle")
    BY <1>1, <1>2 DEF WidgetOK, PanelOK, Walking
  <2>5. Typings'
    BY <1>1, <1>2, <1>4, <2>1, <2>2 DEF WidgetOK, Typings, composer, progress, Panels, Links
  <2>6. PanelOK'
    BY <1>1, <1>2, <2>1, <2>2, <2>4 DEF WidgetOK, PanelOK, composer, store, At, Stage, NoConv
  <2>7. LinkOK'
    BY <1>1, <1>2, <1>4, <2>1, <2>2, <2>3, NoWalkTyped DEF WidgetOK, LinkOK, composer, progress
  <2>8. QED
    BY <1>5, <1>6, <1>7, <2>5, <2>6, <2>7 DEF WidgetOK
<1>9. CASE panel # "loading"
  <2>1. /\ UNCHANGED <<panel, thread, link>>
        /\ caughtUp' = (caughtUp \/ (walk[w].fresh /\ ~walk[w].more
                                       /\ walk[w].conv = thread))
    BY <1>9 DEF Show
  <2>2. caughtUp \in BOOLEAN /\ caughtUp' \in BOOLEAN /\ (caughtUp' => caughtUp \/ (walk[w].fresh /\ walk[w].conv = thread))
    BY <1>1, <2>1 DEF WidgetOK, Typings
  <2>3. Typings'
    BY <1>1, <1>2, <1>4, <2>1, <2>2 DEF WidgetOK, Typings, composer
  <2>4. PanelOK'
    BY <1>1, <1>2, <1>4, <1>9, <2>1, NoWalkTyped
       DEF WidgetOK, PanelOK, composer, store, At, Stage, Walking
  <2>5. walk[w].fresh => link = "up" /\ walk[w].conv \in room
    BY <1>1, <1>2 DEF WidgetOK, LinkOK, WalkOK, Walking
  <2>6. LinkOK'
    BY <1>1, <1>2, <1>4, <2>1, <2>2, <2>5, NoWalkTyped DEF WidgetOK, LinkOK, composer
  <2>7. QED
    BY <1>5, <1>6, <1>7, <2>3, <2>4, <2>6 DEF WidgetOK
<1>10. QED
  BY <1>8, <1>9

\* A walk that ends without showing anything.
LEMMA WalkEndsKeepsWidget ==
  ASSUME TypeInv, NEW w \in Walkers, WalkFails(w) \/ JoinTimesOut(w)
  PROVE  WidgetOK'
<1>1. WidgetOK
  BY DEF TypeInv
<1>2. /\ UNCHANGED <<store, thread, shown, socket, composer, progress>>
      /\ walk' = [walk EXCEPT ![w] = NoWalk] /\ walk[w].pc # "idle"
      /\ panel' = panel \/ (panel = "loading" /\ panel' = "error")
  BY DEF WalkFails, JoinTimesOut, screen
<1>3. /\ walk' \in [Walkers -> Walks] /\ walk'[w] = NoWalk
      /\ \A u \in Walkers \ {w} : walk'[u] = walk[u]
  BY <1>1, <1>2, NoWalkTyped DEF WidgetOK, Typings
<1>4. Typings'
  BY <1>1, <1>2, <1>3 DEF WidgetOK, Typings, socket, composer, progress, Panels
<1>5. PanelOK'
  BY <1>1, <1>2, <1>3, NoWalkTyped DEF WidgetOK, PanelOK, socket, composer, store, At, Walking, Stage
<1>6. LinkOK'
  BY <1>1, <1>2, <1>3, NoWalkTyped DEF WidgetOK, LinkOK, socket, composer, progress
<1>7. \A u \in Walkers : WalkOK(u)'
  BY <1>1, <1>2, <1>3, NoWalkTyped DEF WidgetOK, WalkOK, StoredIds, store, data, socket, Walking
<1>8. QED
  BY <1>1, <1>2, <1>4, <1>5, <1>6, <1>7, SlotsFrame DEF WidgetOK, socket, composer

\* A refused handshake, and what the visitor does besides sending.
LEMMA RefusedKeepsWidget ==
  ASSUME TypeInv, Refused
  PROVE  WidgetOK'
<1>1. WidgetOK
  BY DEF TypeInv
<1>2. /\ UNCHANGED <<store, screen, room, wire, drops, walk, progress, submission,
                     input, typed, unanswered, displaced, details>>
      /\ link = "down" /\ link' = "failed"
  BY DEF Refused
<1>3. Typings' /\ PanelOK' /\ LinkOK'
  BY <1>1, <1>2 DEF WidgetOK, Typings, PanelOK, LinkOK, screen, progress, Links, store, At, Walking, Stage
<1>4. \A w \in Walkers : WalkOK(w)'
  BY <1>1, <1>2, WalksFrame DEF store, data
<1>5. QED
  BY <1>1, <1>2, <1>3, <1>4, SlotsFrame DEF WidgetOK, screen

LEMMA TypeKeepsWidget ==
  ASSUME TypeInv, NEW t \in Texts, Type(t)
  PROVE  WidgetOK'
<1>1. WidgetOK
  BY DEF TypeInv
<1>2. /\ UNCHANGED <<store, screen, socket, walk, progress, submission, locked,
                     unanswered, displaced, details>>
      /\ panel = "ready" /\ input' = t /\ typed' = typed \cup {t}
  BY DEF Type
<1>3. Typings' /\ PanelOK' /\ LinkOK'
  BY <1>1, <1>2 DEF WidgetOK, Typings, PanelOK, LinkOK, screen, socket, progress, store, At, Walking, Stage
<1>4. \A w \in Walkers : WalkOK(w)'
  BY <1>1, <1>2, WalksFrame DEF store, data, socket
<1>5. QED
  BY <1>1, <1>2, <1>3, <1>4, SlotsFrame DEF WidgetOK, screen, socket

LEMMA DetailsKeepWidget ==
  ASSUME TypeInv, AskDetails \/ DetailsFail
  PROVE  WidgetOK'
<1>1. WidgetOK
  BY DEF TypeInv
<1>2. /\ UNCHANGED <<store, screen, socket, walk, progress, submission, input, locked,
                     typed, unanswered, displaced>>
      /\ \/ details' = [form |-> "offered", conv |-> NoConv]
         \/ panel = "ready" /\ details' = [form |-> "asked", conv |-> thread]
  BY DEF AskDetails, DetailsFail
<1>3. details' \in Forms /\ (panel # "ready" => details'.form = "offered")
  BY <1>1, <1>2, ConversationsAssumption DEF WidgetOK, Typings, Forms, NoConv
<1>4. Typings' /\ PanelOK' /\ LinkOK'
  BY <1>1, <1>2, <1>3 DEF WidgetOK, Typings, PanelOK, LinkOK, screen, socket, progress, store, At, Walking, Stage
<1>5. \A w \in Walkers : WalkOK(w)'
  BY <1>1, <1>2, WalksFrame DEF store, data, socket
<1>6. QED
  BY <1>1, <1>2, <1>4, <1>5, SlotsFrame DEF WidgetOK, screen, socket

----------------------------------------------------------------------------
(* The wire.                                                               *)

LEMMA Carrying ==
  ASSUME NEW s \in Seq(Signals), NEW e \in Signals, NEW t, t = Append(s, e)
  PROVE  /\ t \in Seq(Signals) /\ DOMAIN t = 1..(Len(s) + 1) /\ DOMAIN s = 1..Len(s)
         /\ Len(s) \in Nat
         /\ \A i \in DOMAIN s : t[i] = s[i]
         /\ t[Len(s) + 1] = e
OBVIOUS

LEMMA Taking ==
  ASSUME NEW s \in Seq(Signals), s # <<>>, NEW t, t = Tail(s)
  PROVE  /\ t \in Seq(Signals) /\ Len(s) \in Nat /\ DOMAIN s = 1..Len(s)
         /\ 1 \in DOMAIN s /\ Head(s) = s[1]
         /\ \A i \in DOMAIN t : i \in Nat /\ i + 1 \in DOMAIN s /\ t[i] = s[i + 1]
         /\ \A i \in DOMAIN s : i # 1 => i \in Nat /\ i - 1 \in DOMAIN t /\ t[i - 1] = s[i]
<1>1. t \in Seq(Signals) /\ Len(t) = Len(s) - 1 /\ \A i \in 1..Len(t) : t[i] = s[i + 1]
  OBVIOUS
<1>2. Len(s) \in Nat /\ Len(s) >= 1 /\ DOMAIN s = 1..Len(s) /\ DOMAIN t = 1..Len(t)
  BY <1>1
<1>3. QED
  BY <1>1, <1>2

LEMMA SignalFields ==
  ASSUME NEW kind \in {"message", "joined", "ack", "closed", "refused"},
         NEW to \in Walkers \cup SendSlots \cup {"room"}, NEW id \in 0..MaxMessages
  PROVE  /\ Signal(kind, to, id) \in Signals
         /\ Signal(kind, to, id).kind = kind /\ Signal(kind, to, id).to = to
         /\ Signal(kind, to, id).id = id
BY DEF Signal, Signals

\* What arrives has been taken off the wire.
LEMMA Arriving ==
  ASSUME TypeInv, NEW kind, Arrives(kind), Taken
  PROVE  /\ wire' \in Seq(Signals) /\ wire # <<>> /\ 1 \in DOMAIN wire
         /\ Head(wire) = wire[1] /\ wire[1].kind = kind /\ wire[1] \in Signals
         /\ SignalOK(1) /\ link = "up"
         /\ UNCHANGED <<link, room, drops>>
         /\ \A i \in DOMAIN wire' : i \in Nat /\ i + 1 \in DOMAIN wire /\ wire'[i] = wire[i + 1]
<1>1. wire \in Seq(Signals) /\ wire # <<>> /\ wire' = Tail(wire) /\ Head(wire).kind = kind
      /\ UNCHANGED <<link, room, drops>>
  BY DEF TypeInv, WidgetOK, Typings, Arrives, Taken
<1>2. /\ wire' \in Seq(Signals) /\ 1 \in DOMAIN wire /\ Head(wire) = wire[1]
      /\ \A i \in DOMAIN wire' : i \in Nat /\ i + 1 \in DOMAIN wire /\ wire'[i] = wire[i + 1]
  BY <1>1, Taking
<1>3. wire[1] \in Signals
  BY <1>1, <1>2
<1>4. SignalOK(1) /\ link = "up"
  BY <1>1, <1>2 DEF TypeInv, WidgetOK, LinkOK
<1>5. QED
  BY <1>1, <1>2, <1>3, <1>4

\* What is left on the wire keeps its order and is still true, if the slots it
\* is for have not begun anything and nothing stored has gone.
LEMMA TakenKeepsSignals ==
  ASSUME TypeInv, NEW kind, Arrives(kind), Taken, messages \subseteq messages',
         \A k \in SendSlots : (\E i \in DOMAIN wire : i # 1 /\ wire[i].to = k) =>
            call'[k].pc = "idle" /\ submission'[k].pc # "rejoin"
  PROVE  \A i \in DOMAIN wire' : SignalOK(i)'
<1> SUFFICES ASSUME NEW i \in DOMAIN wire'
             PROVE  SignalOK(i)'
  OBVIOUS
<1>1. /\ 1 \in DOMAIN wire /\ wire \in Seq(Signals)
      /\ \A j \in DOMAIN wire' : j \in Nat /\ j + 1 \in DOMAIN wire /\ wire'[j] = wire[j + 1]
  BY Arriving DEF TypeInv, WidgetOK, Typings
<1>2. i \in Nat /\ i + 1 \in DOMAIN wire /\ wire'[i] = wire[i + 1] /\ i + 1 # 1
  <2>1. i \in Nat /\ i + 1 \in DOMAIN wire /\ wire'[i] = wire[i + 1]
    BY <1>1
  <2>2. 0 \notin DOMAIN wire'
    <3>1. wire' \in Seq(Signals)
      BY Arriving
    <3>2. QED
      BY <3>1
  <2>3. QED
    BY <2>1, <2>2
<1>3. SignalOK(i + 1)
  BY <1>2 DEF TypeInv, WidgetOK
<1>4. StoredIds \subseteq StoredIds'
  BY DEF StoredIds
<1>5. /\ wire'[i].kind = "message" => wire'[i].to = "room"
      /\ wire'[i].kind \in {"ack", "closed", "refused"} => wire'[i].to \in SendSlots
      /\ wire'[i].kind \in {"message", "ack"} => wire'[i].id \in StoredIds'
  BY <1>2, <1>3, <1>4 DEF SignalOK
<1>6. ASSUME wire'[i].to \in SendSlots
      PROVE  /\ call'[wire'[i].to].pc = "idle"
             /\ submission'[wire'[i].to].pc # "rejoin"
             /\ \A j \in DOMAIN wire' : wire'[j].to = wire'[i].to => j = i
  <2>1. call'[wire'[i].to].pc = "idle" /\ submission'[wire'[i].to].pc # "rejoin"
    BY <1>2, <1>6
  <2>2. ASSUME NEW j \in DOMAIN wire', wire'[j].to = wire'[i].to
        PROVE  j = i
    <3>1. j \in Nat /\ j + 1 \in DOMAIN wire /\ wire[j + 1].to = wire[i + 1].to
      BY <1>1, <1>2, <2>2
    <3>2. j + 1 = i + 1
      BY <1>2, <1>3, <1>6, <3>1 DEF SignalOK
    <3>3. QED
      BY <1>2, <3>1, <3>2
  <2>3. QED
    BY <2>1, <2>2
<1>7. QED
  BY <1>5, <1>6 DEF SignalOK, At

----------------------------------------------------------------------------
(* Submissions.                                                            *)

\* The end of a submission, its text back in the composer or not.
LEMMA FinishMoves ==
  ASSUME TypeInv, NEW k \in SendSlots, Finish(k)
  PROVE  /\ submission' \in [SendSlots -> Submissions]
         /\ submission'[k] = NoSubmission
         /\ \A j \in SendSlots \ {k} : submission'[j] = submission[j]
BY NoSubmissionTyped DEF Finish, TypeInv, WidgetOK, Typings

LEMMA RestoreMoves ==
  ASSUME TypeInv, NEW k \in SendSlots, Restore(k), ~Stage(k, "none")
  PROVE  /\ submission' \in [SendSlots -> Submissions]
         /\ submission'[k] = NoSubmission
         /\ \A j \in SendSlots \ {k} : submission'[j] = submission[j]
         /\ input' \in Texts \cup {NoText} /\ UNCHANGED <<typed, details>>
         /\ panel = "ready"
<1>1. /\ Finish(k) /\ UNCHANGED <<typed, details>>
      /\ input' \in {input, submission[k].text}
  BY DEF Restore
<1>2. submission[k].text \in Texts /\ panel = "ready" /\ input \in Texts \cup {NoText}
  BY DEF TypeInv, WidgetOK, StageOK, Stage, PanelOK, Typings
<1>3. QED
  BY <1>1, <1>2, FinishMoves

\* A slot that becomes free of its submission: whatever else happens to its call,
\* the invariant of slots stays.
LEMMA FinishedSlots ==
  ASSUME TypeInv, NEW k \in SendSlots, UNCHANGED data,
         submission' \in [SendSlots -> Submissions],
         submission'[k] = NoSubmission,
         \A j \in SendSlots \ {k} : submission'[j] = submission[j],
         \A j \in Calls \ {k} : call'[j] = call[j],
         call'[k] = Idle \/ (call'[k] = call[k] /\ ~call[k].http)
  PROVE  CallsOK' /\ Resolves' /\ \A j \in SendSlots : StageOK(j)'
<1>1. WidgetOK /\ WidgetAssumption
  BY WidgetAssumption DEF TypeInv
<1>2. CallsOK'
  BY <1>1, IdleCall, NoSubmissionTyped DEF WidgetOK, CallsOK, At, Stage, Resolving, WidgetAssumption
<1>3. Resolves'
  BY <1>1, IdleCall DEF WidgetOK, Resolves, data, At, Open
<1>4. \A j \in SendSlots : StageOK(j)'
  BY <1>1, IdleCall, NoSubmissionTyped DEF WidgetOK, StageOK, At, WidgetAssumption
<1>5. QED
  BY <1>2, <1>3, <1>4

LEMMA GiveUpKeepsWidget ==
  ASSUME TypeInv, NEW k \in SendSlots, GiveUp(k)
  PROVE  WidgetOK'
<1>1. WidgetOK /\ WidgetAssumption
  BY WidgetAssumption DEF TypeInv
<1>2. /\ UNCHANGED <<store, screen, socket, walk, progress>> /\ Restore(k)
      /\ submission[k].pc \in {"send", "resend", "rejoin", "rejoined"} /\ ~Stage(k, "none")
  BY DEF GiveUp, Stage
<1>3. /\ submission' \in [SendSlots -> Submissions]
      /\ submission'[k] = NoSubmission
      /\ \A j \in SendSlots \ {k} : submission'[j] = submission[j]
      /\ input' \in Texts \cup {NoText} /\ UNCHANGED <<typed, details>>
      /\ panel = "ready"
  BY <1>2, RestoreMoves
<1>4. ~call[k].http
  BY <1>1, <1>2 DEF WidgetOK, CallsOK, WidgetAssumption, Stage
<1>5. Typings'
  BY <1>1, <1>2, <1>3 DEF WidgetOK, Typings, screen, socket, progress
<1>6. PanelOK'
  BY <1>1, <1>2, <1>3 DEF WidgetOK, PanelOK, screen, socket, store, At, Walking, Stage
<1>7. LinkOK'
  BY <1>1, <1>2, <1>3, NoSubmissionTyped DEF WidgetOK, LinkOK, screen, socket, progress
<1>8. CallsOK' /\ Resolves' /\ \A j \in SendSlots : StageOK(j)'
  BY <1>2, <1>3, <1>4, FinishedSlots DEF store
<1>9. Shows'
  BY <1>1, <1>2, ShowsFrame DEF store, data, screen
<1>10. \A w \in Walkers : WalkOK(w)'
  BY <1>1, <1>2, WalksFrame DEF store, data, socket
<1>11. \A i \in DOMAIN wire' : SignalOK(i)'
  BY <1>1, <1>2, <1>3, NoSubmissionTyped DEF WidgetOK, SignalOK, socket, store, data, At, StoredIds
<1>12. QED
  BY <1>5, <1>6, <1>7, <1>8, <1>9, <1>10, <1>11 DEF WidgetOK

\* What forgetting a call does, and to the signals on the wire.
LEMMA ForgetMoves ==
  ASSUME TypeInv, NEW k \in Calls, Forget(k)
  PROVE  /\ call'[k] = Idle /\ call'[k].pc = "idle" /\ call' \in [Calls -> CallRecords]
         /\ \A j \in Calls \ {k} : call'[j] = call[j]
BY IdleCall DEF Forget, TypeInv, StoreInv, Typed

LEMMA RecoveryFailsKeepsWidget ==
  ASSUME TypeInv, NEW k \in SendSlots, RecoveryFails(k)
  PROVE  WidgetOK'
<1>1. WidgetOK /\ WidgetAssumption
  BY WidgetAssumption DEF TypeInv
<1>2. /\ UNCHANGED <<data, screen, socket, walk, progress>> /\ Restore(k)
      /\ submission[k].pc = "resolve" /\ ~Stage(k, "none") /\ Forget(k) /\ k \in Calls
  BY <1>1 DEF RecoveryFails, Stage, WidgetAssumption
<1>3. /\ submission' \in [SendSlots -> Submissions]
      /\ submission'[k] = NoSubmission
      /\ \A j \in SendSlots \ {k} : submission'[j] = submission[j]
      /\ input' \in Texts \cup {NoText} /\ UNCHANGED <<typed, details>>
      /\ panel = "ready"
  BY <1>2, RestoreMoves
<1>4. /\ call'[k] = Idle /\ call'[k].pc = "idle" /\ \A j \in Calls \ {k} : call'[j] = call[j]
  BY <1>2, ForgetMoves
<1>5. Typings'
  BY <1>1, <1>2, <1>3 DEF WidgetOK, Typings, screen, socket, progress
<1>6. PanelOK'
  BY <1>1, <1>2, <1>3, <1>4 DEF WidgetOK, PanelOK, screen, socket, At, Walking, Stage, WidgetAssumption
<1>7. LinkOK'
  BY <1>1, <1>2, <1>3, NoSubmissionTyped DEF WidgetOK, LinkOK, screen, socket, progress
<1>8. CallsOK' /\ Resolves' /\ \A j \in SendSlots : StageOK(j)'
  BY <1>2, <1>3, <1>4, FinishedSlots
<1>9. Shows'
  BY <1>1, <1>2, ShowsFrame DEF data, screen
<1>10. \A w \in Walkers : WalkOK(w)'
  BY <1>1, <1>2, WalksFrame DEF data, socket
<1>11. \A i \in DOMAIN wire' : SignalOK(i)'
  BY <1>1, <1>2, <1>3, <1>4, NoSubmissionTyped
     DEF WidgetOK, SignalOK, socket, data, At, StoredIds, WidgetAssumption
<1>12. QED
  BY <1>5, <1>6, <1>7, <1>8, <1>9, <1>10, <1>11 DEF WidgetOK

LEMMA RecoverKeepsWidget ==
  ASSUME TypeInv, NEW k \in SendSlots, Recover(k)
  PROVE  WidgetOK'
<1>1. WidgetOK /\ WidgetAssumption
  BY WidgetAssumption DEF TypeInv
<1>2. /\ UNCHANGED <<data, panel, shown, socket, walk, unanswered>>
      /\ submission[k].pc = "resolve" /\ ~Stage(k, "none") /\ Forget(k) /\ k \in Calls
      /\ At(k, "answered") /\ call[k].answer # Failed /\ SwitchTo(call[k].answer)
  BY <1>1 DEF Recover, Stage, WidgetAssumption
<1>3. call[k].answer \in Convs /\ call[k].answer \in 0..MaxConvs /\ call[k].answer # NoConv
  BY <1>1, <1>2, ConversationsAssumption DEF WidgetOK, CallsOK, Failed, Convs, NoConv
<1>4. /\ call'[k] = Idle /\ call'[k].pc = "idle" /\ \A j \in Calls \ {k} : call'[j] = call[j]
  BY <1>2, ForgetMoves
<1>5. /\ thread' = call[k].answer /\ caughtUp' \in BOOLEAN
      /\ (caughtUp' => caughtUp /\ thread' = thread)
  BY <1>1, <1>2 DEF SwitchTo, WidgetOK, Typings
<1>6. panel = "ready" /\ thread # NoConv
  BY <1>1, <1>2 DEF WidgetOK, PanelOK, Stage
<1>7. Shows'
  BY <1>1, <1>2, ShowsFrame DEF data
<1>8. \A w \in Walkers : WalkOK(w)'
  BY <1>1, <1>2, WalksFrame DEF data, socket
<1>9. \A i \in DOMAIN wire : wire[i].to # k
  BY <1>1, <1>2 DEF WidgetOK, SignalOK, At
<1>10. CASE link = "up"
  <2>1. /\ submission' = [submission EXCEPT ![k].pc = "rejoin", ![k].live = TRUE,
                                            ![k].conv = call[k].answer]
        /\ UNCHANGED <<input, locked, typed, displaced, details>>
    BY <1>10 DEF Recover
  <2> DEFINE v == Rejoining(submission[k], call[k].answer)
  <2>2. submission' = [submission EXCEPT ![k] = v]
    BY <2>1 DEF Rejoining
  <2>3. submission[k] \in Submissions /\ submission \in [SendSlots -> Submissions]
    BY <1>1 DEF WidgetOK, Typings
  <2>4. /\ v \in Submissions /\ v.pc = "rejoin" /\ v.live /\ v.conv = call[k].answer
        /\ v.text = submission[k].text /\ v.own = submission[k].own
    BY <1>3, <2>3, SubmissionRejoins
  <2> HIDE DEF v
  <2>5. /\ submission' \in [SendSlots -> Submissions] /\ submission'[k] = v
        /\ \A j \in SendSlots \ {k} : submission'[j] = submission[j]
    BY <2>2, <2>3, <2>4
  <2>6. Typings'
    BY <1>1, <1>2, <1>3, <1>5, <2>1, <2>5 DEF WidgetOK, Typings, socket
  <2>7. PanelOK'
    BY <1>1, <1>2, <1>3, <1>4, <1>5, <1>6, <2>1 DEF WidgetOK, PanelOK, socket, At, Walking, Stage, WidgetAssumption
  <2>8. LinkOK'
    BY <1>1, <1>2, <1>5, <1>10, <2>5 DEF WidgetOK, LinkOK, socket
  <2>9. CallsOK'
    BY <1>1, <1>2, <1>4, <2>4, <2>5, IdleCall DEF WidgetOK, CallsOK, At, Stage, Resolving, WidgetAssumption
  <2>10. Resolves'
    BY <1>1, <1>2, <1>4, IdleCall DEF WidgetOK, Resolves, data, At, Open
  <2>11. \A j \in SendSlots : StageOK(j)'
    BY <1>1, <1>2, <1>3, <1>4, <2>4, <2>5 DEF WidgetOK, StageOK, At, WidgetAssumption
  <2>12. \A i \in DOMAIN wire' : SignalOK(i)'
    BY <1>1, <1>2, <1>4, <1>9, <2>5 DEF WidgetOK, SignalOK, socket, data, At, StoredIds, WidgetAssumption
  <2>13. QED
    BY <1>7, <1>8, <2>6, <2>7, <2>8, <2>9, <2>10, <2>11, <2>12 DEF WidgetOK
<1>11. CASE link # "up"
  <2>1. Restore(k)
    BY <1>11 DEF Recover
  <2>2. /\ submission' \in [SendSlots -> Submissions]
        /\ submission'[k] = NoSubmission
        /\ \A j \in SendSlots \ {k} : submission'[j] = submission[j]
        /\ input' \in Texts \cup {NoText} /\ UNCHANGED <<typed, details>>
    BY <1>2, <2>1, RestoreMoves
  <2>3. Typings'
    BY <1>1, <1>2, <1>3, <1>5, <2>2 DEF WidgetOK, Typings, socket
  <2>4. PanelOK'
    BY <1>1, <1>2, <1>3, <1>4, <1>5, <1>6, <2>2 DEF WidgetOK, PanelOK, socket, At, Walking, Stage, WidgetAssumption
  <2>5. LinkOK'
    BY <1>1, <1>2, <1>5, <2>2, NoSubmissionTyped DEF WidgetOK, LinkOK, socket
  <2>6. CallsOK' /\ Resolves' /\ \A j \in SendSlots : StageOK(j)'
    BY <1>2, <1>4, <2>2, FinishedSlots
  <2>7. \A i \in DOMAIN wire' : SignalOK(i)'
    BY <1>1, <1>2, <1>4, <1>9, <2>2 DEF WidgetOK, SignalOK, socket, data, At, StoredIds, WidgetAssumption
  <2>8. QED
    BY <1>7, <1>8, <2>3, <2>4, <2>5, <2>6, <2>7 DEF WidgetOK
<1>12. QED
  BY <1>10, <1>11

LEMMA BeginMoves ==
  ASSUME StoreInv, NEW k \in Calls, NEW pc, NEW c, NEW arg, NEW http,
         Begin(k, pc, Visitor, c, arg, http)
  PROVE  /\ call'[k].pc = pc /\ call'[k].conv = c /\ call'[k].arg = arg
         /\ call'[k].http = http /\ call'[k].id = 0
         /\ (pc = "find" => call'[k].since = changes)
         /\ \A j \in Calls \ {k} : call'[j] = call[j]
BY DEF Begin, Begun, StoreInv, Typed

LEMMA DetailsSavedKeepsWidget ==
  ASSUME TypeInv, DetailsSaved
  PROVE  WidgetOK'
<1>1. WidgetOK /\ WidgetAssumption
  BY WidgetAssumption DEF TypeInv
<1>2. /\ UNCHANGED <<store, panel, shown, socket, walk, typed, unanswered>>
      /\ details' = [form |-> "saved", conv |-> NoConv] /\ input' = NoText
      /\ details.form = "asked" /\ SwitchTo(details.conv)
      /\ submission' = [k \in SendSlots |-> [submission[k] EXCEPT !.own = Stage(k, "none")]]
  BY DEF DetailsSaved
<1>3. details.conv \in 0..MaxConvs /\ details.conv # NoConv /\ panel = "ready" /\ details' \in Forms
  BY <1>1, <1>2, ConversationsAssumption DEF WidgetOK, PanelOK, Typings, Forms, NoConv
<1>4. /\ thread' = details.conv /\ caughtUp' \in BOOLEAN
      /\ (caughtUp' => caughtUp /\ thread' = thread)
  BY <1>1, <1>2 DEF SwitchTo, WidgetOK, Typings
<1>5. /\ submission' \in [SendSlots -> Submissions]
      /\ \A k \in SendSlots : /\ submission'[k].pc = submission[k].pc
                              /\ submission'[k].text = submission[k].text
                              /\ submission'[k].conv = submission[k].conv
                              /\ submission'[k].live = submission[k].live
  <2>1. ASSUME NEW k \in SendSlots
        PROVE  LET v == [submission[k] EXCEPT !.own = Stage(k, "none")]
               IN  /\ v \in Submissions /\ v.pc = submission[k].pc
                   /\ v.text = submission[k].text /\ v.conv = submission[k].conv
                   /\ v.live = submission[k].live
    <3>1. submission[k] \in Submissions /\ Stage(k, "none") \in BOOLEAN
      BY <1>1 DEF WidgetOK, Typings, Stage
    <3>2. QED
      BY <3>1 DEF Submissions
  <2>2. QED
    BY <1>2, <2>1
<1>6. \A k \in SendSlots : submission[k].pc = "none" => submission'[k] = NoSubmission
  <2>1. ASSUME NEW k \in SendSlots, submission[k].pc = "none"
        PROVE  submission'[k] = NoSubmission
    <3>1. submission[k] = NoSubmission
      BY <1>1, <2>1 DEF WidgetOK, StageOK
    <3>2. submission'[k] = [submission[k] EXCEPT !.own = Stage(k, "none")]
      BY <1>2
    <3>3. submission'[k] = [NoSubmission EXCEPT !.own = TRUE]
      BY <2>1, <3>1, <3>2 DEF Stage
    <3>4. QED
      BY <3>3 DEF NoSubmission
  <2>2. QED
    BY <2>1
<1>7. Typings'
  BY <1>1, <1>2, <1>3, <1>4, <1>5 DEF WidgetOK, Typings, socket
<1>8. PanelOK'
  BY <1>1, <1>2, <1>3, <1>4 DEF WidgetOK, PanelOK, socket, store, At, Walking, Stage
<1>9. LinkOK'
  BY <1>1, <1>2, <1>4, <1>5 DEF WidgetOK, LinkOK, socket
<1>10. CallsOK' /\ Resolves'
  BY <1>1, <1>2, <1>5, CallsFrame
<1>11. Shows'
  BY <1>1, <1>2, ShowsFrame DEF store, data
<1>12. \A w \in Walkers : WalkOK(w)'
  BY <1>1, <1>2, WalksFrame DEF store, data, socket
<1>13. \A k \in SendSlots : StageOK(k)'
  BY <1>1, <1>2, <1>5, <1>6 DEF WidgetOK, StageOK, store, At
<1>14. \A i \in DOMAIN wire' : SignalOK(i)'
  BY <1>1, <1>2, <1>5 DEF WidgetOK, SignalOK, store, data, At, StoredIds, socket
<1>15. QED
  BY <1>7, <1>8, <1>9, <1>10, <1>11, <1>12, <1>13, <1>14 DEF WidgetOK

\* A signal to somebody nothing else is on its way to.
LEMMA SendKeepsSignals ==
  ASSUME TypeInv, NEW e \in Signals, wire' = Append(wire, e), messages \subseteq messages',
         e.kind = "message" => e.to = "room",
         e.kind \in {"ack", "closed", "refused"} => e.to \in SendSlots,
         e.kind \in {"message", "ack"} => e.id \in StoredIds',
         e.to \in SendSlots => /\ \A i \in DOMAIN wire : wire[i].to # e.to
                               /\ call'[e.to].pc = "idle" /\ submission'[e.to].pc # "rejoin",
         \A k \in SendSlots : (\E i \in DOMAIN wire : wire[i].to = k) =>
            call'[k].pc = "idle" /\ submission'[k].pc # "rejoin"
  PROVE  \A i \in DOMAIN wire' : SignalOK(i)'
<1>1. wire \in Seq(Signals)
  BY DEF TypeInv, WidgetOK, Typings
<1>2. /\ wire' \in Seq(Signals) /\ DOMAIN wire' = 1..(Len(wire) + 1)
      /\ DOMAIN wire = 1..Len(wire) /\ Len(wire) \in Nat
      /\ \A i \in DOMAIN wire : wire'[i] = wire[i]
      /\ wire'[Len(wire) + 1] = e
  BY <1>1, Carrying
<1>3. StoredIds \subseteq StoredIds'
  BY DEF StoredIds
<1>4. ASSUME NEW i \in DOMAIN wire
      PROVE  SignalOK(i)'
  <2>1. SignalOK(i) /\ wire'[i] = wire[i]
    BY <1>2 DEF TypeInv, WidgetOK
  <2>2. \A j \in DOMAIN wire' : j \in DOMAIN wire \/ j = Len(wire) + 1
    BY <1>2
  <2>3. QED
    BY <1>2, <1>3, <2>1, <2>2 DEF SignalOK, At
<1> PICK n : n = Len(wire) + 1
  OBVIOUS
<1>5. SignalOK(n)'
  <2>1. wire'[n] = e /\ \A j \in DOMAIN wire' : j \in DOMAIN wire \/ j = n
    BY <1>2
  <2>2. \A j \in DOMAIN wire' : e.to \in SendSlots /\ wire'[j].to = e.to => j = n
    BY <1>2, <2>1
  <2>3. QED
    BY <2>1, <2>2 DEF SignalOK, At
<1>6. \A i \in DOMAIN wire' : i \in DOMAIN wire \/ i = n
  BY <1>2
<1>7. QED
  BY <1>4, <1>5, <1>6

LEMMA SubmitKeepsWidget ==
  ASSUME TypeInv, NEW k \in SendSlots, Submit(k)
  PROVE  WidgetOK'
<1>1. WidgetOK /\ StoreInv /\ WidgetAssumption /\ k \in Calls
  BY WidgetAssumption DEF TypeInv, WidgetAssumption
<1>2. /\ UNCHANGED <<data, screen, link, room, drops, walk, progress, typed,
                     unanswered, displaced, details>>
      /\ input # NoText /\ link = "up" /\ input' = NoText
      /\ Stage(k, "none") /\ At(k, "idle") /\ (\A i \in DOMAIN wire : wire[i].to # k)
      /\ Emit(k, thread, input)
  BY DEF Submit, Free
<1>3. panel = "ready" /\ thread \in 0..MaxConvs /\ thread # NoConv /\ thread \in Convs
      /\ input \in Texts
  BY <1>1, <1>2, ConversationsAssumption DEF WidgetOK, PanelOK, Typings, Convs, NoConv
<1> DEFINE v == [pc |-> "send", text |-> input, conv |-> thread, live |-> TRUE, own |-> TRUE]
<1>4. v \in Submissions /\ v.pc = "send" /\ v.text = input /\ v.conv = thread /\ v.live
  BY <1>3 DEF Submissions, Stages
<1>5. submission' = [submission EXCEPT ![k] = v]
  BY DEF Submit
<1> HIDE DEF v
<1>6. /\ submission' \in [SendSlots -> Submissions] /\ submission'[k] = v
      /\ \A j \in SendSlots \ {k} : submission'[j] = submission[j]
  BY <1>1, <1>4, <1>5 DEF WidgetOK, Typings
<1>7. /\ \A j \in Calls \ {k} : call'[j] = call[j]
      /\ \/ call'[k].pc = "check" /\ call'[k].http = FALSE /\ UNCHANGED wire
         \/ call'[k] = call[k] /\ wire' = Append(wire, Signal("refused", k, 0))
  <2>1. CASE thread \in room
    <3>1. Begin(k, "check", Visitor, thread, input, FALSE) /\ UNCHANGED wire
      BY <1>2, <2>1 DEF Emit
    <3>2. QED
      BY <1>1, <3>1 DEF Begin, Begun, StoreInv, Typed
  <2>2. CASE thread \notin room
    BY <1>2, <2>2 DEF Emit
  <2>3. QED
    BY <2>1, <2>2
<1>8. ~call[k].http /\ ~call'[k].http
  BY <1>1, <1>2, <1>7 DEF WidgetOK, CallsOK, At, Resolving
<1>9. \A i \in DOMAIN wire' : SignalOK(i)'
  <2>1. CASE UNCHANGED wire
    BY <1>1, <1>2, <1>6, <1>7, <2>1 DEF WidgetOK, SignalOK, data, At, StoredIds, WidgetAssumption
  <2>2. CASE call'[k] = call[k] /\ wire' = Append(wire, Signal("refused", k, 0))
    <3> DEFINE e == Signal("refused", k, 0)
    <3>1. e \in Signals /\ e.kind = "refused" /\ e.to = k
      BY SignalFields, ConversationsAssumption
    <3> HIDE DEF e
    <3>2. wire' = Append(wire, e)
      BY <2>2 DEF e
    <3>3. \A j \in SendSlots : (\E i \in DOMAIN wire : wire[i].to = j) =>
            call'[j].pc = "idle" /\ submission'[j].pc # "rejoin"
      BY <1>1, <1>2, <1>6, <1>7 DEF WidgetOK, SignalOK, At, WidgetAssumption
    <3>4. call'[k].pc = "idle" /\ submission'[k].pc # "rejoin"
      BY <1>2, <1>4, <1>6, <2>2 DEF At
    <3>5. messages \subseteq messages'
      BY <1>2 DEF data
    <3>6. QED
      BY <1>2, <3>1, <3>2, <3>3, <3>4, <3>5, SendKeepsSignals
  <2>3. QED
    BY <1>7, <2>1, <2>2
<1>10. wire' \in Seq(Signals)
  <2>1. Signal("refused", k, 0) \in Signals
    BY SignalFields, ConversationsAssumption
  <2>2. wire \in Seq(Signals)
    BY <1>1 DEF WidgetOK, Typings
  <2>3. QED
    BY <1>7, <2>1, <2>2
<1>11. Typings'
  BY <1>1, <1>2, <1>6, <1>10 DEF WidgetOK, Typings, screen, progress
<1>12. PanelOK'
  BY <1>1, <1>2, <1>3, <1>7 DEF WidgetOK, PanelOK, screen, At, Walking, Stage, WidgetAssumption
<1>13. LinkOK'
  BY <1>1, <1>2, <1>6 DEF WidgetOK, LinkOK, screen, progress
<1>14. CallsOK'
  BY <1>1, <1>2, <1>6, <1>7, <1>8 DEF WidgetOK, CallsOK, At, Stage, Resolving, WidgetAssumption
<1>15. Resolves'
  BY <1>1, <1>2, <1>7 DEF WidgetOK, Resolves, data, At, Open
<1>16. Shows'
  BY <1>1, <1>2, ShowsFrame DEF data, screen
<1>17. \A w \in Walkers : WalkOK(w)'
  BY <1>1, <1>2, WalksFrame DEF data
<1>18. \A j \in SendSlots : StageOK(j)'
  BY <1>1, <1>2, <1>3, <1>4, <1>6, <1>7 DEF WidgetOK, StageOK, At, WidgetAssumption
<1>19. QED
  BY <1>9, <1>11, <1>12, <1>13, <1>14, <1>15, <1>16, <1>17, <1>18 DEF WidgetOK

LEMMA ServeJoinKeepsWidget ==
  ASSUME TypeInv, NEW w \in Walkers, ServeJoin(w)
  PROVE  WidgetOK'
<1>1. WidgetOK /\ WidgetAssumption
  BY WidgetAssumption DEF TypeInv
<1>2. /\ UNCHANGED <<store, screen, link, drops, composer, progress>>
      /\ Walking(w, "join") /\ walk[w].fresh
      /\ room' = room \cup {walk[w].conv}
      /\ wire' = Append(wire, Signal("joined", w, 0))
      /\ walk' = [walk EXCEPT ![w].pc = "joined"]
  BY DEF ServeJoin
<1>3. walk[w].conv \in Convs /\ link = "up"
  BY <1>1, <1>2 DEF WidgetOK, WalkOK, LinkOK, Walking
<1>4. /\ walk' \in [Walkers -> Walks] /\ walk'[w].pc = "joined"
      /\ walk'[w].conv = walk[w].conv /\ walk'[w].got = walk[w].got
      /\ \A u \in Walkers \ {w} : walk'[u] = walk[u]
  <2> DEFINE v == [walk[w] EXCEPT !.pc = "joined"]
  <2>1. walk[w] \in Walks /\ walk \in [Walkers -> Walks]
    BY <1>1 DEF WidgetOK, Typings
  <2>2. v \in Walks /\ v.pc = "joined" /\ v.conv = walk[w].conv /\ v.got = walk[w].got
    BY <2>1 DEF Walks
  <2>3. walk' = [walk EXCEPT ![w] = v]
    BY <1>2
  <2> HIDE DEF v
  <2>4. QED
    BY <2>1, <2>2, <2>3
<1> DEFINE e == Signal("joined", w, 0)
<1>5. e \in Signals /\ e.kind = "joined" /\ e.to = w /\ e.to \notin SendSlots
  BY <1>1, SignalFields, ConversationsAssumption DEF WidgetAssumption
<1> HIDE DEF e
<1>6. wire' = Append(wire, e) /\ wire' \in Seq(Signals)
  <2>1. wire \in Seq(Signals)
    BY <1>1 DEF WidgetOK, Typings
  <2>2. QED
    BY <1>2, <1>5, <2>1 DEF e
<1>7. \A i \in DOMAIN wire' : SignalOK(i)'
  <2>1. \A j \in SendSlots : (\E i \in DOMAIN wire : wire[i].to = j) =>
          call'[j].pc = "idle" /\ submission'[j].pc # "rejoin"
    BY <1>1, <1>2 DEF WidgetOK, SignalOK, At, store, composer
  <2>2. messages \subseteq messages'
    BY <1>2 DEF store, data
  <2>3. QED
    BY <1>5, <1>6, <2>1, <2>2, SendKeepsSignals
<1>8. Typings'
  BY <1>1, <1>2, <1>3, <1>4, <1>6 DEF WidgetOK, Typings, screen, composer, progress
<1>9. PanelOK'
  BY <1>1, <1>2, <1>4 DEF WidgetOK, PanelOK, screen, composer, store, At, Walking, Stage
<1>10. LinkOK'
  BY <1>1, <1>2, <1>3 DEF WidgetOK, LinkOK, screen, composer, progress
<1>11. CallsOK' /\ Resolves'
  BY <1>1, <1>2, CallsFrame DEF composer
<1>12. Shows'
  BY <1>1, <1>2, ShowsFrame DEF store, data, screen
<1>13. \A u \in Walkers : WalkOK(u)'
  BY <1>1, <1>2, <1>3, <1>4 DEF WidgetOK, WalkOK, StoredIds, store, data, Walking
<1>14. \A k \in SendSlots : StageOK(k)'
  BY <1>1, <1>2 DEF WidgetOK, StageOK, store, composer, At
<1>15. QED
  BY <1>7, <1>8, <1>9, <1>10, <1>11, <1>12, <1>13, <1>14 DEF WidgetOK

LEMMA ServeRejoinKeepsWidget ==
  ASSUME TypeInv, NEW k \in SendSlots, ServeRejoin(k)
  PROVE  WidgetOK'
<1>1. WidgetOK /\ WidgetAssumption
  BY WidgetAssumption DEF TypeInv
<1>2. /\ UNCHANGED <<store, screen, link, drops, walk, progress, input, locked, typed,
                     unanswered, displaced, details>>
      /\ Stage(k, "rejoin") /\ submission[k].live
      /\ room' = room \cup {submission[k].conv}
      /\ wire' = Append(wire, Signal("joined", k, 0))
      /\ submission' = [submission EXCEPT ![k].pc = "rejoined"]
  BY DEF ServeRejoin
<1>3. submission[k].conv \in Convs /\ link = "up" /\ At(k, "idle")
  BY <1>1, <1>2 DEF WidgetOK, StageOK, LinkOK, Stage
<1>4. /\ submission' \in [SendSlots -> Submissions] /\ submission'[k].pc = "rejoined"
      /\ submission'[k].conv = submission[k].conv /\ submission'[k].live = submission[k].live
      /\ submission'[k].text = submission[k].text
      /\ \A j \in SendSlots \ {k} : submission'[j] = submission[j]
  <2> DEFINE v == [submission[k] EXCEPT !.pc = "rejoined"]
  <2>1. submission[k] \in Submissions /\ submission \in [SendSlots -> Submissions]
    BY <1>1 DEF WidgetOK, Typings
  <2>2. /\ v \in Submissions /\ v.pc = "rejoined" /\ v.conv = submission[k].conv
        /\ v.live = submission[k].live /\ v.text = submission[k].text
    BY <2>1 DEF Submissions, Stages
  <2>3. submission' = [submission EXCEPT ![k] = v]
    BY <1>2
  <2> HIDE DEF v
  <2>4. QED
    BY <2>1, <2>2, <2>3
<1> DEFINE e == Signal("joined", k, 0)
<1>5. e \in Signals /\ e.kind = "joined" /\ e.to = k
  BY <1>1, SignalFields, ConversationsAssumption
<1> HIDE DEF e
<1>6. wire' = Append(wire, e) /\ wire' \in Seq(Signals)
  <2>1. wire \in Seq(Signals)
    BY <1>1 DEF WidgetOK, Typings
  <2>2. QED
    BY <1>2, <1>5, <2>1 DEF e
<1>7. \A i \in DOMAIN wire' : SignalOK(i)'
  <2>1. \A j \in SendSlots : (\E i \in DOMAIN wire : wire[i].to = j) =>
          call'[j].pc = "idle" /\ submission'[j].pc # "rejoin"
    BY <1>1, <1>2, <1>4 DEF WidgetOK, SignalOK, At, store
  <2>2. messages \subseteq messages'
    BY <1>2 DEF store, data
  <2>3. \A i \in DOMAIN wire : wire[i].to # k
    BY <1>1, <1>2 DEF WidgetOK, SignalOK, Stage
  <2>4. call'[k].pc = "idle" /\ submission'[k].pc # "rejoin"
    BY <1>2, <1>3, <1>4 DEF store, At
  <2>5. QED
    BY <1>5, <1>6, <2>1, <2>2, <2>3, <2>4, SendKeepsSignals
<1>8. Typings'
  BY <1>1, <1>2, <1>3, <1>4, <1>6 DEF WidgetOK, Typings, screen, progress
<1>9. PanelOK'
  BY <1>1, <1>2, <1>4 DEF WidgetOK, PanelOK, screen, store, At, Walking, Stage
<1>10. LinkOK'
  BY <1>1, <1>2, <1>3, <1>4 DEF WidgetOK, LinkOK, screen, progress
<1>11. CallsOK' /\ Resolves'
  BY <1>1, <1>2, <1>4, CallsFrame DEF Stage
<1>12. Shows'
  BY <1>1, <1>2, ShowsFrame DEF store, data, screen
<1>13. \A w \in Walkers : WalkOK(w)'
  BY <1>1, <1>2, WalksFrame DEF store, data
<1>14. \A j \in SendSlots : StageOK(j)'
  BY <1>1, <1>2, <1>3, <1>4 DEF WidgetOK, StageOK, store, At, Stage
<1>15. QED
  BY <1>7, <1>8, <1>9, <1>10, <1>11, <1>12, <1>13, <1>14 DEF WidgetOK

----------------------------------------------------------------------------
(* A connection breaks.                                                    *)

LEMMA BrokenMoves ==
  ASSUME WidgetOK, Broken
  PROVE  /\ UNCHANGED <<screen, passed, input, typed, unanswered, displaced, details>>
         /\ link = "up" /\ link' = "down" /\ room' = {} /\ wire' = <<>> /\ ~caughtUp'
         /\ caughtUp' \in BOOLEAN
         /\ walk' \in [Walkers -> Walks] /\ submission' \in [SendSlots -> Submissions]
         /\ \A w \in Walkers : /\ walk'[w].pc = walk[w].pc /\ walk'[w].conv = walk[w].conv
                               /\ walk'[w].got = walk[w].got /\ ~walk'[w].fresh
                               /\ walk'[w].after = walk[w].after
         /\ \A k \in SendSlots :
              /\ submission'[k].pc = submission[k].pc /\ ~submission'[k].live
              /\ submission'[k].text = submission[k].text
              /\ submission'[k].conv = submission[k].conv
              /\ submission'[k].own = submission[k].own
              /\ submission[k] = NoSubmission => submission'[k] = NoSubmission
<1>1. /\ UNCHANGED <<screen, passed, input, typed, unanswered, displaced, details>>
      /\ link = "up" /\ link' = "down" /\ room' = {} /\ wire' = <<>> /\ caughtUp' = FALSE
      /\ walk' = [w \in Walkers |-> [walk[w] EXCEPT !.fresh = FALSE]]
      /\ submission' = [k \in SendSlots |-> [submission[k] EXCEPT !.live = FALSE]]
  BY DEF Broken, Drop
<1>2. ASSUME NEW w \in Walkers
      PROVE  LET v == [walk[w] EXCEPT !.fresh = FALSE]
             IN  v \in Walks /\ v.pc = walk[w].pc /\ v.conv = walk[w].conv
                 /\ v.got = walk[w].got /\ ~v.fresh /\ v.after = walk[w].after
  <2>1. walk[w] \in Walks
    BY DEF WidgetOK, Typings
  <2>2. QED
    BY <2>1 DEF Walks
<1>3. ASSUME NEW k \in SendSlots
      PROVE  LET v == [submission[k] EXCEPT !.live = FALSE]
             IN  v \in Submissions /\ v.pc = submission[k].pc /\ ~v.live
                 /\ v.text = submission[k].text /\ v.conv = submission[k].conv
                 /\ v.own = submission[k].own
  <2>1. submission[k] \in Submissions
    BY DEF WidgetOK, Typings
  <2>2. QED
    BY <2>1 DEF Submissions
<1>4. ASSUME NEW k \in SendSlots, submission[k] = NoSubmission
      PROVE  submission'[k] = NoSubmission
  <2>1. submission'[k] = [NoSubmission EXCEPT !.live = FALSE]
    BY <1>1, <1>4
  <2>2. QED
    BY <2>1 DEF NoSubmission
<1>5. QED
  BY <1>1, <1>2, <1>3, <1>4

\* A broken connection takes signals and calls with it, and begins none.
LEMMA BrokenKeepsWidget ==
  ASSUME TypeInv, Broken, messages \subseteq messages', CallsOK', Resolves',
         \A k \in Calls : call[k].pc = "idle" => call'[k].pc = "idle",
         \A k \in Calls : call[k].http => call'[k].http
  PROVE  WidgetOK'
<1>1. WidgetOK /\ WidgetAssumption
  BY WidgetAssumption DEF TypeInv
<1>2. /\ UNCHANGED <<screen, passed, input, typed, unanswered, displaced, details>>
      /\ link = "up" /\ link' = "down" /\ room' = {} /\ wire' = <<>> /\ ~caughtUp'
      /\ caughtUp' \in BOOLEAN
      /\ walk' \in [Walkers -> Walks] /\ submission' \in [SendSlots -> Submissions]
      /\ \A w \in Walkers : /\ walk'[w].pc = walk[w].pc /\ walk'[w].conv = walk[w].conv
                            /\ walk'[w].got = walk[w].got /\ ~walk'[w].fresh
      /\ \A k \in SendSlots :
           /\ submission'[k].pc = submission[k].pc /\ ~submission'[k].live
           /\ submission'[k].text = submission[k].text
           /\ submission'[k].conv = submission[k].conv
           /\ submission[k] = NoSubmission => submission'[k] = NoSubmission
  BY <1>1, BrokenMoves
<1>3. panel = "ready" /\ At(BootSlot, "idle")
  BY <1>1, <1>2 DEF WidgetOK, PanelOK
<1>4. Typings'
  <2>1. wire' \in Seq(Signals) /\ room' \subseteq Convs
    BY <1>2
  <2>2. QED
    BY <1>1, <1>2, <2>1 DEF WidgetOK, Typings, screen, Links
<1>5. PanelOK'
  BY <1>1, <1>2, <1>3 DEF WidgetOK, PanelOK, screen, At, Walking, Stage, WidgetAssumption
<1>6. LinkOK'
  BY <1>2 DEF LinkOK
<1>7. Shows'
  BY <1>1, <1>2, ShowsFrame DEF screen
<1>8. StoredIds \subseteq StoredIds'
  BY DEF StoredIds
<1>9. \A w \in Walkers : WalkOK(w)'
  BY <1>1, <1>2, <1>8 DEF WidgetOK, WalkOK, Walking
<1>10. \A k \in SendSlots : StageOK(k)'
  BY <1>1, <1>2 DEF WidgetOK, StageOK, At, WidgetAssumption
<1>11. \A i \in DOMAIN wire' : SignalOK(i)'
  BY <1>2
<1>12. QED
  BY <1>4, <1>5, <1>6, <1>7, <1>9, <1>10, <1>11 DEF WidgetOK

LEMMA DisconnectKeepsWidget ==
  ASSUME TypeInv, Disconnect
  PROVE  WidgetOK'
<1>1. WidgetOK /\ WidgetAssumption
  BY WidgetAssumption DEF TypeInv
<1>2. PICK lost \in SUBSET {k \in SendSlots : At(k, "check") /\ submission[k].live} :
        call' = [k \in Calls |-> IF k \in lost THEN Idle ELSE call[k]]
  BY DEF Disconnect
<1>3. Broken /\ UNCHANGED data
  BY DEF Disconnect
<1>4. \A k \in SendSlots : submission'[k].pc = submission[k].pc
  BY <1>1, <1>3, BrokenMoves
<1>5. /\ \A k \in Calls : call'[k] = call[k] \/ (At(k, "check") /\ call'[k] = Idle)
      /\ \A k \in Calls : At(k, "check") => ~call[k].http
  BY <1>1, <1>2 DEF WidgetOK, CallsOK, At, Resolving
<1>6. CallsOK'
  BY <1>1, <1>4, <1>5, IdleCall DEF WidgetOK, CallsOK, At, Stage, Resolving
<1>7. Resolves'
  BY <1>1, <1>3, <1>5, IdleCall DEF WidgetOK, Resolves, data, At, Open
<1>8. QED
  BY <1>3, <1>5, <1>6, <1>7, IdleCall, BrokenKeepsWidget DEF data, At

LEMMA RestartKeepsWidget ==
  ASSUME TypeInv, Restart
  PROVE  WidgetOK'
<1>1. WidgetOK /\ WidgetAssumption
  BY WidgetAssumption DEF TypeInv
<1>2. Broken /\ ProcessDies /\ UNCHANGED <<conv, messages, changes>>
  BY DEF Restart, ProcessDies
<1> DEFINE told == [Idle EXCEPT !.pc = "answered", !.http = TRUE]
<1>3. told.pc = "answered" /\ told.http = TRUE /\ told.arg = "none" /\ told.answer = 0
  BY DEF Idle
<1>4. call' = [k \in Calls |-> IF call[k].http THEN told ELSE Idle]
  BY <1>2 DEF ProcessDies
<1> HIDE DEF told
<1>5. \A k \in SendSlots : submission'[k].pc = submission[k].pc
  BY <1>1, <1>2, BrokenMoves
<1>6. \A k \in Calls : \/ call[k].http /\ call'[k] = told
                       \/ ~call[k].http /\ call'[k] = Idle
  BY <1>4
<1>7. CallsOK'
  BY <1>1, <1>3, <1>5, <1>6, IdleCall, ConversationsAssumption
     DEF WidgetOK, CallsOK, At, Stage, Resolving
<1>8. Resolves'
  BY <1>3, <1>6, IdleCall DEF Resolves, At
<1>9. \A k \in Calls : call[k].pc = "idle" => call'[k].pc = "idle"
  BY <1>1, <1>6, IdleCall DEF WidgetOK, CallsOK, Resolving
<1>10. QED
  BY <1>2, <1>3, <1>6, <1>7, <1>8, <1>9, BrokenKeepsWidget

----------------------------------------------------------------------------
(* What arrives.                                                           *)

\* The one thing on its way to a submission has arrived.
LEMMA ArrivesFor ==
  ASSUME TypeInv, NEW kind, Arrives(kind), Taken, NEW k \in SendSlots, Head(wire).to = k
  PROVE  /\ At(k, "idle") /\ ~Stage(k, "rejoin") /\ ~call[k].http
         /\ \A i \in DOMAIN wire : i # 1 => wire[i].to # k
<1>1. /\ 1 \in DOMAIN wire /\ Head(wire) = wire[1] /\ SignalOK(1)
  BY Arriving
<1>2. /\ At(k, "idle") /\ ~Stage(k, "rejoin")
      /\ \A i \in DOMAIN wire : i # 1 => wire[i].to # k
  BY <1>1 DEF SignalOK, Stage
<1>3. ~call[k].http
  BY <1>2, WidgetAssumption DEF TypeInv, WidgetOK, CallsOK, At, Resolving, WidgetAssumption
<1>4. QED
  BY <1>2, <1>3

\* Nobody's slot is touched by what is shown.
LEMMA OthersStayQuiet ==
  ASSUME TypeInv, NEW k \in SendSlots, \A i \in DOMAIN wire : i # 1 => wire[i].to # k,
         \A j \in SendSlots \ {k} : submission'[j] = submission[j],
         \A j \in Calls \ {k} : call'[j] = call[j]
  PROVE  \A j \in SendSlots : (\E i \in DOMAIN wire : i # 1 /\ wire[i].to = j) =>
            call'[j].pc = "idle" /\ submission'[j].pc # "rejoin"
BY WidgetAssumption DEF TypeInv, WidgetOK, SignalOK, At, WidgetAssumption

LEMMA ShowLiveMoves ==
  ASSUME TypeInv, NEW i \in StoredIds, ShowLive(i), UNCHANGED messages
  PROVE  /\ shown' \in Seq(Ids) /\ IsInjective(shown') /\ ToSet(shown') = ToSet(shown) \cup {i}
         /\ IsPrefix(shown, shown') /\ Shows' /\ UNCHANGED caughtUp
<1>1. AppendMessages({i}) /\ UNCHANGED caughtUp
  BY DEF ShowLive
<1>2. /\ shown' \in Seq(Ids) /\ IsInjective(shown') /\ ToSet(shown') = ToSet(shown) \cup {i}
      /\ IsPrefix(shown, shown')
  BY <1>1, Appends
<1>3. StoredIds' = StoredIds /\ ToSet(shown) \subseteq StoredIds
  BY DEF StoredIds, TypeInv, WidgetOK, Shows
<1>4. QED
  BY <1>1, <1>2, <1>3 DEF Shows, ToSet

LEMMA HearKeepsWidget ==
  ASSUME TypeInv, Hear
  PROVE  WidgetOK'
<1>1. WidgetOK
  BY DEF TypeInv
<1>2. /\ Arrives("message") /\ Taken /\ ShowLive(Head(wire).id)
      /\ UNCHANGED <<store, panel, thread, composer, walk>>
  BY DEF Hear
<1>3. /\ wire' \in Seq(Signals) /\ Head(wire) = wire[1] /\ wire[1].kind = "message"
      /\ SignalOK(1) /\ link = "up" /\ UNCHANGED <<link, room, drops>>
  BY <1>2, Arriving
<1> PICK i : i = Head(wire).id
  OBVIOUS
<1>4. i \in StoredIds /\ ShowLive(i)
  BY <1>2, <1>3 DEF SignalOK
<1>5. Shows' /\ UNCHANGED caughtUp
  BY <1>2, <1>4, ShowLiveMoves DEF store, data
<1>6. Typings' /\ PanelOK' /\ LinkOK'
  BY <1>1, <1>2, <1>3, <1>5 DEF WidgetOK, Typings, PanelOK, LinkOK, composer, store, At, Walking, Stage
<1>7. CallsOK' /\ Resolves'
  BY <1>1, <1>2, CallsFrame DEF composer
<1>8. \A w \in Walkers : WalkOK(w)'
  BY <1>1, <1>2, <1>3, WalksFrame DEF store, data
<1>9. \A k \in SendSlots : StageOK(k)'
  BY <1>1, <1>2 DEF WidgetOK, StageOK, store, composer, At
<1>10. \A n \in DOMAIN wire' : SignalOK(n)'
  <2>1. \A j \in SendSlots : (\E n \in DOMAIN wire : n # 1 /\ wire[n].to = j) =>
            call'[j].pc = "idle" /\ submission'[j].pc # "rejoin"
    BY <1>1, <1>2 DEF WidgetOK, SignalOK, store, composer, At
  <2>2. messages \subseteq messages'
    BY <1>2 DEF store, data
  <2>3. QED
    BY <1>2, <2>1, <2>2, TakenKeepsSignals
<1>11. QED
  BY <1>5, <1>6, <1>7, <1>8, <1>9, <1>10 DEF WidgetOK

LEMMA CursorOfShown ==
  ASSUME TypeInv
  PROVE  /\ LastRendered \in 0..MaxMessages
         /\ LastRendered # 0 => LastRendered \in ToSet(shown) /\ LastRendered \in StoredIds
<1>1. shown \in Seq(Ids) /\ ToSet(shown) \subseteq StoredIds
  BY DEF TypeInv, WidgetOK, Shows
<1>2. CASE shown = <<>>
  BY <1>2, ConversationsAssumption DEF LastRendered
<1>3. CASE shown # <<>>
  <2>1. Len(shown) \in Nat /\ Len(shown) \in 1..Len(shown) /\ Last(shown) = shown[Len(shown)]
    BY <1>1, <1>3 DEF Last
  <2>2. Last(shown) \in Ids /\ Last(shown) \in ToSet(shown)
    BY <1>1, <2>1 DEF ToSet
  <2>3. QED
    BY <1>1, <1>3, <2>2, ConversationsAssumption DEF LastRendered, Ids
<1>4. QED
  BY <1>2, <1>3

LEMMA JoinAcknowledgedMoves ==
  ASSUME TypeInv, NEW w \in Walkers, JoinAcknowledged(w)
  PROVE  /\ UNCHANGED <<store, screen, composer, progress>> /\ Arrives("joined") /\ Taken
         /\ walk' \in [Walkers -> Walks]
         /\ \A u \in Walkers \ {w} : walk'[u] = walk[u]
         /\ \/ walk'[w] = walk[w]
            \/ /\ Walking(w, "joined") /\ walk'[w].pc = "page"
               /\ walk'[w].after = LastRendered /\ walk'[w].conv = walk[w].conv
               /\ walk'[w].got = walk[w].got /\ walk'[w].fresh = walk[w].fresh
<1>1. walk[w] \in Walks /\ walk \in [Walkers -> Walks] /\ LastRendered \in 0..MaxMessages
  BY CursorOfShown DEF TypeInv, WidgetOK, Typings
<1>2. /\ UNCHANGED <<store, screen, composer, progress>> /\ Arrives("joined") /\ Taken
      /\ walk' = IF Walking(w, "joined")
                 THEN [walk EXCEPT ![w].pc = "page", ![w].after = LastRendered]
                 ELSE walk
  BY DEF JoinAcknowledged
<1>3. CASE Walking(w, "joined")
  <2> DEFINE n == LastRendered
             v == Catching(walk[w], n)
  <2> HIDE DEF n
  <2>1. /\ v \in Walks /\ v.pc = "page" /\ v.conv = walk[w].conv /\ v.after = n
        /\ v.got = walk[w].got /\ v.fresh = walk[w].fresh
    BY <1>1, WalkRejoined DEF n
  <2>2. walk' = [walk EXCEPT ![w] = v]
    BY <1>2, <1>3 DEF n, Catching
  <2> HIDE DEF v
  <2>3. /\ walk' \in [Walkers -> Walks] /\ walk'[w] = v
        /\ \A u \in Walkers \ {w} : walk'[u] = walk[u]
    BY <1>1, <2>1, <2>2
  <2>4. QED
    BY <1>2, <1>3, <2>1, <2>3 DEF n
<1>4. CASE ~Walking(w, "joined")
  BY <1>1, <1>2, <1>4
<1>5. QED
  BY <1>3, <1>4

LEMMA JoinAcknowledgedKeepsWidget ==
  ASSUME TypeInv, NEW w \in Walkers, JoinAcknowledged(w)
  PROVE  WidgetOK'
<1>1. WidgetOK
  BY DEF TypeInv
<1>2. /\ UNCHANGED <<store, screen, composer, progress>> /\ Arrives("joined") /\ Taken
      /\ walk' \in [Walkers -> Walks]
      /\ \A u \in Walkers \ {w} : walk'[u] = walk[u]
      /\ \/ walk'[w] = walk[w]
         \/ /\ Walking(w, "joined") /\ walk'[w].pc = "page" /\ walk'[w].conv = walk[w].conv
            /\ walk'[w].got = walk[w].got /\ walk'[w].fresh = walk[w].fresh
  BY JoinAcknowledgedMoves
<1>3. /\ wire' \in Seq(Signals) /\ link = "up" /\ UNCHANGED <<link, room, drops>>
  BY <1>2, Arriving
<1>4. Typings'
  BY <1>1, <1>2, <1>3 DEF WidgetOK, Typings, screen, composer, progress
<1>5. PanelOK'
  BY <1>1, <1>2, <1>3 DEF WidgetOK, PanelOK, screen, composer, store, At, Walking, Stage
<1>6. LinkOK'
  BY <1>1, <1>2, <1>3 DEF WidgetOK, LinkOK, screen, composer, progress
<1>7. CallsOK' /\ Resolves'
  BY <1>1, <1>2, CallsFrame DEF composer
<1>8. Shows'
  BY <1>1, <1>2, ShowsFrame DEF store, data, screen
<1>9. \A u \in Walkers : WalkOK(u)'
  BY <1>1, <1>2, <1>3 DEF WidgetOK, WalkOK, StoredIds, store, data, Walking
<1>10. \A k \in SendSlots : StageOK(k)'
  BY <1>1, <1>2 DEF WidgetOK, StageOK, store, composer, At
<1>11. \A n \in DOMAIN wire' : SignalOK(n)'
  <2>1. \A j \in SendSlots : (\E n \in DOMAIN wire : n # 1 /\ wire[n].to = j) =>
            call'[j].pc = "idle" /\ submission'[j].pc # "rejoin"
    BY <1>1, <1>2 DEF WidgetOK, SignalOK, store, composer, At
  <2>2. messages \subseteq messages'
    BY <1>2 DEF store, data
  <2>3. QED
    BY <1>2, <2>1, <2>2, TakenKeepsSignals
<1>12. QED
  BY <1>4, <1>5, <1>6, <1>7, <1>8, <1>9, <1>10, <1>11 DEF WidgetOK

\* What a submission does next: its stage changes, and a call begins in its slot.
LEMMA StageMoves ==
  ASSUME WidgetOK, NEW k \in SendSlots, NEW pc \in Stages,
         submission' = [submission EXCEPT ![k].pc = pc]
  PROVE  /\ submission' \in [SendSlots -> Submissions] /\ submission'[k].pc = pc
         /\ submission'[k].conv = submission[k].conv /\ submission'[k].live = submission[k].live
         /\ submission'[k].text = submission[k].text /\ submission'[k].own = submission[k].own
         /\ \A j \in SendSlots \ {k} : submission'[j] = submission[j]
<1> DEFINE v == [submission[k] EXCEPT !.pc = pc]
<1>1. submission[k] \in Submissions /\ submission \in [SendSlots -> Submissions]
  BY DEF WidgetOK, Typings
<1>2. /\ v \in Submissions /\ v.pc = pc /\ v.conv = submission[k].conv
      /\ v.live = submission[k].live /\ v.text = submission[k].text
      /\ v.own = submission[k].own
  BY <1>1 DEF Submissions
<1>3. submission' = [submission EXCEPT ![k] = v]
  OBVIOUS
<1> HIDE DEF v
<1>4. QED
  BY <1>1, <1>2, <1>3

\* A submission that was told goes on: it resolves, or sends once more.
LEMMA GoingOnKeepsWidget ==
  ASSUME TypeInv, NEW k \in SendSlots, NEW kind, Arrives(kind), Taken, Head(wire).to = k,
         UNCHANGED <<data, screen, walk, progress, input, typed, details>>,
         submission' \in [SendSlots -> Submissions],
         submission'[k].conv = submission[k].conv, submission'[k].live = submission[k].live,
         submission'[k].text = submission[k].text,
         \A j \in SendSlots \ {k} : submission'[j] = submission[j],
         \A j \in Calls \ {k} : call'[j] = call[j],
         ~Stage(k, "none"), ~Stage(k, "resolve"),
         \/ /\ submission'[k].pc = "resolve" /\ call'[k].pc = "find"
            /\ call'[k].http = TRUE /\ call'[k].arg = "resolve"
         \/ submission'[k].pc = "resend" /\ call'[k].pc = "check" /\ call'[k].http = FALSE
  PROVE  WidgetOK'
<1>1. WidgetOK /\ WidgetAssumption /\ k \in Calls /\ k # BootSlot
  BY WidgetAssumption DEF TypeInv, WidgetAssumption
<1>2. /\ wire' \in Seq(Signals) /\ link = "up" /\ UNCHANGED <<link, room, drops>>
  BY Arriving
<1>3. /\ At(k, "idle") /\ ~call[k].http
      /\ \A i \in DOMAIN wire : i # 1 => wire[i].to # k
  BY ArrivesFor
<1>4. submission[k].text \in Texts /\ submission[k].conv \in Convs /\ panel = "ready"
  BY <1>1 DEF WidgetOK, StageOK, PanelOK, Stage
<1>5. Typings'
  BY <1>1, <1>2 DEF WidgetOK, Typings, screen, progress
<1>6. PanelOK'
  BY <1>1, <1>2, <1>4 DEF WidgetOK, PanelOK, screen, At, Walking, Stage, WidgetAssumption
<1>7. LinkOK'
  BY <1>1, <1>2 DEF WidgetOK, LinkOK, screen, progress
<1>8. CallsOK'
  BY <1>1 DEF WidgetOK, CallsOK, At, Stage, Resolving
<1>9. Resolves'
  BY <1>1 DEF WidgetOK, Resolves, data, At, Open
<1>10. Shows'
  BY <1>1, ShowsFrame DEF data, screen
<1>11. \A w \in Walkers : WalkOK(w)'
  BY <1>1, <1>2, WalksFrame DEF data
<1>12. \A j \in SendSlots : StageOK(j)'
  BY <1>1, <1>4 DEF WidgetOK, StageOK, At, WidgetAssumption
<1>13. \A n \in DOMAIN wire' : SignalOK(n)'
  <2>1. \A j \in SendSlots : (\E n \in DOMAIN wire : n # 1 /\ wire[n].to = j) =>
            call'[j].pc = "idle" /\ submission'[j].pc # "rejoin"
    BY <1>3, OthersStayQuiet
  <2>2. messages \subseteq messages'
    BY DEF data
  <2>3. QED
    BY <2>1, <2>2, TakenKeepsSignals
<1>14. QED
  BY <1>5, <1>6, <1>7, <1>8, <1>9, <1>10, <1>11, <1>12, <1>13 DEF WidgetOK

\* A submission that was told ends, or nobody was listening any more.
LEMMA EndingKeepsWidget ==
  ASSUME TypeInv, NEW k \in SendSlots, NEW kind, Arrives(kind), Taken, Head(wire).to = k,
         UNCHANGED <<store, panel, thread, walk, typed, details>>,
         Shows', UNCHANGED caughtUp,
         \/ UNCHANGED <<submission, input>>
         \/ /\ submission' \in [SendSlots -> Submissions] /\ submission'[k] = NoSubmission
            /\ \A j \in SendSlots \ {k} : submission'[j] = submission[j]
            /\ input' \in Texts \cup {NoText} /\ panel = "ready"
  PROVE  WidgetOK'
<1>1. WidgetOK /\ WidgetAssumption /\ k \in Calls
  BY WidgetAssumption DEF TypeInv, WidgetAssumption
<1>2. /\ wire' \in Seq(Signals) /\ link = "up" /\ UNCHANGED <<link, room, drops>>
  BY Arriving
<1>3. /\ At(k, "idle") /\ ~call[k].http
      /\ \A i \in DOMAIN wire : i # 1 => wire[i].to # k
  BY ArrivesFor
<1>4. Typings'
  BY <1>1, <1>2 DEF WidgetOK, Typings
<1>5. PanelOK'
  BY <1>1, <1>2, NoSubmissionTyped DEF WidgetOK, PanelOK, store, At, Walking, Stage
<1>6. LinkOK'
  BY <1>1, <1>2, NoSubmissionTyped DEF WidgetOK, LinkOK
<1>7. CallsOK' /\ Resolves' /\ \A j \in SendSlots : StageOK(j)'
  <2>1. CASE UNCHANGED submission
    <3>1. CallsOK' /\ Resolves'
      BY <1>1, <2>1, CallsFrame
    <3>2. \A j \in SendSlots : StageOK(j)'
      BY <1>1, <2>1 DEF WidgetOK, StageOK, store, At
    <3>3. QED
      BY <3>1, <3>2
  <2>2. CASE submission'[k] = NoSubmission /\ submission' \in [SendSlots -> Submissions]
             /\ \A j \in SendSlots \ {k} : submission'[j] = submission[j]
    <3>1. UNCHANGED data /\ call' = call
      BY DEF store
    <3>2. QED
      BY <1>3, <2>2, <3>1, FinishedSlots
  <2>3. QED
    BY <2>1, <2>2
<1>8. \A w \in Walkers : WalkOK(w)'
  BY <1>1, <1>2, WalksFrame DEF store, data
<1>9. \A n \in DOMAIN wire' : SignalOK(n)'
  <2>1. \A j \in SendSlots : (\E n \in DOMAIN wire : n # 1 /\ wire[n].to = j) =>
            call'[j].pc = "idle" /\ submission'[j].pc # "rejoin"
    <3>1. \A j \in SendSlots \ {k} : submission'[j] = submission[j]
      OBVIOUS
    <3>2. \A j \in Calls \ {k} : call'[j] = call[j]
      BY DEF store
    <3>3. QED
      BY <1>3, <3>1, <3>2, OthersStayQuiet
  <2>2. messages \subseteq messages'
    BY DEF store, data
  <2>3. QED
    BY <2>1, <2>2, TakenKeepsSignals
<1>10. QED
  BY <1>4, <1>5, <1>6, <1>7, <1>8, <1>9 DEF WidgetOK

LEMMA RejoinAcknowledgedKeepsWidget ==
  ASSUME TypeInv, NEW k \in SendSlots, RejoinAcknowledged(k)
  PROVE  WidgetOK'
<1>1. WidgetOK /\ StoreInv /\ k \in Calls
  BY WidgetAssumption DEF TypeInv, WidgetAssumption
<1>2. /\ UNCHANGED <<data, screen, walk, progress, input, locked, typed, unanswered,
                     displaced, details>>
      /\ Arrives("joined") /\ Taken /\ Head(wire).to = k
  BY DEF RejoinAcknowledged
<1>3. CASE Stage(k, "rejoined")
  <2>1. /\ Begin(k, "check", Visitor, submission[k].conv, submission[k].text, FALSE)
        /\ submission' = [submission EXCEPT ![k].pc = "resend"]
    BY <1>3 DEF RejoinAcknowledged
  <2>2. /\ call'[k].pc = "check" /\ call'[k].http = FALSE
        /\ \A j \in Calls \ {k} : call'[j] = call[j]
    BY <1>1, <2>1 DEF Begin, Begun, StoreInv, Typed
  <2>3. /\ submission' \in [SendSlots -> Submissions] /\ submission'[k].pc = "resend"
        /\ submission'[k].conv = submission[k].conv /\ submission'[k].live = submission[k].live
        /\ submission'[k].text = submission[k].text
        /\ \A j \in SendSlots \ {k} : submission'[j] = submission[j]
    BY <1>1, <2>1, StageMoves DEF Stages
  <2>4. ~Stage(k, "none") /\ ~Stage(k, "resolve")
    BY <1>3 DEF Stage
  <2>5. QED
    BY <1>2, <2>2, <2>3, <2>4, GoingOnKeepsWidget
<1>4. CASE ~Stage(k, "rejoined")
  <2>1. UNCHANGED <<call, submission>>
    BY <1>4 DEF RejoinAcknowledged
  <2>2. Shows' /\ UNCHANGED caughtUp /\ UNCHANGED <<store, panel, thread, walk, typed, details>>
    BY <1>1, <1>2, <2>1, ShowsFrame DEF data, screen, progress, store
  <2>3. QED
    BY <1>2, <2>1, <2>2, EndingKeepsWidget
<1>5. QED
  BY <1>3, <1>4

LEMMA SendAcknowledgedKeepsWidget ==
  ASSUME TypeInv, NEW k \in SendSlots, SendAcknowledged(k)
  PROVE  WidgetOK'
<1>1. WidgetOK
  BY DEF TypeInv
<1>2. /\ UNCHANGED <<store, panel, thread, walk>>
      /\ Arrives("ack") /\ Taken /\ Head(wire).to = k
  BY DEF SendAcknowledged
<1>3. CASE Stage(k, "none")
  <2>1. UNCHANGED <<shown, composer, progress>>
    BY <1>3 DEF SendAcknowledged
  <2>2. Shows' /\ UNCHANGED caughtUp /\ UNCHANGED <<submission, input, typed, details>>
    BY <1>1, <1>2, <2>1, ShowsFrame DEF data, store, progress, composer
  <2>3. QED
    BY <1>2, <2>2, EndingKeepsWidget
<1>4. CASE ~Stage(k, "none")
  <2> PICK i : i = Head(wire).id
    OBVIOUS
  <2>1. ShowLive(i) /\ Finish(k) /\ UNCHANGED <<input, typed, unanswered, displaced, details>>
    BY <1>4 DEF SendAcknowledged, Sent
  <2>2. i \in StoredIds
    BY <1>2, Arriving DEF SignalOK
  <2>3. Shows' /\ UNCHANGED caughtUp
    BY <1>2, <2>1, <2>2, ShowLiveMoves DEF store, data
  <2>4. /\ submission' \in [SendSlots -> Submissions] /\ submission'[k] = NoSubmission
        /\ \A j \in SendSlots \ {k} : submission'[j] = submission[j]
    BY <2>1, FinishMoves
  <2>5. input \in Texts \cup {NoText} /\ panel = "ready"
    BY <1>1, <1>4 DEF WidgetOK, Typings, PanelOK
  <2>6. QED
    BY <1>2, <2>1, <2>3, <2>4, <2>5, EndingKeepsWidget
<1>5. QED
  BY <1>3, <1>4

LEMMA ClosedAnswerKeepsWidget ==
  ASSUME TypeInv, NEW k \in SendSlots, ClosedAnswer(k)
  PROVE  WidgetOK'
<1>1. WidgetOK /\ StoreInv /\ k \in Calls
  BY WidgetAssumption DEF TypeInv, WidgetAssumption
<1>2. /\ UNCHANGED <<data, screen, walk, progress, unanswered>>
      /\ Arrives("closed") /\ Taken /\ Head(wire).to = k
  BY DEF ClosedAnswer
<1>3. Shows' /\ UNCHANGED caughtUp /\ UNCHANGED <<panel, thread, walk>>
  BY <1>1, <1>2, ShowsFrame DEF data, screen, progress
<1>4. CASE Stage(k, "send")
  <2>1. /\ Begin(k, "find", Visitor, NoConv, "resolve", TRUE)
        /\ submission' = [submission EXCEPT ![k].pc = "resolve"]
        /\ UNCHANGED <<input, locked, typed, displaced, details>>
    BY <1>4 DEF ClosedAnswer, Stage
  <2>2. /\ call'[k].pc = "find" /\ call'[k].http = TRUE /\ call'[k].arg = "resolve"
        /\ \A j \in Calls \ {k} : call'[j] = call[j]
    BY <1>1, <2>1 DEF Begin, Begun, StoreInv, Typed
  <2>3. /\ submission' \in [SendSlots -> Submissions] /\ submission'[k].pc = "resolve"
        /\ submission'[k].conv = submission[k].conv /\ submission'[k].live = submission[k].live
        /\ submission'[k].text = submission[k].text
        /\ \A j \in SendSlots \ {k} : submission'[j] = submission[j]
    BY <1>1, <2>1, StageMoves DEF Stages
  <2>4. ~Stage(k, "none") /\ ~Stage(k, "resolve")
    BY <1>4 DEF Stage
  <2>5. QED
    BY <1>2, <2>1, <2>2, <2>3, <2>4, GoingOnKeepsWidget
<1>5. CASE Stage(k, "resend")
  <2>1. Restore(k) /\ UNCHANGED call /\ ~Stage(k, "none")
    BY <1>5 DEF ClosedAnswer, Stage
  <2>2. /\ submission' \in [SendSlots -> Submissions] /\ submission'[k] = NoSubmission
        /\ \A j \in SendSlots \ {k} : submission'[j] = submission[j]
        /\ input' \in Texts \cup {NoText} /\ UNCHANGED <<typed, details>> /\ panel = "ready"
    BY <2>1, RestoreMoves
  <2>3. UNCHANGED <<store, panel, thread, walk, typed, details>>
    BY <1>2, <1>3, <2>1, <2>2 DEF store
  <2>4. QED
    BY <1>2, <1>3, <2>2, <2>3, EndingKeepsWidget
<1>6. CASE ~Stage(k, "send") /\ ~Stage(k, "resend")
  <2>1. UNCHANGED <<call, composer>>
    BY <1>6 DEF ClosedAnswer
  <2>2. UNCHANGED <<store, panel, thread, walk, typed, details>> /\ UNCHANGED <<submission, input>>
    BY <1>2, <1>3, <2>1 DEF store, composer
  <2>3. QED
    BY <1>2, <1>3, <2>2, EndingKeepsWidget
<1>7. QED
  BY <1>4, <1>5, <1>6

LEMMA RefusedAnswerKeepsWidget ==
  ASSUME TypeInv, NEW k \in SendSlots, RefusedAnswer(k)
  PROVE  WidgetOK'
<1>1. WidgetOK
  BY DEF TypeInv
<1>2. /\ UNCHANGED <<store, screen, walk, progress>>
      /\ Arrives("refused") /\ Taken /\ Head(wire).to = k
  BY DEF RefusedAnswer
<1>3. Shows' /\ UNCHANGED caughtUp /\ UNCHANGED <<panel, thread, walk>>
  BY <1>1, <1>2, ShowsFrame DEF store, data, screen, progress
<1>4. CASE Stage(k, "none")
  <2>1. UNCHANGED <<submission, input, typed, details>>
    BY <1>4 DEF RefusedAnswer, composer
  <2>2. QED
    BY <1>2, <1>3, <2>1, EndingKeepsWidget
<1>5. CASE ~Stage(k, "none")
  <2>1. Restore(k)
    BY <1>5 DEF RefusedAnswer
  <2>2. /\ submission' \in [SendSlots -> Submissions] /\ submission'[k] = NoSubmission
        /\ \A j \in SendSlots \ {k} : submission'[j] = submission[j]
        /\ input' \in Texts \cup {NoText} /\ UNCHANGED <<typed, details>> /\ panel = "ready"
    BY <1>5, <2>1, RestoreMoves
  <2>3. QED
    BY <1>2, <1>3, <2>2, EndingKeepsWidget
<1>6. QED
  BY <1>4, <1>5

----------------------------------------------------------------------------
(* The server.                                                             *)

\* How an operation moves its call.
Served(k) ==
  /\ \A j \in Calls \ {k} : call'[j] = call[j]
  /\ call[k].pc \notin {"idle", "answered"}
  /\ call'[k].http <=> call[k].http
  /\ call'[k].http <=> call'[k].pc \in Resolving \cup {"answered"}
  /\ call'[k].pc = "answered" => call'[k].answer \in 0..MaxConvs
  /\ call'[k].http => call'[k].arg = call[k].arg /\ call'[k].since = call[k].since
                      /\ call'[k].customer = call[k].customer

LEMMA EndsServes ==
  ASSUME StoreInv, CallsOK, NEW k \in Calls, NEW answer \in Nat, Ends(k, answer),
         call[k].pc \notin {"idle", "answered"}, call[k].http => answer \in 0..MaxConvs
  PROVE  Served(k) /\ (call'[k].pc = "answered" => call[k].http /\ call'[k].answer = answer)
         /\ call'[k].pc \in {"idle", "answered"}
<1>1. Typed
  BY DEF StoreInv
<1>2. /\ call[k].http =>
           /\ call'[k].pc = "answered" /\ call'[k].answer = answer
           /\ call'[k].arg = call[k].arg /\ call'[k].since = call[k].since
           /\ call'[k].http
      /\ ~call[k].http => call'[k] = Idle
      /\ \A j \in Calls \ {k} : call'[j] = call[j]
  BY <1>1, EndsMoves
<1>3. call[k].http => call'[k].customer = call[k].customer
  BY <1>1 DEF Ends, Typed, CallRecords
<1>4. call[k].http \in BOOLEAN
  BY <1>1 DEF Typed, CallRecords
<1>5. CASE call[k].http
  BY <1>2, <1>3, <1>5 DEF Served
<1>6. CASE ~call[k].http
  BY <1>2, <1>6, IdleCall DEF Served, Resolving
<1>7. QED
  BY <1>4, <1>5, <1>6

LEMMA GoesServes ==
  ASSUME StoreInv, CallsOK, NEW k \in Calls, NEW pc \in Pcs, Goes(k, pc),
         call[k].pc \notin {"idle", "answered"}, pc # "answered",
         pc \in Resolving <=> call[k].pc \in Resolving
  PROVE  Served(k) /\ call'[k].pc = pc
<1>1. Typed
  BY DEF StoreInv
<1>2. /\ call'[k].pc = pc /\ call'[k].customer = call[k].customer
      /\ call'[k].arg = call[k].arg /\ call'[k].since = call[k].since
      /\ call'[k].http = call[k].http
      /\ \A j \in Calls \ {k} : call'[j] = call[j]
  BY <1>1, GoesMoves
<1>3. call[k].http <=> call[k].pc \in Resolving \cup {"answered"}
  BY DEF CallsOK
<1>4. QED
  BY <1>2, <1>3 DEF Served

\* A conversation that was open is still, unless a status was written.
OpenKept ==
  \/ changes' = changes /\ \A c \in Convs : Open(c) => Open(c)' /\ conv'[c].customer = conv[c].customer
  \/ changes' = changes + 1

LEMMA OperationKeepsOpen ==
  ASSUME StoreInv, NEW k \in Calls, Operation(k)
  PROVE  OpenKept
<1>1. Typed
  BY DEF StoreInv
<1>2. CASE UNCHANGED <<conv, changes>>
  BY <1>2 DEF OpenKept, Open
<1>3. CASE Create(k) /\ UniqueOpenAdmits(call[k].customer)
  <2>1. /\ ~Exists(NextConv) /\ \A c \in Convs \ {NextConv} : conv'[c] = conv[c]
        /\ changes' = changes
    BY <1>1, <1>3, CreateWrites
  <2>2. QED
    BY <2>1 DEF OpenKept, Open, Exists
<1>4. CASE Touch(k)
  <2>1. call[k].conv \in Convs /\ call[k].id \in 0..MaxMessages /\ changes' = changes
    BY <1>1, <1>4 DEF Touch, At, Typed, CallOK, CallRecords
  <2>2. QED
    BY <1>1, <1>4, <2>1, TouchWrites DEF Touch, OpenKept, Open
<1>5. CASE SetStatus(k) \/ SetStatusReplyLost(k)
  <2>1. CASE WriteStatusOf(k)
    BY <2>1, <1>1 DEF WriteStatusOf, OpenKept, Typed
  <2>2. CASE ~WriteStatusOf(k)
    BY <1>2, <1>5, <2>2 DEF SetStatus, SetStatusReplyLost
  <2>3. QED
    BY <2>1, <2>2
<1>6. QED
  BY <1>2, <1>3, <1>4, <1>5
     DEF Operation, Find, Create, FindAgain, RefuseSend, AdmitSend, Insert, InsertFails,
         InsertReplyLost, TouchFails, Publish, AnnounceStatus, data

\* What an operation leaves to tell.
Told(k) ==
  /\ call'[k].pc = "findAgain" =>
       \E c \in Convs : Open(c) /\ conv[c].customer = call[k].customer /\ UNCHANGED conv
  /\ call'[k].pc = "answered" /\ call'[k].answer = Failed =>
       At(k, "findAgain") /\ OpenOf(call[k].customer) = {} /\ UNCHANGED changes

LEMMA OperationServes ==
  ASSUME StoreInv, CallsOK, NEW k \in Calls, Operation(k)
  PROVE  Served(k) /\ Told(k)
<1>1. Typed /\ call[k] \in CallRecords
  BY DEF StoreInv, Typed
<1>2. call[k].http <=> call[k].pc \in Resolving \cup {"answered"}
  BY DEF CallsOK
<1>3. \A u : \A c \in OpenOf(u) : c \in Nat /\ c \in 0..MaxConvs /\ c # Failed
  BY ConversationsAssumption DEF OpenOf, Convs, Failed
<1>4. CASE Find(k)
  <2>1. CASE OpenOf(call[k].customer) = {}
    <3>1. Goes(k, "create") /\ At(k, "find") /\ "create" \in Pcs
      BY <1>4, <2>1 DEF Find, Pcs
    <3>2. Served(k) /\ call'[k].pc = "create"
      BY <3>1, GoesServes DEF At, Resolving
    <3>3. QED
      BY <3>2 DEF Told
  <2>2. CASE OpenOf(call[k].customer) # {}
    <3>1. PICK c \in OpenOf(call[k].customer) : Ends(k, c)
      BY <1>4, <2>2 DEF Find
    <3>2. /\ Served(k) /\ call'[k].pc \in {"idle", "answered"}
          /\ call'[k].pc = "answered" => call'[k].answer = c
      BY <1>3, <1>4, <3>1, EndsServes DEF Find, At
    <3>3. QED
      BY <1>3, <3>1, <3>2 DEF Told
  <2>3. QED
    BY <2>1, <2>2
<1>5. CASE FindAgain(k)
  <2>1. CASE OpenOf(call[k].customer) = {}
    <3>1. Ends(k, Failed) /\ At(k, "findAgain") /\ Failed \in Nat /\ Failed \in 0..MaxConvs
          /\ UNCHANGED changes
      BY <1>5, <2>1, ConversationsAssumption DEF FindAgain, Failed, data
    <3>2. Served(k) /\ call'[k].pc \in {"idle", "answered"}
      BY <3>1, EndsServes DEF At
    <3>3. QED
      BY <2>1, <3>1, <3>2 DEF Told
  <2>2. CASE OpenOf(call[k].customer) # {}
    <3>1. PICK c \in OpenOf(call[k].customer) : Ends(k, c)
      BY <1>5, <2>2 DEF FindAgain
    <3>2. /\ Served(k) /\ call'[k].pc \in {"idle", "answered"}
          /\ call'[k].pc = "answered" => call'[k].answer = c
      BY <1>3, <1>5, <3>1, EndsServes DEF FindAgain, At
    <3>3. QED
      BY <1>3, <3>1, <3>2 DEF Told
  <2>3. QED
    BY <2>1, <2>2
<1>6. CASE Create(k)
  <2>1. CASE UniqueOpenAdmits(call[k].customer)
    <3>1. NextConv \in Convs /\ Ends(k, NextConv)
      BY <1>1, <1>6, <2>1, CreateWrites
    <3> PICK c \in Convs : c = NextConv
      BY <3>1
    <3>2. c \in Nat /\ c \in 0..MaxConvs /\ c # Failed /\ Ends(k, c)
      BY <3>1, ConversationsAssumption DEF Convs, Failed
    <3>3. /\ Served(k) /\ call'[k].pc \in {"idle", "answered"}
          /\ call'[k].pc = "answered" => call'[k].answer = c
      BY <1>6, <3>2, EndsServes DEF Create, At
    <3>4. QED
      BY <3>2, <3>3 DEF Told
  <2>2. CASE ~UniqueOpenAdmits(call[k].customer)
    <3>1. Goes(k, "findAgain") /\ At(k, "create") /\ "findAgain" \in Pcs /\ UNCHANGED conv
      BY <1>6, <2>2 DEF Create, Pcs
    <3>2. Served(k) /\ call'[k].pc = "findAgain"
      BY <3>1, GoesServes DEF At, Resolving
    <3>3. \E c \in Convs : Open(c) /\ conv[c].customer = call[k].customer
      BY <2>2 DEF UniqueOpenAdmits, OpenOf
    <3>4. QED
      BY <3>1, <3>2, <3>3 DEF Told
  <2>3. QED
    BY <2>1, <2>2
<1>7. ASSUME NEW pc \in {"touch", "publish", "announce"}, Goes(k, pc),
             call[k].pc \in {"insert", "touch", "setStatus"}
      PROVE  Served(k) /\ Told(k)
  <2>1. Served(k) /\ call'[k].pc = pc
    BY <1>7, GoesServes DEF Pcs, Resolving
  <2>2. QED
    BY <2>1 DEF Told
<1>8. ASSUME NEW answer \in Nat, Ends(k, answer),
             call[k].pc \in {"check", "insert", "publish", "setStatus", "announce"}
      PROVE  Served(k) /\ Told(k)
  <2>1. ~call[k].http
    BY <1>2, <1>8 DEF Resolving
  <2>2. Served(k) /\ call'[k].pc = "idle"
    BY <1>8, <2>1, EndsServes
  <2>3. QED
    BY <2>2 DEF Told
<1>9. CASE AdmitSend(k)
  <2>1. /\ call'[k].pc = "insert" /\ call'[k].http = call[k].http
        /\ \A j \in Calls \ {k} : call'[j] = call[j]
    BY <1>1, <1>9, AdmitMoves
  <2>2. At(k, "check") /\ ~call[k].http
    BY <1>2, <1>9 DEF AdmitSend, At, Resolving
  <2>3. QED
    BY <2>1, <2>2 DEF Served, Told, At, Resolving
<1>10. CASE RefuseSend(k) \/ InsertFails(k) \/ InsertReplyLost(k)
  BY <1>8, <1>10 DEF RefuseSend, InsertFails, InsertReplyLost, At, Failed
<1>11. CASE Insert(k) \/ Touch(k) \/ TouchFails(k)
  BY <1>7, <1>11 DEF Insert, Touch, TouchFails, At
<1>12. CASE Publish(k) \/ AnnounceStatus(k)
  <2>1. call[k].id \in Nat /\ call[k].conv \in Nat
    BY <1>1 DEF CallRecords
  <2>2. QED
    BY <1>8, <1>12, <2>1 DEF Publish, AnnounceStatus, At
<1>13. CASE SetStatus(k) \/ SetStatusReplyLost(k)
  BY <1>7, <1>8, <1>13 DEF SetStatus, SetStatusReplyLost, At, Failed
<1>14. QED
  BY <1>4, <1>5, <1>6, <1>9, <1>10, <1>11, <1>12, <1>13 DEF Operation

\* What a resolution that lost the race will find.
LEMMA OperationKeepsResolves ==
  ASSUME StoreInv, WidgetOK, NEW k \in Calls, Operation(k)
  PROVE  Resolves'
<1>1. CallsOK /\ Resolves /\ Typed
  BY DEF WidgetOK, StoreInv
<1>2. Served(k) /\ Told(k) /\ OpenKept
  BY <1>1, OperationServes, OperationKeepsOpen
<1>3. /\ changes \in Nat /\ changes' \in Nat /\ changes' >= changes
      /\ \A j \in Calls : /\ call[j].since \in Nat
                          /\ call[j].pc \in Resolving => call[j].since <= changes
  BY <1>1, <1>2 DEF Typed, OpenKept, CallRecords, CallOK
<1>4. ASSUME NEW j \in Calls, call'[j].pc = "findAgain"
      PROVE  \/ \E c \in Convs : Open(c)' /\ conv'[c].customer = call'[j].customer
             \/ changes' > call'[j].since
  <2>1. CASE j = k
    BY <1>2, <1>4, <2>1 DEF Told, Served, Open, Resolving
  <2>2. CASE j # k
    <3>1. call'[j] = call[j] /\ At(j, "findAgain")
      BY <1>2, <1>4, <2>2 DEF Served, At
    <3>2. call[j].since <= changes
      BY <1>3, <3>1 DEF At, Resolving
    <3>3. \/ \E c \in Convs : Open(c) /\ conv[c].customer = call[j].customer
          \/ changes > call[j].since
      BY <1>1, <3>1 DEF Resolves
    <3>4. QED
      BY <1>2, <1>3, <3>1, <3>2, <3>3 DEF OpenKept
  <2>3. QED
    BY <2>1, <2>2
<1>5. ASSUME NEW j \in Calls, call'[j].pc = "answered", call'[j].arg = "resolve",
             call'[j].answer = Failed
      PROVE  changes' > call'[j].since
  <2>1. CASE j = k
    <3>1. At(k, "findAgain") /\ OpenOf(call[k].customer) = {} /\ UNCHANGED changes
          /\ call'[k].since = call[k].since
      BY <1>2, <1>5, <2>1 DEF Told, Served
    <3>2. changes > call[k].since
      BY <1>1, <3>1 DEF Resolves, OpenOf
    <3>3. QED
      BY <2>1, <3>1, <3>2
  <2>2. CASE j # k
    <3>1. call'[j] = call[j]
      BY <1>2, <2>2 DEF Served
    <3>2. changes > call[j].since
      BY <1>1, <1>5, <3>1 DEF Resolves, At
    <3>3. QED
      BY <1>3, <3>1, <3>2
  <2>3. QED
    BY <2>1, <2>2
<1>6. QED
  BY <1>4, <1>5 DEF Resolves, At

\* An operation leaves the widget as it is, but for what it sends.
LEMMA OperationKeepsWidget ==
  ASSUME TypeInv, NEW k \in Calls, Operation(k),
         UNCHANGED <<screen, link, room, drops, composer, walk, progress>>,
         wire' \in Seq(Signals), link # "up" => wire' = <<>>,
         \A i \in DOMAIN wire' : SignalOK(i)'
  PROVE  WidgetOK'
<1>1. WidgetOK /\ WidgetAssumption /\ StoreInv /\ CallsOK
  BY WidgetAssumption DEF TypeInv, WidgetOK
<1>2. Served(k) /\ messages \subseteq messages'
  BY <1>1, OperationServes, OperationGrows
<1>3. Typings'
  BY <1>1 DEF WidgetOK, Typings, screen, composer, progress
<1>4. PanelOK'
  BY <1>1, <1>2 DEF WidgetOK, PanelOK, screen, composer, Served, At, Walking, Stage, WidgetAssumption
<1>5. LinkOK'
  BY <1>1 DEF WidgetOK, LinkOK, screen, composer, progress
<1>6. CallsOK'
  BY <1>1, <1>2 DEF WidgetOK, CallsOK, composer, Served, At, Stage, Resolving
<1>7. Resolves'
  BY <1>1, OperationKeepsResolves
<1>8. Shows'
  BY <1>1, <1>2, ShowsFrame DEF screen
<1>9. \A w \in Walkers : WalkOK(w)'
  BY <1>1, <1>2, WalksFrame
<1>10. \A j \in SendSlots : StageOK(j)'
  BY <1>1, <1>2 DEF WidgetOK, StageOK, composer, Served, At, WidgetAssumption
<1>11. QED
  BY <1>3, <1>4, <1>5, <1>6, <1>7, <1>8, <1>9, <1>10 DEF WidgetOK

\* Nothing is on its way to a slot whose call is at work.
LEMMA OperationKeepsSignals ==
  ASSUME TypeInv, NEW k \in Calls, Operation(k), UNCHANGED composer,
         DOMAIN wire \subseteq DOMAIN wire', \A i \in DOMAIN wire : wire'[i] = wire[i],
         \A n \in DOMAIN wire' \ DOMAIN wire :
           /\ wire'[n].kind = "message" => wire'[n].to = "room"
           /\ wire'[n].kind \in {"ack", "closed", "refused"} => wire'[n].to \in SendSlots
           /\ wire'[n].kind \in {"message", "ack"} => wire'[n].id \in StoredIds
           /\ wire'[n].to \in SendSlots =>
                /\ wire'[n].to = k /\ call'[k].pc = "idle" /\ ~Stage(k, "rejoin")
                /\ \A j \in DOMAIN wire' \ DOMAIN wire : wire'[j].to = k => j = n
  PROVE  \A i \in DOMAIN wire' : SignalOK(i)'
<1>1. WidgetOK /\ WidgetAssumption /\ StoreInv /\ CallsOK
  BY WidgetAssumption DEF TypeInv, WidgetOK
<1>2. Served(k) /\ messages \subseteq messages'
  BY <1>1, OperationServes, OperationGrows
<1>3. StoredIds \subseteq StoredIds'
  BY <1>2 DEF StoredIds
<1>4. \A i \in DOMAIN wire : SignalOK(i)
  BY <1>1 DEF WidgetOK
<1>5. \A i \in DOMAIN wire : wire[i].to # k \/ k \notin SendSlots
  BY <1>2, <1>4 DEF SignalOK, Served, At
<1>6. ASSUME NEW i \in DOMAIN wire
      PROVE  SignalOK(i)'
  <2>1. wire'[i] = wire[i] /\ SignalOK(i)
    BY <1>4
  <2>2. ASSUME wire[i].to \in SendSlots
        PROVE  /\ call'[wire[i].to].pc = "idle" /\ submission'[wire[i].to].pc # "rejoin"
               /\ \A j \in DOMAIN wire' : wire'[j].to = wire[i].to => j = i
    <3>1. wire[i].to # k /\ At(wire[i].to, "idle") /\ submission[wire[i].to].pc # "rejoin"
          /\ \A j \in DOMAIN wire : wire[j].to = wire[i].to => j = i
      BY <1>5, <2>1, <2>2 DEF SignalOK
    <3>2. \A j \in DOMAIN wire' \ DOMAIN wire : wire'[j].to \in SendSlots => wire'[j].to = k
      OBVIOUS
    <3>3. wire[i].to \in Calls
      BY <1>1, <2>2 DEF WidgetAssumption
    <3>4. QED
      BY <1>2, <2>2, <3>1, <3>2, <3>3 DEF Served, At, composer
  <2>3. QED
    BY <1>3, <2>1, <2>2 DEF SignalOK, At
<1>7. ASSUME NEW n \in DOMAIN wire' \ DOMAIN wire
      PROVE  SignalOK(n)'
  <2>1. /\ wire'[n].kind = "message" => wire'[n].to = "room"
        /\ wire'[n].kind \in {"ack", "closed", "refused"} => wire'[n].to \in SendSlots
        /\ wire'[n].kind \in {"message", "ack"} => wire'[n].id \in StoredIds'
    BY <1>3
  <2>2. ASSUME wire'[n].to \in SendSlots
        PROVE  /\ call'[wire'[n].to].pc = "idle" /\ submission'[wire'[n].to].pc # "rejoin"
               /\ \A j \in DOMAIN wire' : wire'[j].to = wire'[n].to => j = n
    <3>1. wire'[n].to = k /\ call'[k].pc = "idle" /\ ~Stage(k, "rejoin")
          /\ \A j \in DOMAIN wire' \ DOMAIN wire : wire'[j].to = k => j = n
      BY <2>2
    <3>2. \A j \in DOMAIN wire : wire'[j].to # k
      BY <1>5, <2>2, <3>1
    <3>3. QED
      BY <3>1, <3>2 DEF Stage, composer
  <2>3. QED
    BY <2>1, <2>2 DEF SignalOK, At
<1>8. QED
  BY <1>6, <1>7

LEMMA ServerStepKeepsWidget ==
  ASSUME TypeInv, NEW k \in Calls, ServerStep(k)
  PROVE  WidgetOK'
<1>1. Operation(k) /\ UNCHANGED widget
  BY DEF ServerStep, SendStep, Operation
<1>2. UNCHANGED <<screen, link, room, wire, drops, composer, walk, progress>>
  BY <1>1 DEF widget, socket
<1>3. wire \in Seq(Signals) /\ (link # "up" => wire = <<>>)
  BY DEF TypeInv, WidgetOK, Typings, LinkOK
<1>4. \A i \in DOMAIN wire' : SignalOK(i)'
  <2>1. DOMAIN wire' = DOMAIN wire
    BY <1>2
  <2>2. QED
    BY <1>1, <1>2, <2>1, OperationKeepsSignals
<1>5. QED
  BY <1>1, <1>2, <1>3, <1>4, OperationKeepsWidget

\* What a connection carries after two more signals, or one, or none.
Carries2(s, a, b, x, y, t) ==
  /\ t \in Seq(Signals) /\ DOMAIN s \subseteq DOMAIN t
  /\ \A i \in DOMAIN s : i \in Nat /\ t[i] = s[i]
  /\ \A n \in DOMAIN t \ DOMAIN s :
       /\ n \in Nat /\ \A i \in DOMAIN s : i < n
       /\ \/ t[n] = a /\ x = <<a>> /\ n = Len(s) + 1
          \/ t[n] = b /\ y = <<b>> /\ n = Len(t)
  /\ x = <<a>> => Len(s) + 1 \in DOMAIN t \ DOMAIN s /\ t[Len(s) + 1] = a
  /\ x = <<a>> /\ y = <<b>> => Len(t) = Len(s) + 2
  /\ y = <<b>> => Len(t) \in DOMAIN t \ DOMAIN s /\ t[Len(t)] = b
  /\ Len(t) \in Nat /\ Len(s) \in Nat

LEMMA CarryingTwo ==
  ASSUME NEW s \in Seq(Signals), NEW a \in Signals, NEW b \in Signals,
         NEW x \in {<<>>, <<a>>}, NEW y \in {<<>>, <<b>>}
  PROVE  Carries2(s, a, b, x, y, s \o x \o y)
<1> DEFINE u == s \o x
           t == u \o y
<1>1. <<a>> # <<>> /\ <<b>> # <<>>
  OBVIOUS
<1>2. /\ u \in Seq(Signals) /\ Len(s) \in Nat /\ DOMAIN s = 1..Len(s)
      /\ x = <<>> => u = s
      /\ x = <<a>> => /\ Len(u) = Len(s) + 1 /\ u[Len(s) + 1] = a
                      /\ \A i \in 1..Len(s) : u[i] = s[i]
  <2>1. CASE x = <<>>
    <3>1. u = s
      BY <2>1
    <3>2. QED
      BY <1>1, <2>1, <3>1
  <2>2. CASE x = <<a>>
    <3>1. u = Append(s, a)
      BY <2>2
    <3>2. QED
      BY <1>1, <2>2, <3>1, Carrying
  <2>3. QED
    BY <2>1, <2>2
<1> HIDE DEF u
<1>3. /\ t \in Seq(Signals) /\ Len(u) \in Nat /\ DOMAIN u = 1..Len(u)
      /\ y = <<>> => t = u
      /\ y = <<b>> => /\ Len(t) = Len(u) + 1 /\ t[Len(u) + 1] = b
                      /\ \A i \in 1..Len(u) : t[i] = u[i]
  <2>1. CASE y = <<>>
    <3>1. t = u
      BY <1>2, <2>1
    <3>2. QED
      BY <1>1, <1>2, <2>1, <3>1
  <2>2. CASE y = <<b>>
    <3>1. t = Append(u, b)
      BY <1>2, <2>2
    <3>2. QED
      BY <1>1, <1>2, <2>2, <3>1, Carrying
  <2>3. QED
    BY <2>1, <2>2
<1> HIDE DEF t
<1>4. DOMAIN t = 1..Len(t) /\ Len(t) \in Nat
  BY <1>3
<1>5. Carries2(s, a, b, x, y, t)
  <2>1. CASE x = <<>> /\ y = <<>>
    BY <1>1, <1>2, <1>3, <1>4, <2>1 DEF Carries2
  <2>2. CASE x = <<>> /\ y = <<b>>
    BY <1>1, <1>2, <1>3, <1>4, <2>2 DEF Carries2
  <2>3. CASE x = <<a>> /\ y = <<>>
    BY <1>1, <1>2, <1>3, <1>4, <2>3 DEF Carries2
  <2>4. CASE x = <<a>> /\ y = <<b>>
    <3>1. /\ Len(u) = Len(s) + 1 /\ Len(t) = Len(s) + 2 /\ DOMAIN t = 1..(Len(s) + 2)
          /\ t[Len(s) + 1] = a /\ t[Len(s) + 2] = b
          /\ \A i \in 1..Len(s) : t[i] = s[i]
      BY <1>1, <1>2, <1>3, <1>4, <2>4
    <3>2. \A n \in DOMAIN t \ DOMAIN s : n = Len(s) + 1 \/ n = Len(s) + 2
      BY <1>2, <3>1
    <3>3. \A n \in DOMAIN t \ DOMAIN s :
            /\ n \in Nat /\ \A i \in DOMAIN s : i < n
            /\ \/ t[n] = a /\ x = <<a>> /\ n = Len(s) + 1
               \/ t[n] = b /\ y = <<b>> /\ n = Len(t)
      BY <1>2, <2>4, <3>1, <3>2
    <3>4. /\ DOMAIN s \subseteq DOMAIN t /\ Len(s) + 1 \in DOMAIN t \ DOMAIN s
          /\ Len(t) \in DOMAIN t \ DOMAIN s
      BY <1>2, <3>1
    <3>5. QED
      BY <1>2, <1>3, <1>4, <3>1, <3>3, <3>4 DEF Carries2
  <2>5. QED
    BY <2>1, <2>2, <2>3, <2>4
<1>6. QED
  BY <1>5 DEF t, u

\* Whom an answer reaches.
LEMMA AnswersOnly ==
  ASSUME TypeInv, NEW k, NEW kind \in {"ack", "closed", "refused"}, NEW id \in 0..MaxMessages
  PROVE  /\ Answering(k, kind, id) \in {<<>>, <<Signal(kind, k, id)>>}
         /\ Answering(k, kind, id) # <<>> =>
              /\ k \in SendSlots /\ submission[k].live /\ link = "up"
              /\ submission[k].pc \in {"send", "resend"}
<1>1. <<Signal(kind, k, id)>> # <<>>
  OBVIOUS
<1>2. QED
  BY <1>1 DEF Answering, TypeInv, WidgetOK, LinkOK

LEMMA AnswersKeepSignals ==
  ASSUME TypeInv, NEW k \in Calls, Operation(k), UNCHANGED <<link, composer>>,
         call'[k].pc = "idle" \/ k \notin SendSlots,
         NEW kind \in {"ack", "closed", "refused"}, NEW i \in 0..MaxMessages,
         kind = "ack" => i \in StoredIds,
         NEW heard \in BOOLEAN, heard => i \in StoredIds /\ link = "up",
         wire' = wire \o (IF heard THEN <<Signal("message", "room", i)>> ELSE <<>>)
                      \o Answering(k, kind, i)
  PROVE  /\ wire' \in Seq(Signals) /\ (link # "up" => wire' = <<>>)
         /\ \A n \in DOMAIN wire' : SignalOK(n)'
<1>1. wire \in Seq(Signals) /\ (link # "up" => wire = <<>>) /\ "room" \notin SendSlots
  BY WidgetAssumption DEF TypeInv, WidgetOK, Typings, LinkOK, WidgetAssumption
<1> DEFINE a == Signal("message", "room", i)
           x == IF heard THEN <<a>> ELSE <<>>
           y == Answering(k, kind, i)
<1>2. a \in Signals /\ a.kind = "message" /\ a.to = "room" /\ a.id = i
  BY DEF Signal, Signals
<1>3. CASE y = <<>>
  <2>1. x \in {<<>>, <<a>>} /\ y \in {<<>>, <<a>>} /\ wire' = wire \o x \o y /\ y # <<a>>
    BY <1>3
  <2> HIDE DEF a, x, y
  <2>2. /\ wire' \in Seq(Signals) /\ DOMAIN wire \subseteq DOMAIN wire'
        /\ \A n \in DOMAIN wire : wire'[n] = wire[n]
        /\ \A n \in DOMAIN wire' \ DOMAIN wire : wire'[n] = a /\ x = <<a>>
    <3>1. Carries2(wire, a, a, x, y, wire \o x \o y)
      BY <1>1, <1>2, <2>1, CarryingTwo
    <3>2. QED
      BY <2>1, <3>1 DEF Carries2
  <2>3. x = <<a>> => heard
    BY DEF x, a
  <2>4. \A n \in DOMAIN wire' : SignalOK(n)'
    <3>1. ASSUME NEW n \in DOMAIN wire' \ DOMAIN wire
          PROVE
           /\ wire'[n].kind = "message" => wire'[n].to = "room"
           /\ wire'[n].kind \in {"ack", "closed", "refused"} => wire'[n].to \in SendSlots
           /\ wire'[n].kind \in {"message", "ack"} => wire'[n].id \in StoredIds
           /\ wire'[n].to \notin SendSlots
      <4>1. wire'[n] = a /\ heard
        BY <2>2, <2>3
      <4>2. QED
        BY <1>1, <1>2, <4>1
    <3>2. QED
      BY <2>2, <3>1, OperationKeepsSignals
  <2>5. ~heard => wire' = wire
    BY <1>1, <1>3, <2>1 DEF x
  <2>6. QED
    BY <1>1, <2>2, <2>4, <2>5
<1>4. CASE y # <<>>
  <2> DEFINE b == Signal(kind, k, i)
  <2>1. /\ y = <<b>> /\ k \in SendSlots /\ link = "up"
        /\ submission[k].pc \in {"send", "resend"}
    BY <1>4, AnswersOnly
  <2>2. b \in Signals /\ b.kind = kind /\ b.to = k /\ b.id = i
    BY <2>1, SignalFields
  <2>3. x \in {<<>>, <<a>>} /\ y \in {<<>>, <<b>>} /\ wire' = wire \o x \o y
    BY <2>1
  <2>4. x = <<a>> => heard
    BY DEF x
  <2> HIDE DEF a, b, x, y
  <2>5. /\ wire' \in Seq(Signals) /\ DOMAIN wire \subseteq DOMAIN wire'
        /\ \A n \in DOMAIN wire : wire'[n] = wire[n]
        /\ \A n \in DOMAIN wire' \ DOMAIN wire : \/ wire'[n] = a /\ x = <<a>>
                                                 \/ wire'[n] = b /\ n = Len(wire')
    <3>1. Carries2(wire, a, b, x, y, wire \o x \o y)
      BY <1>1, <1>2, <2>2, <2>3, CarryingTwo
    <3>2. QED
      BY <2>3, <3>1 DEF Carries2
  <2>6. \A n \in DOMAIN wire' : SignalOK(n)'
    <3>1. ~Stage(k, "rejoin") /\ call'[k].pc = "idle"
      BY <2>1 DEF Stage
    <3>2. ASSUME NEW n \in DOMAIN wire' \ DOMAIN wire
          PROVE
           /\ wire'[n].kind = "message" => wire'[n].to = "room"
           /\ wire'[n].kind \in {"ack", "closed", "refused"} => wire'[n].to \in SendSlots
           /\ wire'[n].kind \in {"message", "ack"} => wire'[n].id \in StoredIds
           /\ wire'[n].to \in SendSlots =>
                /\ wire'[n].to = k /\ call'[k].pc = "idle" /\ ~Stage(k, "rejoin")
                /\ \A j \in DOMAIN wire' \ DOMAIN wire : wire'[j].to = k => j = n
      <4>1. CASE wire'[n] = a /\ x = <<a>>
        BY <1>1, <1>2, <2>4, <4>1
      <4>2. CASE wire'[n] = b /\ n = Len(wire')
        <5>1. \A j \in DOMAIN wire' \ DOMAIN wire : wire'[j].to = k => j = n
          BY <1>1, <1>2, <2>1, <2>5, <4>2
        <5>2. QED
          BY <1>1, <2>1, <2>2, <3>1, <4>2, <5>1
      <4>3. QED
        BY <2>5, <4>1, <4>2
    <3>3. QED
      BY <2>5, <3>2, OperationKeepsSignals
  <2>7. QED
    BY <2>1, <2>5, <2>6
<1>5. QED
  BY <1>3, <1>4

LEMMA PublishToRoomKeepsWidget ==
  ASSUME TypeInv, NEW k \in Calls, PublishToRoom(k)
  PROVE  WidgetOK'
<1>1. WidgetOK /\ WidgetAssumption /\ StoreInv /\ CallsOK /\ Typed
  BY WidgetAssumption DEF TypeInv, WidgetOK, StoreInv
<1>2. /\ Publish(k) /\ Operation(k) /\ At(k, "publish") /\ Ends(k, call[k].id)
      /\ UNCHANGED <<screen, link, room, drops, composer, walk, progress>>
      /\ wire' = wire
           \o (IF call[k].conv \in room THEN <<Signal("message", "room", call[k].id)>> ELSE <<>>)
           \o Answering(k, "ack", call[k].id)
  BY DEF PublishToRoom, Operation, Publish
<1>3. call[k].id \in 0..MaxMessages /\ call[k].id \in StoredIds /\ call[k].id \in Nat
  BY <1>1, <1>2 DEF Typed, CallRecords, TypeInv, DatesInv, Carried, Stored, At, StoredIds
<1>4. call'[k].pc = "idle"
  <2>1. ~call[k].http
    BY <1>1, <1>2 DEF CallsOK, At, Resolving
  <2>2. QED
    BY <1>1, <1>2, <1>3, <2>1, EndsMoves, IdleCall
<1>5. link # "up" => room = {}
  BY <1>1 DEF WidgetOK, LinkOK
<1> DEFINE heard == call[k].conv \in room
           i == call[k].id
<1>6. /\ heard \in BOOLEAN /\ (heard => i \in StoredIds /\ link = "up")
      /\ wire' = wire \o (IF heard THEN <<Signal("message", "room", i)>> ELSE <<>>)
                      \o Answering(k, "ack", i)
  BY <1>2, <1>3, <1>5
<1> HIDE DEF heard
<1>7. /\ wire' \in Seq(Signals) /\ (link # "up" => wire' = <<>>)
      /\ \A n \in DOMAIN wire' : SignalOK(n)'
  BY <1>2, <1>3, <1>4, <1>6, AnswersKeepSignals
<1>8. QED
  BY <1>2, <1>7, OperationKeepsWidget

LEMMA AnswerRefusalKeepsWidget ==
  ASSUME TypeInv, NEW k \in Calls, AnswerRefusal(k)
  PROVE  WidgetOK'
<1>1. WidgetOK /\ WidgetAssumption /\ StoreInv /\ CallsOK /\ Typed
  BY WidgetAssumption DEF TypeInv, WidgetOK, StoreInv
<1>2. PICK kind \in {"closed", "refused"} : wire' = wire \o Answering(k, kind, 0)
  BY DEF AnswerRefusal
<1>3. /\ Operation(k) /\ Ends(k, Failed) /\ call[k].pc \in {"check", "insert"}
      /\ UNCHANGED <<screen, link, room, drops, composer, walk, progress>>
  BY DEF AnswerRefusal, Operation, RefuseSend, InsertFails, InsertReplyLost, At
<1>4. call'[k].pc = "idle"
  <2>1. ~call[k].http
    BY <1>1, <1>3 DEF CallsOK, Resolving
  <2>2. QED
    BY <1>1, <1>3, <2>1, EndsMoves, IdleCall DEF Failed
<1>5. wire' = wire \o (IF FALSE THEN <<Signal("message", "room", 0)>> ELSE <<>>)
                   \o Answering(k, kind, 0)
  <2>1. wire \o <<>> = wire
    BY <1>1 DEF WidgetOK, Typings
  <2>2. QED
    BY <1>2, <2>1
<1>6. 0 \in 0..MaxMessages /\ FALSE \in BOOLEAN
  BY ConversationsAssumption
<1>7. /\ wire' \in Seq(Signals) /\ (link # "up" => wire' = <<>>)
      /\ \A n \in DOMAIN wire' : SignalOK(n)'
  BY <1>3, <1>4, <1>5, <1>6, AnswersKeepSignals
<1>8. QED
  BY <1>3, <1>7, OperationKeepsWidget

LEMMA StaffCallsKeepWidget ==
  ASSUME TypeInv, NEW k \in StaffSlots, StaffCalls(k), UNCHANGED widget
  PROVE  WidgetOK'
<1>1. WidgetOK /\ WidgetAssumption /\ StoreInv /\ k \in Calls /\ k \notin SendSlots
      /\ k # BootSlot
  BY WidgetAssumption DEF TypeInv, WidgetAssumption
<1>2. UNCHANGED <<screen, link, room, wire, drops, composer, walk, progress, data>>
  BY DEF widget, socket, StaffCalls
<1>3. /\ call'[k].pc \in {"check", "setStatus"} /\ call'[k].http = FALSE
      /\ \A j \in Calls \ {k} : call'[j] = call[j]
  BY <1>1 DEF StaffCalls, Begin, Begun, StoreInv, Typed
<1>4. Typings' /\ LinkOK'
  BY <1>1, <1>2 DEF WidgetOK, Typings, LinkOK, screen, composer, progress
<1>5. PanelOK'
  BY <1>1, <1>2, <1>3 DEF WidgetOK, PanelOK, screen, composer, At, Walking, Stage, WidgetAssumption
<1>6. CallsOK'
  BY <1>1, <1>2, <1>3 DEF WidgetOK, CallsOK, composer, At, Stage, Resolving
<1>7. Resolves'
  BY <1>1, <1>2, <1>3 DEF WidgetOK, Resolves, data, At, Open
<1>8. Shows'
  BY <1>1, <1>2, ShowsFrame DEF data, screen
<1>9. \A w \in Walkers : WalkOK(w)'
  BY <1>1, <1>2, WalksFrame DEF data
<1>10. \A j \in SendSlots : StageOK(j)'
  BY <1>1, <1>2, <1>3 DEF WidgetOK, StageOK, composer, At, WidgetAssumption
<1>11. \A i \in DOMAIN wire' : SignalOK(i)'
  BY <1>1, <1>2, <1>3 DEF WidgetOK, SignalOK, composer, data, At, StoredIds, WidgetAssumption
<1>12. QED
  BY <1>4, <1>5, <1>6, <1>7, <1>8, <1>9, <1>10, <1>11 DEF WidgetOK

LEMMA ReceiveKeepsWidget ==
  ASSUME TypeInv, Receive
  PROVE  WidgetOK'
BY HearKeepsWidget, JoinAcknowledgedKeepsWidget, RejoinAcknowledgedKeepsWidget,
   SendAcknowledgedKeepsWidget, ClosedAnswerKeepsWidget, RefusedAnswerKeepsWidget
   DEF Receive

LEMMA NextKeepsWidget ==
  ASSUME TypeInv, WidgetNext
  PROVE  WidgetOK'
<1>1. ASSUME NEW k \in StaffSlots, StaffCalls(k), UNCHANGED widget
      PROVE  WidgetOK'
  BY <1>1, StaffCallsKeepWidget
<1>2. ASSUME NEW k \in Calls, Server(k)
      PROVE  WidgetOK'
  BY <1>2, ServerStepKeepsWidget, PublishToRoomKeepsWidget, AnswerRefusalKeepsWidget DEF Server
<1>3. CASE OpenSession \/ OpeningFails
  BY <1>3, OpenSessionKeepsWidget, OpeningFailsKeepsWidget
<1>4. ASSUME NEW w \in Walkers,
             \/ ConversationResolved(w) \/ Load(w) \/ WalkFails(w)
             \/ Connect(w) \/ ServeJoin(w) \/ JoinTimesOut(w)
      PROVE  WidgetOK'
  BY <1>4, ConversationResolvedKeepsWidget, ReadPageKeepsWidget, ShowKeepsWidget,
     WalkEndsKeepsWidget, ConnectKeepsWidget, ServeJoinKeepsWidget DEF Load
<1>5. CASE Disconnect \/ Restart \/ Refused
  BY <1>5, DisconnectKeepsWidget, RestartKeepsWidget, RefusedKeepsWidget
<1>6. ASSUME NEW t \in Texts, Type(t)
      PROVE  WidgetOK'
  BY <1>6, TypeKeepsWidget
<1>7. CASE AskDetails \/ DetailsSaved \/ DetailsFail
  BY <1>7, DetailsKeepWidget, DetailsSavedKeepsWidget
<1>8. ASSUME NEW k \in SendSlots,
             \/ Submit(k) \/ GiveUp(k) \/ ServeRejoin(k) \/ Recover(k) \/ RecoveryFails(k)
      PROVE  WidgetOK'
  BY <1>8, SubmitKeepsWidget, GiveUpKeepsWidget, ServeRejoinKeepsWidget,
     RecoverKeepsWidget, RecoveryFailsKeepsWidget
<1>9. CASE Receive
  BY <1>9, ReceiveKeepsWidget
<1>10. QED
  BY <1>1, <1>2, <1>3, <1>4, <1>5, <1>6, <1>7, <1>8, <1>9 DEF WidgetNext

----------------------------------------------------------------------------
(* The store, under everything the widget does.                            *)

\* A call begins in a slot that was free.
Starting(k) ==
  /\ At(k, "idle")
  /\ \E pc, u, c, arg, http : Starts(k, pc, u, c, arg, http)

\* The store is changed by operations, and otherwise by calls that begin, that
\* are forgotten before they store anything, or that die with the process.
LEMMA StoreMoves ==
  ASSUME TypeInv, WidgetNext
  PROVE  \/ UNCHANGED store
         \/ \E k \in Calls : Operation(k)
         \/ \E k \in Calls : Starting(k)
         \/ \E K \in SUBSET Calls : Abandons(K) /\ \A k \in K : call[k].pc \notin Stored
         \/ ProcessDies
<1> DEFINE Goal == \/ UNCHANGED store
                   \/ \E k \in Calls : Operation(k)
                   \/ \E k \in Calls : Starting(k)
                   \/ \E K \in SUBSET Calls :
                        Abandons(K) /\ \A k \in K : call[k].pc \notin Stored
                   \/ ProcessDies
<1>1. WidgetOK /\ WidgetAssumption /\ StoreInv /\ Typed
  BY WidgetAssumption DEF TypeInv, WidgetAssumption, StoreInv
<1>2. SendSlots \subseteq Calls /\ BootSlot \in Calls /\ StaffSlots \subseteq Calls
  BY <1>1 DEF WidgetAssumption
<1>3. ASSUME NEW k \in Calls, Forget(k), UNCHANGED data, call[k].pc \notin Stored
      PROVE  Goal
  <2>1. call' = [j \in Calls |-> IF j \in {k} THEN Idle ELSE call[j]]
    BY <1>1, <1>3 DEF Forget, Typed
  <2>2. Abandons({k})
    BY <1>3, <2>1 DEF Abandons
  <2>3. QED
    BY <1>3, <2>2
<1>4. \A k \in Calls : call[k].http => call[k].pc \notin Stored
  BY <1>1 DEF WidgetOK, CallsOK, Resolving, Stored
<1>5. /\ Visitor \in Customers /\ NoConv \in 0..MaxConvs /\ "resolve" \in Args
      /\ "reply" \in Args /\ "open" \in Args /\ "closed" \in Args /\ Texts \subseteq Args
      /\ Texts \subseteq Bodies /\ "reply" \in Bodies
  BY <1>1, ConversationsAssumption DEF WidgetAssumption, NoConv, Args
<1>6. ASSUME NEW k \in Calls, At(k, "idle"), UNCHANGED data,
             Begin(k, "find", Visitor, NoConv, "resolve", TRUE)
      PROVE  Goal
  <2>1. Starts(k, "find", Visitor, NoConv, "resolve", TRUE)
    BY <1>5, <1>6 DEF Starts
  <2>2. QED
    BY <1>6, <2>1 DEF Starting
<1>7. ASSUME NEW k \in Calls, At(k, "idle"), UNCHANGED data, NEW c \in Convs, NEW t \in Texts,
             Begin(k, "check", Visitor, c, t, FALSE)
      PROVE  Goal
  <2>1. c \in 0..MaxConvs /\ t \in Args /\ t \in Bodies /\ Visitor \in Customers \cup {NoCustomer}
    BY <1>5, ConversationsAssumption DEF Convs
  <2>2. Starts(k, "check", Visitor, c, t, FALSE)
    BY <1>7, <2>1 DEF Starts
  <2>3. QED
    BY <1>7, <2>2 DEF Starting
<1>8. ASSUME NEW k \in StaffSlots, StaffCalls(k)
      PROVE  Goal
  <2>1. PICK c \in Convs :
          /\ Exists(c)
          /\ \/ Begin(k, "check", conv[c].customer, c, "reply", FALSE)
             \/ \E status \in {"open", "closed"} :
                  Begin(k, "setStatus", conv[c].customer, c, status, FALSE)
    BY <1>8 DEF StaffCalls
  <2>2. At(k, "idle") /\ UNCHANGED data /\ k \in Calls
    BY <1>2, <1>8 DEF StaffCalls
  <2>3. c \in 0..MaxConvs /\ conv[c].customer \in Customers \cup {NoCustomer}
    BY <1>1, ConversationsAssumption DEF Convs, Typed, Documents
  <2>4. CASE Begin(k, "check", conv[c].customer, c, "reply", FALSE)
    <3>1. Starts(k, "check", conv[c].customer, c, "reply", FALSE)
      BY <1>5, <2>1, <2>2, <2>3, <2>4 DEF Starts
    <3>2. QED
      BY <2>2, <3>1 DEF Starting
  <2>5. ASSUME NEW status \in {"open", "closed"},
               Begin(k, "setStatus", conv[c].customer, c, status, FALSE)
        PROVE  Goal
    <3>1. Starts(k, "setStatus", conv[c].customer, c, status, FALSE)
      BY <1>5, <2>1, <2>2, <2>3, <2>5 DEF Starts
    <3>2. QED
      BY <2>2, <3>1 DEF Starting
  <2>6. QED
    BY <2>1, <2>4, <2>5
<1>9. ASSUME NEW k \in Calls, Server(k)
      PROVE  Goal
  BY <1>9 DEF Server, ServerStep, PublishToRoom, AnswerRefusal, SendStep, Operation
<1>10. CASE OpenSession
  <2>1. At(BootSlot, "idle") /\ UNCHANGED data
    BY <1>10 DEF OpenSession
  <2>2. CASE Begin(BootSlot, "find", Visitor, NoConv, "resolve", TRUE)
    BY <1>2, <1>6, <2>1, <2>2
  <2>3. CASE UNCHANGED call
    BY <2>1, <2>3 DEF store
  <2>4. QED
    BY <1>10, <2>2, <2>3 DEF OpenSession
<1>11. ASSUME OpeningFails \/ \E w \in Walkers : ConversationResolved(w)
       PROVE  Goal
  <2>1. Forget(BootSlot) /\ UNCHANGED data /\ call[BootSlot].pc \in {"find", "answered"}
    BY <1>11 DEF OpeningFails, ConversationResolved, At
  <2>2. call[BootSlot].pc \notin Stored
    BY <2>1 DEF Stored
  <2>3. QED
    BY <1>2, <1>3, <2>1, <2>2
<1>12. ASSUME NEW k \in SendSlots, Recover(k) \/ RecoveryFails(k)
       PROVE  Goal
  <2>1. Forget(k) /\ UNCHANGED data /\ call[k].pc \in {"find", "answered"}
    BY <1>12 DEF Recover, RecoveryFails, At
  <2>2. call[k].pc \notin Stored
    BY <2>1 DEF Stored
  <2>3. QED
    BY <1>2, <1>3, <2>1, <2>2
<1>13. CASE Disconnect
  <2>1. PICK lost \in SUBSET {k \in SendSlots : At(k, "check") /\ submission[k].live} :
        call' = [k \in Calls |-> IF k \in lost THEN Idle ELSE call[k]]
    BY <1>13 DEF Disconnect
  <2>2. Abandons(lost) /\ lost \in SUBSET Calls /\ \A k \in lost : call[k].pc \notin Stored
    BY <1>2, <1>13, <2>1 DEF Disconnect, Abandons, At, Stored
  <2>3. QED
    BY <2>2
<1>14. ASSUME NEW k \in SendSlots, Submit(k)
       PROVE  Goal
  <2>1. input # NoText /\ link = "up" /\ At(k, "idle") /\ UNCHANGED data
        /\ Emit(k, thread, input)
    BY <1>14 DEF Submit, Free
  <2>2. thread \in Convs /\ input \in Texts
    BY <1>1, <2>1, ConversationsAssumption DEF WidgetOK, PanelOK, Typings, Convs, NoConv
  <2>3. CASE thread \in room
    BY <1>2, <1>7, <2>1, <2>2, <2>3 DEF Emit
  <2>4. CASE thread \notin room
    BY <2>1, <2>4 DEF Emit, store
  <2>5. QED
    BY <2>3, <2>4
<1>15. ASSUME NEW k \in SendSlots, RejoinAcknowledged(k)
       PROVE  Goal
  <2>1. /\ UNCHANGED data /\ Arrives("joined") /\ Taken /\ Head(wire).to = k
    BY <1>15 DEF RejoinAcknowledged
  <2>2. At(k, "idle")
    BY <2>1, ArrivesFor
  <2>3. CASE Stage(k, "rejoined")
    <3>1. submission[k].conv \in Convs /\ submission[k].text \in Texts
      BY <1>1, <2>3 DEF WidgetOK, StageOK, Stage
    <3>2. Begin(k, "check", Visitor, submission[k].conv, submission[k].text, FALSE)
      BY <1>15, <2>3 DEF RejoinAcknowledged
    <3>3. QED
      BY <1>2, <1>7, <2>1, <2>2, <3>1, <3>2
  <2>4. CASE ~Stage(k, "rejoined")
    BY <1>15, <2>1, <2>4 DEF RejoinAcknowledged, store
  <2>5. QED
    BY <2>3, <2>4
<1>16. ASSUME NEW k \in SendSlots, ClosedAnswer(k)
       PROVE  Goal
  <2>1. /\ UNCHANGED data /\ Arrives("closed") /\ Taken /\ Head(wire).to = k
    BY <1>16 DEF ClosedAnswer
  <2>2. At(k, "idle")
    BY <2>1, ArrivesFor
  <2>3. CASE Stage(k, "send")
    <3>1. Begin(k, "find", Visitor, NoConv, "resolve", TRUE)
      BY <1>16, <2>3 DEF ClosedAnswer, Stage
    <3>2. QED
      BY <1>2, <1>6, <2>1, <2>2, <3>1
  <2>4. CASE ~Stage(k, "send")
    <3>1. UNCHANGED call
      BY <1>16, <2>4 DEF ClosedAnswer, Stage
    <3>2. QED
      BY <2>1, <3>1 DEF store
  <2>5. QED
    BY <2>3, <2>4
<1>17. CASE Restart
  BY <1>17 DEF Restart
<1>18. ASSUME NEW w \in Walkers,
              Load(w) \/ WalkFails(w) \/ Connect(w) \/ ServeJoin(w) \/ JoinTimesOut(w)
       PROVE  UNCHANGED store
  BY <1>18 DEF Load, ReadPage, Show, WalkFails, Connect, ServeJoin, JoinTimesOut
<1>19. ASSUME \/ Refused \/ AskDetails \/ DetailsSaved \/ DetailsFail
              \/ \E t \in Texts : Type(t)
       PROVE  UNCHANGED store
  BY <1>19 DEF Refused, AskDetails, DetailsSaved, DetailsFail, Type
<1>20. ASSUME NEW k \in SendSlots, GiveUp(k) \/ ServeRejoin(k)
       PROVE  UNCHANGED store
  BY <1>20 DEF GiveUp, ServeRejoin
<1>21. ASSUME \/ Hear \/ \E w \in Walkers : JoinAcknowledged(w)
              \/ \E k \in SendSlots : SendAcknowledged(k) \/ RefusedAnswer(k)
       PROVE  UNCHANGED store
  BY <1>21 DEF Hear, JoinAcknowledged, SendAcknowledged, RefusedAnswer
<1>22. Goal
  <2> HIDE DEF Goal
  <2>1. UNCHANGED store => Goal
    BY DEF Goal
  <2>2. Receive => Goal
    BY <1>15, <1>16, <1>21, <2>1 DEF Receive
  <2>3. QED
    BY <1>8, <1>9, <1>10, <1>11, <1>12, <1>13, <1>14, <1>17, <1>18, <1>19, <1>20,
       <2>1, <2>2 DEF WidgetNext, Goal
<1>23. QED
  BY <1>22

LEMMA NextKeepsStore ==
  ASSUME TypeInv, WidgetNext
  PROVE  StoreInv' /\ DatesInv' /\ messages \subseteq messages'
<1>1. StoreInv /\ DatesInv /\ Typed
  BY DEF TypeInv, StoreInv
<1>2. CASE UNCHANGED store
  BY <1>1, <1>2, StutterKeepsStore, StutterKeepsDates DEF store, data
<1>3. ASSUME NEW k \in Calls, Operation(k)
      PROVE  StoreInv' /\ DatesInv' /\ messages \subseteq messages'
  BY <1>1, <1>3, OperationKeepsStore, OperationKeepsDates, OperationGrows
<1>4. ASSUME NEW k \in Calls, Starting(k)
      PROVE  StoreInv' /\ DatesInv' /\ messages \subseteq messages'
  <2>1. PICK pc, u, c, arg, http : Starts(k, pc, u, c, arg, http)
    BY <1>4 DEF Starting
  <2>2. StoreInv'
    BY <1>1, <2>1, StartsKeepStore
  <2>3. /\ call'[k].pc = pc /\ \A j \in Calls \ {k} : call'[j] = call[j]
    BY <1>1, <2>1, StartsMoves
  <2>4. UNCHANGED data /\ call[k].pc \notin Stored /\ call'[k].pc \notin Stored
    BY <1>4, <2>1, <2>3 DEF Starting, Starts, At, Stored
  <2>5. DatesInv'
    BY <1>1, <2>3, <2>4, CallsKeepDates
  <2>6. QED
    BY <2>2, <2>4, <2>5 DEF data
<1>5. ASSUME NEW K \in SUBSET Calls, Abandons(K), \A k \in K : call[k].pc \notin Stored
      PROVE  StoreInv' /\ DatesInv' /\ messages \subseteq messages'
  <2>1. StoreInv'
    BY <1>1, <1>5, AbandonsKeepsStore
  <2>2. /\ UNCHANGED <<messages, untouched, overtaken, conv>>
        /\ \A j \in Calls : call[j].pc \in Stored => call'[j] = call[j]
        /\ \A j \in Calls : call'[j].pc \in Stored => call'[j] = call[j]
    BY <1>5, IdleCall DEF Abandons, data, Stored
  <2>3. \A c \in Convs : Exists(c) => Exists(c)' /\ conv'[c].lastAt = conv[c].lastAt
    BY <2>2 DEF Exists
  <2>4. DatesInv'
    BY <1>1, <2>2, <2>3, OtherStepsKeepDates
  <2>5. QED
    BY <2>1, <2>2, <2>4
<1>6. CASE ProcessDies
  BY <1>1, <1>6, ProcessDiesKeepsStore, ProcessDiesKeepsDates DEF ProcessDies
<1>7. QED
  BY <1>2, <1>3, <1>4, <1>5, <1>6, StoreMoves

----------------------------------------------------------------------------
(* The theorems about types.                                               *)

LEMMA StoreInitCorrect ==
  ASSUME StoreInit
  PROVE  StoreInv /\ DatesInv
<1>1. /\ conv = [c \in Convs |-> Absent] /\ messages = {} /\ issued = 0 /\ changes = 0
      /\ closedAt = [c \in Convs |-> 0] /\ untouched = {} /\ overtaken = {}
      /\ misreported = {} /\ call = [k \in Calls |-> Idle]
  BY DEF StoreInit
<1>2. 0 \in 0..MaxMessages
  BY ConversationsAssumption
<1>3. /\ Absent \in Documents
      /\ \A c \in Convs : conv[c].status = "absent"
  BY <1>1, <1>2 DEF Absent, Documents
<1>4. \A k \in Calls : call[k] = Idle /\ call[k] \in CallRecords /\ call[k].pc = "idle"
  BY <1>1, IdleCall
<1>5. Typed
  <2>1. /\ conv \in [Convs -> Documents]
        /\ closedAt \in [Convs -> 0..MaxMessages]
        /\ call \in [Calls -> CallRecords]
    <3>1. conv \in [Convs -> Documents]
      BY <1>1, <1>3
    <3>2. closedAt \in [Convs -> 0..MaxMessages]
      BY <1>1, <1>2
    <3>3. call \in [Calls -> CallRecords]
      BY <1>1, IdleCall
    <3>4. QED
      BY <3>1, <3>2, <3>3
  <2>2. \A k \in Calls : CallOK(k)
    BY <1>1, <1>4, IdleCall DEF CallOK, Resolving
  <2>3. QED
    BY <1>1, <1>2, <2>1, <2>2 DEF Typed
<1>6. IdsAreOnce /\ OneOpen /\ ClosedAdmits
  BY <1>1, <1>3, <1>4 DEF IdsAreOnce, OneOpen, Open, ClosedAdmits, ClosedHoldsOnlyAdmitted, At
<1>7. Carried /\ Dated
  BY <1>1, <1>4 DEF Carried, Stored, Dated, IsNewest
<1>8. QED
  BY <1>5, <1>6, <1>7 DEF StoreInv, DatesInv

LEMMA WidgetInitCorrect ==
  ASSUME WidgetInit
  PROVE  TypeInv
<1>1. StoreInv /\ DatesInv
  BY StoreInitCorrect DEF WidgetInit
<1>2. /\ panel = "idle" /\ thread = NoConv /\ shown = <<>>
      /\ link = "off" /\ room = {} /\ wire = <<>>
      /\ walk = [w \in Walkers |-> NoWalk]
      /\ submission = [k \in SendSlots |-> NoSubmission]
      /\ input = NoText /\ typed = {}
      /\ details = [form |-> "offered", conv |-> NoConv]
      /\ caughtUp = FALSE
  BY DEF WidgetInit
<1>3. \A k \in Calls : call[k] = Idle
  BY DEF WidgetInit, StoreInit
<1>4. /\ \A w \in Walkers : walk[w] = NoWalk
      /\ \A k \in SendSlots : submission[k] = NoSubmission
  BY <1>2
<1>5. details \in Forms /\ details.form = "offered"
  BY <1>2, ConversationsAssumption DEF Forms, NoConv
<1>6. Typings
  <2>1. walk \in [Walkers -> Walks] /\ submission \in [SendSlots -> Submissions]
    BY <1>2, NoWalkTyped, NoSubmissionTyped
  <2>2. wire \in Seq(Signals)
    BY <1>2
  <2>3. thread \in 0..MaxConvs
    BY <1>2, ConversationsAssumption DEF NoConv
  <2>4. QED
    BY <1>2, <1>5, <2>1, <2>2, <2>3 DEF Typings, Panels, Links
<1>7. PanelOK
  BY <1>2, <1>3, <1>4, <1>5, NoWalkTyped, NoSubmissionTyped, IdleCall, WidgetAssumption
     DEF PanelOK, At, Walking, Stage, WidgetAssumption
<1>8. LinkOK
  BY <1>2, <1>4, NoWalkTyped, NoSubmissionTyped DEF LinkOK
<1>9. CallsOK /\ Resolves
  BY <1>3, IdleCall DEF CallsOK, Resolves, At, Resolving
<1>10. Shows
  BY <1>2 DEF Shows, ToSet, IsInjective
<1>11. \A w \in Walkers : WalkOK(w)
  BY <1>4, NoWalkTyped DEF WalkOK, Walking
<1>12. \A k \in SendSlots : StageOK(k)
  BY <1>4, NoSubmissionTyped DEF StageOK
<1>13. \A i \in DOMAIN wire : SignalOK(i)
  BY <1>2
<1>14. QED
  BY <1>1, <1>6, <1>7, <1>8, <1>9, <1>10, <1>11, <1>12, <1>13 DEF TypeInv, WidgetOK

LEMMA StutterKeepsTypes ==
  ASSUME TypeInv, UNCHANGED everything
  PROVE  TypeInv'
<1>1. UNCHANGED <<store, widget>>
  BY DEF everything
<1>2. StoreInv' /\ DatesInv'
  BY <1>1, StutterKeepsStore, StutterKeepsDates DEF TypeInv
<1>3. /\ UNCHANGED <<panel, thread, shown, link, room, wire, walk, submission, input, typed,
                     details, caughtUp>>
      /\ WidgetOK
  BY <1>1 DEF widget, screen, socket, composer, progress, TypeInv
<1>4. Typings' /\ LinkOK' /\ PanelOK'
  BY <1>1, <1>3 DEF WidgetOK, Typings, LinkOK, PanelOK, store, At, Walking, Stage
<1>5. \A w \in Walkers : WalkOK(w)'
  BY <1>1, <1>3, WalksFrame DEF store, data
<1>6. QED
  BY <1>1, <1>2, <1>3, <1>4, <1>5, SlotsFrame DEF TypeInv, WidgetOK

LEMMA NextKeepsTypes ==
  ASSUME TypeInv, WidgetNext
  PROVE  TypeInv'
BY NextKeepsWidget, NextKeepsStore DEF TypeInv

LEMMA Inductive == WidgetSpec => []TypeInv
<1>1. TypeInv /\ [WidgetNext]_everything => TypeInv'
  BY NextKeepsTypes, StutterKeepsTypes
<1>2. QED
  BY <1>1, WidgetInitCorrect, PTL DEF WidgetSpec

\* The widget is well formed: it is ready exactly when it has a thread, a socket
\* that is down is in no room and carries nothing, a catch-up is of a joined
\* conversation, and no submission waits for a connection that is gone (widget.ts,
\* createSocketServer.ts, conversation.service.ts, message.service.ts).
THEOREM WidgetTypeCorrect == WidgetSpec => []WidgetTypeOK
<1>1. TypeInv => WidgetTypeOK
  <2>1. TypeInv => StoreTypeOK
    BY StoreTypeCorrect DEF TypeInv
  <2>2. TypeInv => thread \in Convs \cup {NoConv}
    BY ConversationsAssumption DEF TypeInv, WidgetOK, Typings, Convs, NoConv
  <2>3. QED
    BY <2>1, <2>2 DEF TypeInv, WidgetOK, Typings, Panels, Links, LinkOK, PanelOK, WidgetTypeOK
<1>2. QED
  BY <1>1, Inductive, PTL

\* A closed conversation holds only messages of sends that were admitted before it
\* was closed, whatever closes and reopens it meanwhile (message.service.ts, the
\* check before the insertion).
THEOREM ClosedOnlyAdmitted == WidgetSpec => []ClosedHoldsOnlyAdmitted
<1>1. TypeInv => ClosedHoldsOnlyAdmitted
  BY StoreTypeCorrect DEF TypeInv
<1>2. QED
  BY <1>1, Inductive, PTL

\* A resolution that lost the race to create is answered with the winner's
\* conversation, unless that was closed while it ran (conversation.service.ts
\* resolveOpen).
THEOREM ResolutionsFailByClosing == WidgetSpec => []ResolveFailsOnlyByClosing
<1>1. TypeInv => ResolveFailsOnlyByClosing
  BY DEF TypeInv, WidgetOK, Resolves, ResolveFailsOnlyByClosing
<1>2. QED
  BY <1>1, Inductive, PTL

----------------------------------------------------------------------------
(* The refinement of MessageFeed.                                          *)

\* The list changes only where messages are shown, all of them stored.
LEMMA ListMoves ==
  ASSUME TypeInv, WidgetNext
  PROVE  UNCHANGED shown \/ \E ids \in SUBSET StoredIds : AppendMessages(ids)
<1>1. ASSUME NEW w \in Walkers, Show(w)
      PROVE  \E ids \in SUBSET StoredIds : AppendMessages(ids)
  BY <1>1 DEF Show, TypeInv, WidgetOK, WalkOK
<1>2. ASSUME NEW i, i = Head(wire).id, ShowLive(i), Taken,
             Arrives("message") \/ Arrives("ack")
      PROVE  \E ids \in SUBSET StoredIds : AppendMessages(ids)
  <2>1. i \in StoredIds
    BY <1>2, Arriving DEF SignalOK
  <2>2. AppendMessages({i}) /\ {i} \in SUBSET StoredIds
    BY <1>2, <2>1 DEF ShowLive
  <2>3. QED
    BY <2>2
<1>3. ASSUME Receive
      PROVE  UNCHANGED shown \/ \E ids \in SUBSET StoredIds : AppendMessages(ids)
  <2>1. CASE Hear
    BY <1>2, <2>1 DEF Hear
  <2>2. ASSUME NEW k \in SendSlots, SendAcknowledged(k)
        PROVE  UNCHANGED shown \/ \E ids \in SUBSET StoredIds : AppendMessages(ids)
    <3>1. CASE Stage(k, "none")
      BY <2>2, <3>1 DEF SendAcknowledged
    <3>2. CASE ~Stage(k, "none")
      BY <1>2, <2>2, <3>2 DEF SendAcknowledged
    <3>3. QED
      BY <3>1, <3>2
  <2>3. QED
    BY <1>3, <2>1, <2>2 DEF Receive, JoinAcknowledged, RejoinAcknowledged, ClosedAnswer,
                            RefusedAnswer, screen
<1>4. ASSUME NEW k \in Calls, Server(k)
      PROVE  UNCHANGED shown
  BY <1>4 DEF Server, ServerStep, PublishToRoom, AnswerRefusal, widget, screen
<1>5. ASSUME NEW w \in Walkers,
             \/ ConversationResolved(w) \/ ReadPage(w) \/ WalkFails(w)
             \/ Connect(w) \/ ServeJoin(w) \/ JoinTimesOut(w)
      PROVE  UNCHANGED shown
  BY <1>5 DEF ConversationResolved, ReadPage, WalkFails, Connect, ServeJoin, JoinTimesOut, screen
<1>6. ASSUME \/ OpenSession \/ OpeningFails \/ Disconnect \/ Restart \/ Refused
             \/ (\E t \in Texts : Type(t)) \/ AskDetails \/ DetailsSaved \/ DetailsFail
      PROVE  UNCHANGED shown
  BY <1>6 DEF OpenSession, OpeningFails, Disconnect, Restart, Broken, Refused, Type,
              AskDetails, DetailsSaved, DetailsFail, screen
<1>7. ASSUME NEW k \in SendSlots,
             \/ Submit(k) \/ GiveUp(k) \/ ServeRejoin(k) \/ Recover(k) \/ RecoveryFails(k)
      PROVE  UNCHANGED shown
  BY <1>7 DEF Submit, GiveUp, ServeRejoin, Recover, RecoveryFails, screen
<1>8. UNCHANGED widget => UNCHANGED shown
  BY DEF widget, screen
<1>9. QED
  BY <1>1, <1>3, <1>4, <1>5, <1>6, <1>7, <1>8 DEF WidgetNext, Load

\* The thread of the widget is a feed: whatever the history, the room, the
\* acknowledgements and the catch-ups bring, in whatever order and however often,
\* each step appends stored messages that are not shown yet, and nothing shown is
\* repeated, moved or taken back (widget.ts appendMessage).
THEOREM WidgetThreadIsFeed == WidgetSpec => ImplementsFeed
<1>1. WidgetInit => Feed!Init
  BY DEF WidgetInit, Feed!Init
<1>2. TypeInv /\ WidgetNext => Feed!Next
  <2> SUFFICES ASSUME TypeInv, WidgetNext
               PROVE  Feed!Next
    OBVIOUS
  <2>1. StoredIds \subseteq StoredIds'
    BY NextKeepsStore DEF StoredIds
  <2>2. CASE UNCHANGED shown
    <3>1. Feed!Store
      BY <2>1, <2>2 DEF Feed!Store, StoredIds
    <3>2. QED
      BY <3>1 DEF Feed!Next
  <2>3. ASSUME NEW ids \in SUBSET StoredIds, AppendMessages(ids)
        PROVE  Feed!Next
    <3>1. /\ IsPrefix(shown, shown') /\ IsInjective(shown')
          /\ ToSet(shown') = ToSet(shown) \cup ids
      BY <2>3, Appends
    <3>2. ToSet(shown') \subseteq StoredIds'
      BY <2>1, <3>1 DEF TypeInv, WidgetOK, Shows
    <3>3. Feed!IsPrefix(shown, shown') /\ Feed!IsInjective(shown')
      BY <3>1 DEF IsPrefix, Feed!IsPrefix, IsInjective, Feed!IsInjective
    <3>4. Feed!ToSet(shown') \subseteq StoredIds'
      BY <3>2 DEF ToSet, Feed!ToSet
    <3>5. Feed!Show
      BY <2>1, <3>3, <3>4 DEF Feed!Show, StoredIds
    <3>6. QED
      BY <3>5 DEF Feed!Next
  <2>4. QED
    BY <2>2, <2>3, ListMoves
<1>3. UNCHANGED everything => UNCHANGED <<messages, shown>>
  BY DEF everything, widget, screen, store, data
<1>4. TypeInv /\ [WidgetNext]_everything
        => [Feed!Next]_<<{m.id : m \in messages}, shown>>
  BY <1>2, <1>3
<1>5. QED
  BY <1>1, <1>4, Inductive, PTL DEF WidgetSpec, ImplementsFeed, Feed!Spec

----------------------------------------------------------------------------
(* The texts.                                                              *)

\* No call takes up a text, or the storing of one.
CallsCalm ==
  /\ \A k \in Calls : \A t \in Texts : Carries(k, t)' => Carries(k, t)
  /\ \A k \in SendSlots :
       /\ Sending(k)' => Sending(k) /\ call'[k].arg = call[k].arg
       /\ call'[k].pc \in Stored => call[k].pc \in Stored /\ call'[k].id = call[k].id

\* A submission keeps its text, and its stage unless the text goes to wait
\* for a new conversation without having been stored.
Waits(k) ==
  /\ submission'[k].text = submission[k].text
  /\ \/ submission'[k].pc = submission[k].pc
     \/ /\ submission[k].pc # "none"
        /\ submission'[k].pc \in {"resolve", "rejoin", "rejoined"}
        /\ submission[k].text \in Texts \ unanswered => ~Credited(submission[k].text)
        /\ ~Sending(k)'

\* The composer is left alone, or cleared of what is displaced.
InputCalm ==
  /\ UNCHANGED typed /\ displaced \subseteq displaced'
  /\ input' = input \/ input' = NoText
  /\ input' # input => input \in displaced'

\* Nothing is stored to anybody's knowledge, nor a text that was not typed.
Keeps ==
  /\ messages \subseteq messages'
  /\ \A t \in Texts : Credited(t)' => Credited(t)
  /\ \A t \in Texts \ typed : Said(t)' => Said(t)

LEMMA StillKeeps ==
  ASSUME UNCHANGED <<messages, misreported>>
  PROVE  Keeps
BY DEF Keeps, Credited, Said

\* What was under way to a submission is still true.
LEMMA TruthKept ==
  ASSUME TextInv, Keeps, unanswered \subseteq unanswered',
         NEW i \in DOMAIN wire', NEW j \in DOMAIN wire, wire'[i] = wire[j],
         \/ submission'[wire[j].to] = NoSubmission
         \/ /\ submission'[wire[j].to].text = submission[wire[j].to].text
            /\ submission[wire[j].to].pc = "none" => submission'[wire[j].to].pc = "none"
  PROVE  Truthful(i)'
<1>1. Truthful(j)
  BY DEF TextInv
<1>2. NoText \notin Texts
  BY WidgetAssumption DEF WidgetAssumption
<1>3. CASE submission'[wire[j].to] = NoSubmission
  BY <1>2, <1>3, NoSubmissionTyped DEF Truthful, Stage
<1>4. CASE submission'[wire[j].to] # NoSubmission
  <2>1. CASE wire[j].kind \in {"closed", "refused"}
    BY <1>1, <1>4, <2>1 DEF Truthful, Keeps
  <2>2. CASE wire[j].kind = "ack"
    BY <1>1, <1>4, <2>2 DEF Truthful, Stage, Keeps
  <2>3. QED
    BY <2>1, <2>2 DEF Truthful
<1>5. QED
  BY <1>3, <1>4

\* A step that moves no text.
LEMMA CalmKeepsTexts ==
  ASSUME TypeInv, TextInv, CallsCalm, InputCalm, \A k \in SendSlots : Waits(k),
         Keeps, UNCHANGED unanswered,
         \A i \in DOMAIN wire' : Truthful(i)'
  PROVE  TextInv'
<1>1. NoText \notin Texts /\ \A k \in SendSlots : k \in Calls
  BY WidgetAssumption DEF WidgetAssumption
<1>2. /\ \A t \in Texts : Credited(t)' => Credited(t)
      /\ \A t \in Texts \ typed : Said(t)' => Said(t)
      /\ messages \subseteq messages'
  BY DEF Keeps
<1>3. \A t \in Texts : input' = t => input = t
  BY <1>1 DEF InputCalm
<1>4. \A k \in SendSlots : submission'[k].text = submission[k].text
  BY DEF Waits
<1>5. ASSUME NEW t \in Texts \ unanswered'
      PROVE  TextOnce(t)'
  <2>1. TextOnce(t) /\ t \in Texts /\ t \in Texts \ unanswered
    BY <1>5 DEF TextInv
  <2>2. ASSUME NEW k \in Calls, Carries(k, t)'
        PROVE  /\ k \in SendSlots /\ submission'[k].text = t
               /\ submission'[k].pc \in {"send", "resend"} /\ ~Credited(t)
    <3>1. Carries(k, t)
      BY <2>1, <2>2 DEF CallsCalm
    <3>2. /\ k \in SendSlots /\ submission[k].text = t
          /\ submission[k].pc \in {"send", "resend"} /\ ~Credited(t)
      BY <2>1, <3>1 DEF TextOnce
    <3>3. Sending(k)'
      BY <2>2 DEF Carries, Sending, At
    <3>4. QED
      BY <3>2, <3>3 DEF Waits
  <2>3. ASSUME NEW k \in SendSlots, submission'[k].text = t,
               submission'[k].pc \in {"resolve", "rejoin", "rejoined"}
        PROVE  ~Credited(t)
    <3>1. submission[k].text = t /\ Waits(k)
      BY <2>3 DEF Waits
    <3>2. QED
      BY <2>1, <2>3, <3>1 DEF Waits, TextOnce
  <2>4. input' = t => /\ ~Credited(t)
                      /\ \A k \in SendSlots : submission[k].text # t
                      /\ \A k \in Calls : ~Carries(k, t)
    BY <1>3, <2>1 DEF TextOnce
  <2>5. \A k \in Calls : Carries(k, t)' => Carries(k, t)
    BY <2>1 DEF CallsCalm
  <2>6. \A j, k \in SendSlots : submission[j].text = t /\ submission[k].text = t => j = k
    BY <2>1 DEF TextOnce
  <2> HIDE DEF Carries, Said, Credited
  <2>8. QED
    BY <1>2, <1>4, <2>1, <2>2, <2>3, <2>4, <2>5, <2>6 DEF TextOnce
<1>6. ASSUME NEW t \in Texts \ typed'
      PROVE  Unheard(t)'
  <2>1. Unheard(t) /\ t \in Texts
    BY <1>6 DEF TextInv, InputCalm
  <2> t \in Texts \ typed
    BY <1>6 DEF InputCalm
  <2>2. \A k \in Calls : Carries(k, t)' => Carries(k, t)
    BY <2>1 DEF CallsCalm
  <2>3. QED
    BY <1>2, <1>3, <1>4, <2>1, <2>2 DEF Unheard
<1>7. ASSUME NEW k \in SendSlots
      PROVE  Quotes(k)'
  <2>1. Quotes(k) /\ Waits(k)
    BY <1>7 DEF TextInv
  <2>2. Sending(k)' => Sending(k) /\ call'[k].arg = call[k].arg
    BY <1>7 DEF CallsCalm
  <2>3. call'[k].pc \in Stored => call[k].pc \in Stored /\ call'[k].id = call[k].id
    BY <1>7 DEF CallsCalm
  <2>4. call'[k].pc \in Stored => Sending(k)'
    BY DEF Stored, Sending, At
  <2>5. QED
    BY <1>2, <2>1, <2>2, <2>3, <2>4 DEF Quotes, Waits, Stage
<1>8. TextKept'
  <2> SUFFICES ASSUME NEW t \in typed'
               PROVE  \/ t = input' \/ t \in displaced'
                      \/ \E k \in SendSlots : submission'[k].text = t
                      \/ \E m \in messages' : m.body = t
    BY DEF TextKept
  <2>1. \/ t = input \/ t \in displaced
        \/ \E k \in SendSlots : submission[k].text = t
        \/ \E m \in messages : m.body = t
    BY DEF InputCalm, TextInv, TextKept
  <2>2. QED
    BY <1>2, <1>4, <2>1 DEF InputCalm
<1>9. QED
  BY <1>5, <1>6, <1>7, <1>8 DEF TextInv

\* A submission is over: its text was stored, is back in the composer, or went
\* with a composer that is no longer there.
Ended(k) ==
  \E t \in Texts :
    /\ t = submission[k].text
    /\ t \notin unanswered' => \A j \in Calls : ~Carries(j, t)'
    /\ \/ input' = input /\ (Said(t) \/ t \in displaced')
       \/ /\ input' = t /\ input \in displaced' \cup {NoText, t}
          /\ t \notin unanswered' => ~Credited(t)

LEMMA EndingKeepsTexts ==
  ASSUME TypeInv, TextInv, CallsCalm, NEW k \in SendSlots, submission[k].pc # "none",
         submission'[k] = NoSubmission,
         \A j \in SendSlots \ {k} : submission'[j] = submission[j],
         UNCHANGED <<messages, misreported, typed>>, unanswered \subseteq unanswered',
         displaced \subseteq displaced', Ended(k),
         \A i \in DOMAIN wire' : Truthful(i)'
  PROVE  TextInv'
<1> PICK t0 \in Texts :
       /\ t0 = submission[k].text
       /\ t0 \notin unanswered' => \A j \in Calls : ~Carries(j, t0)'
       /\ \/ input' = input /\ (Said(t0) \/ t0 \in displaced')
          \/ /\ input' = t0 /\ input \in displaced' \cup {NoText, t0}
             /\ t0 \notin unanswered' => ~Credited(t0)
  BY DEF Ended
<1>1. NoText \notin Texts /\ \A j \in SendSlots : j \in Calls
  BY WidgetAssumption DEF WidgetAssumption
<1>2. \A t : (Said(t)' <=> Said(t)) /\ (Credited(t)' <=> Credited(t))
  BY DEF Said, Credited
<1>4. /\ submission'[k].text = NoText /\ submission'[k].pc = "none"
      /\ \A j \in SendSlots : submission'[j].text \in Texts =>
           j # k /\ submission'[j] = submission[j]
  BY <1>1, NoSubmissionTyped
<1>5. t0 \in typed
  BY DEF TextInv, Unheard
<1>6. ASSUME NEW t \in Texts \ unanswered'
      PROVE  TextOnce(t)'
  <2>1. TextOnce(t) /\ t \in Texts
    BY <1>6 DEF TextInv
  <2>2. \A j \in Calls : Carries(j, t)' => Carries(j, t)
    BY <2>1 DEF CallsCalm
  <2>3. ASSUME NEW j \in Calls, Carries(j, t)'
        PROVE  /\ j \in SendSlots /\ submission'[j].text = t
               /\ submission'[j].pc \in {"send", "resend"} /\ ~Credited(t)
    <3>1. /\ j \in SendSlots /\ submission[j].text = t
          /\ submission[j].pc \in {"send", "resend"} /\ ~Credited(t)
      BY <2>1, <2>2, <2>3 DEF TextOnce
    <3>2. call[j].arg = t /\ call'[j].arg = t /\ Carries(j, t)
      BY <2>2, <2>3 DEF Carries
    <3>3. j # k
      <4> SUFFICES ASSUME j = k
                   PROVE  FALSE
        OBVIOUS
      <4>1. t0 = t
        BY <3>1
      <4>2. QED
        BY <1>6, <2>3, <4>1
    <3>4. QED
      BY <3>1, <3>3
  <2>4. ASSUME input' = t
        PROVE  /\ ~Credited(t)
               /\ \A j \in SendSlots : submission'[j].text # t
               /\ \A j \in Calls : ~Carries(j, t)'
    <3>1. CASE input = t
      BY <1>4, <2>1, <2>2, <3>1 DEF TextOnce
    <3>2. CASE input # t
      <4>1. t = t0 /\ ~Credited(t) /\ \A j \in Calls : ~Carries(j, t)'
        BY <1>6, <2>4, <3>2
      <4>2. \A j \in SendSlots : submission'[j].text # t
        BY <1>4, <2>1, <4>1 DEF TextOnce
      <4>3. QED
        BY <4>1, <4>2
    <3>3. QED
      BY <3>1, <3>2
  <2>5. \A i, j \in SendSlots : submission'[i].text = t /\ submission'[j].text = t => i = j
    BY <1>4, <2>1 DEF TextOnce
  <2>6. \A j \in SendSlots :
          submission'[j].text = t /\ submission'[j].pc \in {"resolve", "rejoin", "rejoined"}
            => ~Credited(t)
    BY <1>4, <2>1 DEF TextOnce
  <2> HIDE DEF Carries, Said, Credited
  <2>8. QED
    BY <1>2, <2>3, <2>4, <2>5, <2>6 DEF TextOnce
<1>7. ASSUME NEW t \in Texts \ typed'
      PROVE  Unheard(t)'
  <2>1. Unheard(t) /\ t \in Texts /\ t # t0
    BY <1>5, <1>7 DEF TextInv
  <2>2. \A j \in Calls : Carries(j, t)' => Carries(j, t)
    BY <2>1 DEF CallsCalm
  <2>3. input' # t
    BY <2>1 DEF Unheard
  <2>4. QED
    BY <1>2, <1>4, <2>1, <2>2, <2>3 DEF Unheard
<1>8. ASSUME NEW j \in SendSlots
      PROVE  Quotes(j)'
  <2>1. Quotes(j)
    BY <1>8 DEF TextInv
  <2>2. Sending(j)' => Sending(j) /\ call'[j].arg = call[j].arg
    BY <1>8 DEF CallsCalm
  <2>3. call'[j].pc \in Stored => call[j].pc \in Stored /\ call'[j].id = call[j].id
    BY <1>8 DEF CallsCalm
  <2>4. call'[j].pc \in Stored => Sending(j)'
    BY DEF Stored, Sending, At
  <2>5. submission'[j].pc # "none" => submission'[j] = submission[j]
    BY <1>4
  <2>6. QED
    BY <2>1, <2>2, <2>3, <2>4, <2>5 DEF Quotes, Stage
<1>9. TextKept'
  <2> SUFFICES ASSUME NEW t \in typed'
               PROVE  \/ t = input' \/ t \in displaced'
                      \/ \E j \in SendSlots : submission'[j].text = t
                      \/ \E m \in messages' : m.body = t
    BY DEF TextKept
  <2>1. t \in Texts /\ \/ t = input \/ t \in displaced
                       \/ \E j \in SendSlots : submission[j].text = t
                       \/ Said(t)
    BY DEF TextInv, TextKept, Said, TypeInv, WidgetOK, Typings
  <2>2. CASE t = input
    BY <1>1, <2>1, <2>2 
  <2>3. CASE t = t0
    BY <2>3  DEF Said
  <2>4. QED
    BY <2>1, <2>2, <2>3 DEF Said
<1>10. QED
  BY <1>6, <1>7, <1>8, <1>9 DEF TextInv

\* A text leaves on the connection: from the composer, or from a submission
\* that had waited for its new conversation.
LEMMA EmittingKeepsTexts ==
  ASSUME TypeInv, TextInv, NEW k \in SendSlots, NEW t0 \in Texts,
         submission'[k].text = t0, submission'[k].pc \in {"send", "resend"},
         \A j \in SendSlots \ {k} : submission'[j] = submission[j],
         \A j \in Calls \ {k} : call'[j] = call[j],
         \/ call'[k].pc = "check" /\ call'[k].arg = t0
         \/ At(k, "idle") /\ call'[k] = call[k],
         \/ input = t0 /\ input' = NoText /\ submission[k].text = NoText
         \/ input' = input /\ submission[k].text = t0,
         t0 \notin unanswered =>
           /\ ~Credited(t0) /\ \A j \in Calls : ~Carries(j, t0)
           /\ input' # t0 /\ \A j \in SendSlots \ {k} : submission[j].text # t0,
         UNCHANGED <<messages, misreported, typed, unanswered, displaced>>,
         \A i \in DOMAIN wire' : Truthful(i)'
  PROVE  TextInv'
<1>1. NoText \notin Texts /\ \A j \in SendSlots : j \in Calls
  BY WidgetAssumption DEF WidgetAssumption
<1>2. \A t : (Said(t)' <=> Said(t)) /\ (Credited(t)' <=> Credited(t))
  BY DEF Said, Credited
<1>3. t0 \in typed
  BY DEF TextInv, Unheard
<1>4. \A t \in Texts : input' = t => input = t
  BY <1>1
<1>5. ASSUME NEW t \in Texts, t # t0
      PROVE  /\ \A j \in SendSlots : submission'[j].text = t => submission'[j] = submission[j]
             /\ \A j \in Calls : Carries(j, t)' => Carries(j, t) /\ j # k
  BY <1>5 DEF Carries, At
<1>6. ASSUME NEW t \in Texts \ unanswered', t # t0
      PROVE  TextOnce(t)'
  <2>1. TextOnce(t) /\ t \in Texts
    BY <1>6 DEF TextInv
  <2>2. ASSUME NEW j \in Calls, Carries(j, t)'
        PROVE  /\ j \in SendSlots /\ submission'[j].text = t
               /\ submission'[j].pc \in {"send", "resend"} /\ ~Credited(t)
    BY <1>5, <1>6, <2>1, <2>2 DEF TextOnce
  <2>3. input' = t => /\ ~Credited(t)
                      /\ \A j \in SendSlots : submission'[j].text # t
                      /\ \A j \in Calls : ~Carries(j, t)'
    BY <1>4, <1>5, <1>6, <2>1 DEF TextOnce
  <2>4. \A i, j \in SendSlots : submission'[i].text = t /\ submission'[j].text = t => i = j
    BY <1>5, <1>6, <2>1 DEF TextOnce
  <2>5. \A j \in SendSlots :
          submission'[j].text = t /\ submission'[j].pc \in {"resolve", "rejoin", "rejoined"}
            => ~Credited(t)
    BY <1>5, <1>6, <2>1 DEF TextOnce
  <2> HIDE DEF Carries, Said, Credited
  <2>7. QED
    BY <1>2, <2>2, <2>3, <2>4, <2>5 DEF TextOnce
<1>7. ASSUME t0 \notin unanswered
      PROVE  TextOnce(t0)'
  <2>1. /\ ~Credited(t0) /\ \A j \in Calls : ~Carries(j, t0)
        /\ input' # t0 /\ \A j \in SendSlots \ {k} : submission[j].text # t0
    BY <1>7
  <2>2. \A j \in Calls : Carries(j, t0)' => j = k
    BY <2>1 DEF Carries
  <2>3. \A j \in SendSlots : submission'[j].text = t0 => j = k
    BY <2>1
  <2> HIDE DEF Carries, Said, Credited
  <2>5. QED
    BY <1>2, <2>1, <2>2, <2>3 DEF TextOnce
<1>8. ASSUME NEW t \in Texts \ typed'
      PROVE  Unheard(t)'
  <2>1. Unheard(t) /\ t \in Texts /\ t # t0
    BY <1>3, <1>8 DEF TextInv
  <2>2. QED
    BY <1>2, <1>4, <1>5, <2>1 DEF Unheard
<1>9. ASSUME NEW j \in SendSlots
      PROVE  Quotes(j)'
  <2>1. Quotes(j)
    BY <1>9 DEF TextInv
  <2>2. CASE j = k
    BY <2>2 DEF Quotes, Sending, At, Stored
  <2>3. CASE j # k
    <3>1. call'[j] = call[j] /\ submission'[j] = submission[j]
      BY <1>1, <2>3
    <3>2. QED
      BY <2>1, <3>1 DEF Quotes, Sending, At, Stage
  <2>4. QED
    BY <2>2, <2>3
<1>10. TextKept'
  <2> SUFFICES ASSUME NEW t \in typed'
               PROVE  \/ t = input' \/ t \in displaced'
                      \/ \E j \in SendSlots : submission'[j].text = t
                      \/ \E m \in messages' : m.body = t
    BY DEF TextKept
  <2>1. t \in Texts /\ \/ t = input \/ t \in displaced
                       \/ \E j \in SendSlots : submission[j].text = t
                       \/ \E m \in messages : m.body = t
    BY DEF TextInv, TextKept, TypeInv, WidgetOK, Typings
  <2>2. QED
    BY <1>1, <2>1
<1>11. QED
  BY <1>6, <1>7, <1>8, <1>9, <1>10 DEF TextInv

\* How a send goes on.
SendsOn(k) ==
  /\ call'[k].arg = call[k].arg /\ call'[k].conv = call[k].conv
  /\ \/ call[k].pc = "check" /\ call'[k].pc = "insert"
     \/ call[k].pc = "insert" /\ call'[k].pc = "touch" /\ call'[k].id = call[k].id
     \/ call[k].pc = "touch" /\ call'[k].pc = "publish" /\ call'[k].id = call[k].id

LEMMA OperationSends ==
  ASSUME StoreInv, NEW k \in Calls, Operation(k)
  PROVE  /\ call'[k].pc \in {"check", "insert", "touch", "publish"} => SendsOn(k)
         /\ \A j \in Calls \ {k} : call'[j] = call[j]
<1>1. Typed
  BY DEF StoreInv
<1>2. ASSUME NEW answer \in Nat, Ends(k, answer)
      PROVE  call'[k].pc \in {"idle", "answered"}
  BY <1>1, <1>2, EndsMoves
<1>3. ASSUME NEW pc \in Pcs, Goes(k, pc)
      PROVE  /\ call'[k].pc = pc /\ call'[k].arg = call[k].arg
             /\ call'[k].conv = call[k].conv /\ call'[k].id = call[k].id
  BY <1>1, <1>3, GoesMoves
<1>4. /\ "create" \in Pcs /\ "findAgain" \in Pcs /\ "touch" \in Pcs /\ "publish" \in Pcs
      /\ "announce" \in Pcs /\ Failed \in Nat
      /\ \A u : \A c \in OpenOf(u) : c \in Nat
  BY OpenOfConvs DEF Pcs, Failed
<1>5. CASE Find(k) \/ FindAgain(k)
  <2>1. \/ Goes(k, "create") \/ \E answer \in Nat : Ends(k, answer)
    BY <1>4, <1>5 DEF Find, FindAgain
  <2>2. QED
    BY <1>2, <1>3, <1>4, <2>1, OperationGrows
<1>6. CASE Create(k)
  <2>1. CASE UniqueOpenAdmits(call[k].customer)
    <3>1. Ends(k, NextConv) /\ NextConv \in Nat
      BY <1>1, <1>6, <2>1, CreateWrites DEF Convs
    <3>2. QED
      BY <1>2, <3>1, OperationGrows
  <2>2. CASE ~UniqueOpenAdmits(call[k].customer)
    BY <1>3, <1>4, <1>6, <2>2, OperationGrows DEF Create
  <2>3. QED
    BY <2>1, <2>2
<1>7. CASE RefuseSend(k) \/ InsertFails(k) \/ InsertReplyLost(k)
  BY <1>2, <1>4, <1>7, OperationGrows DEF RefuseSend, InsertFails, InsertReplyLost
<1>8. CASE AdmitSend(k)
  BY <1>1, <1>8, AdmitMoves, OperationGrows DEF AdmitSend, At, SendsOn
<1>9. CASE Insert(k)
  BY <1>3, <1>4, <1>9, OperationGrows DEF Insert, At, SendsOn
<1>10. CASE Touch(k) \/ TouchFails(k)
  BY <1>3, <1>4, <1>10, OperationGrows DEF Touch, TouchFails, At, SendsOn
<1>11. CASE Publish(k)
  <2>1. call[k].id \in Nat
    BY <1>1 DEF Typed, CallRecords
  <2>2. QED
    BY <1>2, <1>11, <2>1, OperationGrows DEF Publish
<1>12. CASE SetStatus(k) \/ SetStatusReplyLost(k)
  <2>1. Goes(k, "announce") \/ Ends(k, Failed)
    BY <1>12 DEF SetStatus, SetStatusReplyLost
  <2>2. QED
    BY <1>2, <1>3, <1>4, <2>1, OperationGrows
<1>13. CASE AnnounceStatus(k)
  <2>1. call[k].conv \in Nat
    BY <1>1 DEF Typed, CallRecords
  <2>2. QED
    BY <1>2, <1>13, <2>1, OperationGrows DEF AnnounceStatus
<1>14. QED
  BY <1>5, <1>6, <1>7, <1>8, <1>9, <1>10, <1>11, <1>12, <1>13 DEF Operation

\* What a call may do that takes up no text and stores none.
CallCalm(k) ==
  \/ call'[k].pc \notin {"check", "insert", "touch", "publish"}
  \/ call'[k] = call[k]
  \/ k \notin SendSlots /\ call'[k].arg \notin Texts
  \/ SendsOn(k) /\ call[k].pc # "insert"

LEMMA CallsStayCalm ==
  ASSUME \A k \in Calls : CallCalm(k)
  PROVE  CallsCalm
<1>1. ASSUME NEW k \in Calls, NEW t \in Texts, Carries(k, t)'
      PROVE  Carries(k, t)
  BY <1>1 DEF CallCalm, SendsOn, Carries
<1>2. ASSUME NEW k \in SendSlots
      PROVE  /\ Sending(k)' => Sending(k) /\ call'[k].arg = call[k].arg
             /\ call'[k].pc \in Stored => call[k].pc \in Stored /\ call'[k].id = call[k].id
  <2>1. CallCalm(k)
    BY WidgetAssumption DEF WidgetAssumption
  <2>2. QED
    BY <2>1 DEF CallCalm, SendsOn, Sending, At, Stored
<1>3. QED
  BY <1>1, <1>2 DEF CallsCalm

\* A submission's text is stored.
LEMMA InsertKeepsTexts ==
  ASSUME TypeInv, TextInv, NEW k \in Calls, Insert(k), UNCHANGED widget
  PROVE  TextInv'
<1>1. StoreInv /\ Typed /\ Operation(k) /\ WidgetOK
  BY DEF TypeInv, StoreInv, Operation
<1>2. /\ UNCHANGED <<input, typed, displaced, unanswered, submission, wire>>
      /\ At(k, "insert") /\ Goes(k, "touch")
      /\ messages' = messages \cup {Document(k)} /\ UNCHANGED misreported
  BY DEF Insert, widget, composer, socket
<1>3. /\ \A j \in Calls \ {k} : call'[j] = call[j]
      /\ call'[k].pc = "touch" /\ call'[k].arg = call[k].arg /\ call'[k].id = call[k].id
  BY <1>1, <1>2, GoesMoves DEF Pcs
<1> PICK new : new = Document(k)
  OBVIOUS
<1>4. new.id = call[k].id /\ new.body = call[k].arg /\ messages' = messages \cup {new}
  BY <1>2 DEF Document
<1>5. /\ \A t : Said(t)' <=> Said(t) \/ t = new.body
      /\ \A t : Credited(t)' => Credited(t) \/ t = new.body
      /\ messages \subseteq messages'
  BY <1>2, <1>4 DEF Said, Credited
<1>6. \A j \in Calls : \A t : Carries(j, t)' => Carries(j, t) /\ j # k
  BY <1>3 DEF Carries
<1>7. Carries(k, new.body)
  BY <1>2, <1>4 DEF Carries, At
<1>8. ASSUME NEW t \in Texts \ unanswered, t = new.body
      PROVE  /\ k \in SendSlots /\ submission[k].text = t
             /\ submission[k].pc \in {"send", "resend"} /\ ~Credited(t) /\ input # t
             /\ \A j \in SendSlots : submission[j].text = t => j = k
             /\ \A j \in Calls : Carries(j, t) => j = k
  <2>1. TextOnce(t) /\ Carries(k, t)
    BY <1>7, <1>8 DEF TextInv
  <2> HIDE DEF Carries, Said, Credited
  <2>2. QED
    BY <2>1 DEF TextOnce
<1>9. ASSUME NEW t \in Texts \ unanswered'
      PROVE  TextOnce(t)'
  <2>1. TextOnce(t) /\ t \in Texts \ unanswered
    BY <1>2, <1>9 DEF TextInv
  <2>2. CASE t = new.body
    <3>1. /\ submission[k].pc \in {"send", "resend"} /\ ~Credited(t) /\ input # t
          /\ \A j \in SendSlots : submission[j].text = t => j = k
          /\ \A j \in Calls : Carries(j, t) => j = k
      BY <1>8, <2>1, <2>2
    <3>2. \A j \in Calls : ~Carries(j, t)'
      BY <1>6, <3>1
    <3> HIDE DEF Carries, Said, Credited
    <3>3. QED
      BY <1>2, <3>1, <3>2 DEF TextOnce
  <2>3. CASE t # new.body
    <3> HIDE DEF Carries, Said, Credited
    <3>2. QED
      BY <1>2, <1>5, <1>6, <2>1, <2>3 DEF TextOnce
  <2>4. QED
    BY <2>2, <2>3
<1>10. ASSUME NEW t \in Texts \ typed'
       PROVE  Unheard(t)'
  <2>1. Unheard(t)
    BY <1>2, <1>10 DEF TextInv
  <2>2. t # new.body
    BY <1>7, <2>1 DEF Unheard
  <2>3. QED
    BY <1>2, <1>5, <1>6, <2>1, <2>2 DEF Unheard
<1>11. ASSUME NEW j \in SendSlots
       PROVE  Quotes(j)'
  <2>1. Quotes(j) /\ j \in Calls
    BY <1>11, WidgetAssumption DEF TextInv, WidgetAssumption
  <2>2. CASE j = k
    <3>1. Sending(k) /\ (~Stage(k, "none") => call[k].arg = submission[k].text)
      BY <1>2, <2>1, <2>2 DEF Quotes, Sending
    <3>2. \E m \in messages' : m.id = call'[k].id /\ m.body = call'[k].arg
      BY <1>3, <1>4
    <3>3. QED
      BY <1>2, <1>3, <2>2, <3>1, <3>2 DEF Quotes, Stage
  <2>3. CASE j # k
    BY <1>2, <1>3, <1>5, <2>1, <2>3 DEF Quotes, Sending, At, Stage
  <2>4. QED
    BY <2>2, <2>3
<1>12. ASSUME NEW i \in DOMAIN wire'
       PROVE  Truthful(i)'
  <2>1. Truthful(i) /\ SignalOK(i) /\ i \in DOMAIN wire
    BY <1>1, <1>2, <1>12 DEF TextInv, WidgetOK
  <2>2. ASSUME wire[i].kind \in {"closed", "refused"},
               submission[wire[i].to].text \in Texts \ unanswered
        PROVE  submission[wire[i].to].text # new.body
    <3>1. wire[i].to \in SendSlots /\ At(wire[i].to, "idle")
      BY <2>1, <2>2 DEF SignalOK
    <3>2. wire[i].to # k
      BY <1>2, <3>1 DEF At
    <3>3. QED
      BY <1>8, <2>2, <3>1, <3>2
  <2>3. QED
    BY <1>2, <1>5, <2>1, <2>2 DEF Truthful, Stage
<1>13. TextKept'
  BY <1>2, <1>5 DEF TextInv, TextKept
<1>14. QED
  BY <1>9, <1>10, <1>11, <1>12, <1>13 DEF TextInv

\* Nothing new is told to a submission.
SignalsCalm ==
  \A i \in DOMAIN wire' :
    \/ wire'[i].kind \notin {"ack", "closed", "refused"}
    \/ \E j \in DOMAIN wire : wire'[i] = wire[j]

LEMMA QuietKeepsTexts ==
  ASSUME TypeInv, TextInv, \A k \in Calls : CallCalm(k), InputCalm,
         \A k \in SendSlots : Waits(k), UNCHANGED <<messages, misreported, unanswered>>, SignalsCalm
  PROVE  TextInv'
<1>1. ASSUME NEW i \in DOMAIN wire'
      PROVE  Truthful(i)'
  <2>1. CASE wire'[i].kind \notin {"ack", "closed", "refused"}
    BY <2>1 DEF Truthful
  <2>2. ASSUME NEW j \in DOMAIN wire, wire'[i] = wire[j],
               wire'[i].kind \in {"ack", "closed", "refused"}
        PROVE  Truthful(i)'
    <3>1. wire[j].to \in SendSlots
      BY <2>2 DEF TypeInv, WidgetOK, SignalOK
    <3>2. Waits(wire[j].to)
      BY <3>1
    <3>3. /\ submission'[wire[j].to].text = submission[wire[j].to].text
          /\ submission[wire[j].to].pc = "none" => submission'[wire[j].to].pc = "none"
      BY <3>2 DEF Waits
    <3>4. QED
      BY <2>2, <3>3, StillKeeps, TruthKept
  <2>3. QED
    BY <2>1, <2>2 DEF SignalsCalm
<1>2. CallsCalm
  BY CallsStayCalm
<1>3. QED
  BY <1>1, <1>2, StillKeeps, CalmKeepsTexts

\* What is delivered or lost is told no more, and joins tell nothing of texts.
LEMMA WireCalm ==
  ASSUME TypeInv
  PROVE  /\ UNCHANGED wire => SignalsCalm
         /\ wire' = <<>> => SignalsCalm
         /\ \A kind : Arrives(kind) /\ Taken => SignalsCalm
         /\ \A to \in Walkers \cup SendSlots :
              wire' = Append(wire, Signal("joined", to, 0)) => SignalsCalm
<1>1. UNCHANGED wire => SignalsCalm
  BY DEF SignalsCalm
<1>2. wire' = <<>> => SignalsCalm
  BY DEF SignalsCalm
<1>3. ASSUME NEW kind, Arrives(kind), Taken
      PROVE  SignalsCalm
  <2>1. \A i \in DOMAIN wire' : i + 1 \in DOMAIN wire /\ wire'[i] = wire[i + 1]
    BY <1>3, Arriving
  <2>2. QED
    BY <2>1 DEF SignalsCalm
<1>4. ASSUME NEW to \in Walkers \cup SendSlots, wire' = Append(wire, Signal("joined", to, 0))
      PROVE  SignalsCalm
  <2> DEFINE e == Signal("joined", to, 0)
  <2>1. e \in Signals /\ e.kind = "joined" /\ wire \in Seq(Signals)
    BY SignalFields, ConversationsAssumption DEF TypeInv, WidgetOK, Typings
  <2> HIDE DEF e
  <2>2. wire' = Append(wire, e)
    BY <1>4 DEF e
  <2>3. \A i \in DOMAIN wire' : wire'[i] = e \/ (i \in DOMAIN wire /\ wire'[i] = wire[i])
    BY <2>1, <2>2
  <2>4. QED
    BY <2>1, <2>3 DEF SignalsCalm
<1>5. QED
  BY <1>1, <1>2, <1>3, <1>4

\* Steps that leave the composer and the calls alone.
LEMMA ElsewhereKeepsTexts ==
  ASSUME TypeInv, TextInv, UNCHANGED <<input, typed, displaced, unanswered, submission, call, messages, misreported>>,
         SignalsCalm
  PROVE  TextInv'
<1>1. \A k \in Calls : CallCalm(k)
  BY DEF CallCalm
<1>2. InputCalm /\ \A k \in SendSlots : Waits(k)
  BY DEF InputCalm, Waits
<1>3. QED
  BY <1>1, <1>2, QuietKeepsTexts

LEMMA WalksKeepTexts ==
  ASSUME TypeInv, TextInv, NEW w \in Walkers,
         \/ Load(w) \/ WalkFails(w) \/ Connect(w) \/ ServeJoin(w) \/ JoinTimesOut(w)
         \/ JoinAcknowledged(w)
  PROVE  TextInv'
<1>1. /\ UNCHANGED <<input, typed, displaced, unanswered, submission, call, messages, misreported>>
      /\ \/ UNCHANGED wire
         \/ wire' = Append(wire, Signal("joined", w, 0))
         \/ Arrives("joined") /\ Taken
  BY DEF Load, ReadPage, Show, WalkFails, Connect, ServeJoin, JoinTimesOut, JoinAcknowledged,
         store, data, composer, socket
<1>2. SignalsCalm
  BY <1>1, WireCalm
<1>3. QED
  BY <1>1, <1>2, ElsewhereKeepsTexts

LEMMA OthersKeepTexts ==
  ASSUME TypeInv, TextInv, Refused \/ AskDetails \/ DetailsFail \/ Hear
  PROVE  TextInv'
<1>1. /\ UNCHANGED <<input, typed, displaced, unanswered, submission, call, messages, misreported>>
      /\ UNCHANGED wire \/ (Arrives("message") /\ Taken)
  BY DEF Refused, AskDetails, DetailsFail, Hear, store, data, composer, socket
<1>2. SignalsCalm
  BY <1>1, WireCalm
<1>3. QED
  BY <1>1, <1>2, ElsewhereKeepsTexts

\* Steps of calls that are about no text.
LEMMA CallsKeepTexts ==
  ASSUME TypeInv, TextInv, UNCHANGED <<input, typed, displaced, unanswered, submission, messages, misreported>>,
         SignalsCalm, \A k \in Calls : CallCalm(k)
  PROVE  TextInv'
<1>1. InputCalm /\ \A k \in SendSlots : Waits(k)
  BY DEF InputCalm, Waits
<1>2. QED
  BY <1>1, QuietKeepsTexts

LEMMA OpeningKeepsTexts ==
  ASSUME TypeInv, TextInv, OpenSession \/ OpeningFails \/ \E w \in Walkers : ConversationResolved(w)
  PROVE  TextInv'
<1>1. /\ UNCHANGED <<data, socket, composer>>
      /\ \/ Begin(BootSlot, "find", Visitor, NoConv, "resolve", TRUE)
         \/ Forget(BootSlot) \/ UNCHANGED call
  BY DEF OpenSession, OpeningFails, ConversationResolved
<1>2. BootSlot \in Calls /\ StoreInv
  BY WidgetAssumption DEF WidgetAssumption, TypeInv
<1>3. \A k \in Calls : CallCalm(k)
  <2>1. ASSUME Begin(BootSlot, "find", Visitor, NoConv, "resolve", TRUE)
        PROVE  call'[BootSlot].pc = "find" /\ \A k \in Calls \ {BootSlot} : call'[k] = call[k]
    BY <1>2, <2>1, BeginMoves
  <2>2. ASSUME Forget(BootSlot)
        PROVE  call'[BootSlot].pc = "idle" /\ \A k \in Calls \ {BootSlot} : call'[k] = call[k]
    BY <1>2, <2>2, ForgetMoves
  <2>3. QED
    BY <1>1, <2>1, <2>2 DEF CallCalm
<1>4. SignalsCalm
  BY <1>1, WireCalm DEF socket
<1>5. QED
  BY <1>1, <1>3, <1>4, CallsKeepTexts DEF data, composer

LEMMA StaffCallsKeepTexts ==
  ASSUME TypeInv, TextInv, NEW k \in StaffSlots, StaffCalls(k), UNCHANGED widget
  PROVE  TextInv'
<1>1. k \in Calls /\ k \notin SendSlots /\ StoreInv /\ "reply" \notin Texts
  BY WidgetAssumption DEF WidgetAssumption, TypeInv
<1>2. /\ UNCHANGED <<input, typed, displaced, unanswered, submission, wire>>
      /\ UNCHANGED data
  BY DEF widget, composer, socket, StaffCalls
<1>3. /\ call'[k].pc \in {"check", "setStatus"} /\ (call'[k].pc = "check" => call'[k].arg = "reply")
      /\ \A j \in Calls \ {k} : call'[j] = call[j]
  BY <1>1 DEF StaffCalls, Begin, Begun, StoreInv, Typed
<1>4. \A j \in Calls : CallCalm(j)
  BY <1>1, <1>3 DEF CallCalm
<1>5. SignalsCalm
  BY <1>2, WireCalm
<1>6. QED
  BY <1>2, <1>4, <1>5, CallsKeepTexts DEF data

LEMMA BreakingKeepsTexts ==
  ASSUME TypeInv, TextInv, Disconnect \/ Restart
  PROVE  TextInv'
<1>1. Broken /\ WidgetOK /\ UNCHANGED <<messages, misreported>>
  BY DEF Disconnect, Restart, TypeInv, ProcessDies, data
<1>2. /\ UNCHANGED <<input, typed, unanswered, displaced>> /\ wire' = <<>>
      /\ \A k \in SendSlots : /\ submission'[k].pc = submission[k].pc
                              /\ submission'[k].text = submission[k].text
  BY <1>1, BrokenMoves
<1>3. \A k \in Calls : CallCalm(k)
  <2>1. CASE Disconnect
    BY <2>1, IdleCall DEF Disconnect, CallCalm
  <2>2. CASE Restart
    <3>1. ASSUME NEW k \in Calls
          PROVE  call'[k].pc \in {"answered", "idle"}
      BY <2>2, IdleCall DEF Restart, ProcessDies, Idle
    <3>2. QED
      BY <3>1 DEF CallCalm
  <2>3. QED
    BY <2>1, <2>2
<1>4. SignalsCalm
  BY <1>2, WireCalm
<1>5. InputCalm /\ \A k \in SendSlots : Waits(k)
  BY <1>2 DEF InputCalm, Waits
<1>6. QED
  BY <1>1, <1>2, <1>3, <1>4, <1>5, QuietKeepsTexts

LEMMA ServerStepKeepsTexts ==
  ASSUME TypeInv, TextInv, NEW k \in Calls, ServerStep(k)
  PROVE  TextInv'
<1>1. CASE Insert(k)
  BY <1>1, InsertKeepsTexts DEF ServerStep
<1>2. CASE ~Insert(k)
  <2>1. Operation(k) /\ UNCHANGED widget /\ UNCHANGED <<messages, misreported>> /\ ~At(k, "insert")
    BY <1>2 DEF ServerStep, SendStep, Operation, Find, Create, FindAgain, AdmitSend, Touch,
                TouchFails, SetStatus, SetStatusReplyLost, AnnounceStatus, data, At
  <2>2. \A j \in Calls : CallCalm(j)
    <3>1. StoreInv
      BY DEF TypeInv
    <3>2. QED
      BY <2>1, <3>1, OperationSends DEF CallCalm, At
  <2>3. /\ UNCHANGED <<input, typed, displaced, unanswered, submission, wire>>
    BY <2>1 DEF widget, composer, socket
  <2>4. SignalsCalm
    BY <2>3, WireCalm
  <2>5. QED
    BY <2>1, <2>2, <2>3, <2>4, CallsKeepTexts
<1>3. QED
  BY <1>1, <1>2

\* What an operation that answers adds to the wire.
Adds(k, kind, i, heard) ==
  wire' = wire \o (IF heard THEN <<Signal("message", "room", i)>> ELSE <<>>)
               \o Answering(k, kind, i)

LEMMA AnswersCarried ==
  ASSUME TypeInv, NEW k \in Calls, NEW kind \in {"ack", "closed", "refused"},
         NEW i \in 0..MaxMessages, NEW heard \in BOOLEAN, Adds(k, kind, i, heard)
  PROVE  \A n \in DOMAIN wire' :
           \/ n \in DOMAIN wire /\ wire'[n] = wire[n]
           \/ wire'[n].kind = "message"
           \/ /\ wire'[n].kind = kind /\ wire'[n].to = k /\ wire'[n].id = i
              /\ k \in SendSlots /\ submission[k].pc \in {"send", "resend"}
<1> DEFINE a == Signal("message", "room", i)
           b == Signal(kind, k, i)
           x == IF heard THEN <<a>> ELSE <<>>
           y == Answering(k, kind, i)
<1>1. wire \in Seq(Signals)
  BY DEF TypeInv, WidgetOK, Typings
<1>2. a \in Signals /\ a.kind = "message"
  BY DEF Signal, Signals
<1>3. CASE y = <<>>
  <2>1. x \in {<<>>, <<a>>} /\ y \in {<<>>, <<a>>} /\ wire' = wire \o x \o y /\ y # <<a>>
    BY <1>3 DEF Adds
  <2> HIDE DEF a, x, y
  <2>2. Carries2(wire, a, a, x, y, wire \o x \o y)
    BY <1>1, <1>2, <2>1, CarryingTwo
  <2>3. QED
    BY <1>2, <2>1, <2>2 DEF Carries2
<1>4. CASE y # <<>>
  <2>1. /\ y = <<b>> /\ k \in SendSlots /\ submission[k].pc \in {"send", "resend"}
    BY <1>4, AnswersOnly
  <2>2. b \in Signals /\ b.kind = kind /\ b.to = k /\ b.id = i
    BY <2>1, SignalFields
  <2>3. x \in {<<>>, <<a>>} /\ y \in {<<>>, <<b>>} /\ wire' = wire \o x \o y
    BY <2>1 DEF Adds
  <2> HIDE DEF a, b, x, y
  <2>4. Carries2(wire, a, b, x, y, wire \o x \o y)
    BY <1>1, <1>2, <2>2, <2>3, CarryingTwo
  <2>5. QED
    BY <1>2, <2>1, <2>2, <2>3, <2>4 DEF Carries2
<1>5. QED
  BY <1>3, <1>4

LEMMA AnsweringKeepsTexts ==
  ASSUME TypeInv, TextInv, NEW k \in Calls, Operation(k), UNCHANGED composer,
         Keeps, call'[k].pc \in {"idle", "answered"},
         NEW kind \in {"ack", "closed", "refused"}, NEW i \in 0..MaxMessages,
         NEW heard \in BOOLEAN, Adds(k, kind, i, heard),
         k \in SendSlots /\ submission[k].pc \in {"send", "resend"} =>
           /\ kind # "ack" /\ submission[k].text \in Texts \ unanswered =>
                ~Credited(submission[k].text)
           /\ kind = "ack" => \E m \in messages : m.id = i /\ m.body = submission[k].text
  PROVE  TextInv'
<1>0. \A n \in DOMAIN wire' :
        \/ n \in DOMAIN wire /\ wire'[n] = wire[n]
        \/ wire'[n].kind = "message"
        \/ /\ wire'[n].kind = kind /\ wire'[n].to = k /\ wire'[n].id = i
           /\ k \in SendSlots /\ submission[k].pc \in {"send", "resend"}
  BY AnswersCarried
<1>1. ASSUME NEW n \in DOMAIN wire'
      PROVE  Truthful(n)'
  <2>1. CASE n \in DOMAIN wire /\ wire'[n] = wire[n]
    BY <2>1, TruthKept DEF composer
  <2>2. CASE wire'[n].kind = "message"
    BY <2>2 DEF Truthful
  <2>3. CASE /\ wire'[n].kind = kind /\ wire'[n].to = k /\ wire'[n].id = i
             /\ k \in SendSlots /\ submission[k].pc \in {"send", "resend"}
    <3>1. CASE kind # "ack"
      BY <2>3, <3>1 DEF Truthful, composer, Keeps
    <3>2. CASE kind = "ack"
      BY <2>3, <3>2 DEF Truthful, composer, Keeps
    <3>3. QED
      BY <3>1, <3>2
  <2>4. QED
    BY <1>0, <2>1, <2>2, <2>3
<1>2. \A j \in Calls : CallCalm(j)
  <2>1. StoreInv
    BY DEF TypeInv
  <2>2. QED
    BY <2>1, OperationSends DEF CallCalm
<1>3. CallsCalm
  BY <1>2, CallsStayCalm
<1>4. InputCalm /\ (\A j \in SendSlots : Waits(j)) /\ UNCHANGED unanswered
  BY DEF InputCalm, Waits, composer
<1>5. QED
  BY <1>1, <1>3, <1>4, CalmKeepsTexts

LEMMA PublishToRoomKeepsTexts ==
  ASSUME TypeInv, TextInv, NEW k \in Calls, PublishToRoom(k)
  PROVE  TextInv'
<1>1. WidgetOK /\ StoreInv /\ CallsOK /\ Typed
  BY DEF TypeInv, WidgetOK, StoreInv
<1>2. /\ Operation(k) /\ At(k, "publish") /\ Ends(k, call[k].id)
      /\ UNCHANGED composer /\ UNCHANGED <<messages, misreported>>
      /\ wire' = wire
           \o (IF call[k].conv \in room THEN <<Signal("message", "room", call[k].id)>> ELSE <<>>)
           \o Answering(k, "ack", call[k].id)
  BY DEF PublishToRoom, Operation, Publish
<1>3. call[k].id \in 0..MaxMessages /\ call[k].id \in Nat
  BY <1>1, <1>2 DEF Typed, CallRecords
<1>4. call'[k].pc \in {"idle", "answered"}
  BY <1>1, <1>2, <1>3, EndsMoves
<1>5. ASSUME k \in SendSlots, submission[k].pc \in {"send", "resend"}
      PROVE  \E m \in messages : m.id = call[k].id /\ m.body = submission[k].text
  <2>1. Quotes(k)
    BY <1>5 DEF TextInv
  <2>2. Sending(k) /\ ~Stage(k, "none") /\ call[k].pc \in Stored
    BY <1>2, <1>5 DEF At, Sending, Stage, Stored
  <2>3. QED
    BY <2>1, <2>2 DEF Quotes
<1> DEFINE heard == call[k].conv \in room
           i == call[k].id
<1>6. heard \in BOOLEAN /\ Adds(k, "ack", i, heard)
  BY <1>2 DEF Adds
<1> HIDE DEF heard
<1>7. QED
  BY <1>2, <1>3, <1>4, <1>5, <1>6, StillKeeps, AnsweringKeepsTexts

\* What an insertion reported as failed stores is stored to nobody's knowledge.
LEMMA LostKeeps ==
  ASSUME TextInv, NEW k \in Calls, InsertReplyLost(k)
  PROVE  Keeps
<1> PICK new : new = Document(k)
  OBVIOUS
<1>1. /\ new.id = call[k].id /\ new.body = call[k].arg /\ messages' = messages \cup {new}
      /\ misreported' = misreported \cup {new.id} /\ call[k].pc = "insert"
  BY DEF InsertReplyLost, Document, At
<1>2. \A t \in Texts : Credited(t)' => Credited(t)
  BY <1>1 DEF Credited
<1>3. ASSUME NEW t \in Texts \ typed, Said(t)'
      PROVE  Said(t)
  <2>1. ~Carries(k, t)
    BY <1>3 DEF TextInv, Unheard
  <2>2. new.body # t
    BY <1>1, <2>1 DEF Carries
  <2>3. QED
    BY <1>1, <1>3, <2>2 DEF Said
<1>4. QED
  BY <1>1, <1>2, <1>3 DEF Keeps

LEMMA AnswerRefusalKeepsTexts ==
  ASSUME TypeInv, TextInv, NEW k \in Calls, AnswerRefusal(k)
  PROVE  TextInv'
<1>1. WidgetOK /\ StoreInv /\ CallsOK /\ Typed
  BY DEF TypeInv, WidgetOK, StoreInv
<1>2. PICK kind \in {"closed", "refused"} : wire' = wire \o Answering(k, kind, 0)
  BY DEF AnswerRefusal
<1>3. /\ Operation(k) /\ Ends(k, Failed) /\ call[k].pc \in {"check", "insert"}
      /\ UNCHANGED composer
      /\ \/ UNCHANGED <<messages, misreported>>
         \/ InsertReplyLost(k)
  BY DEF AnswerRefusal, Operation, RefuseSend, InsertFails, InsertReplyLost, At, data
<1>4. call'[k].pc \in {"idle", "answered"}
  BY <1>1, <1>3, EndsMoves DEF Failed
<1>5. Adds(k, kind, 0, FALSE)
  <2>1. wire \o <<>> = wire
    BY <1>1 DEF WidgetOK, Typings
  <2>2. QED
    BY <1>2, <2>1 DEF Adds
<1>6. 0 \in 0..MaxMessages /\ FALSE \in BOOLEAN
  BY ConversationsAssumption
<1>7. ASSUME k \in SendSlots, submission[k].pc \in {"send", "resend"},
             submission[k].text \in Texts \ unanswered
      PROVE  ~Credited(submission[k].text)
  <2>1. Quotes(k) /\ TextOnce(submission[k].text)
    BY <1>7 DEF TextInv
  <2>2. Carries(k, submission[k].text)
    BY <1>3, <1>7, <2>1 DEF Quotes, Sending, At, Stage, Carries
  <2> HIDE DEF Carries, Said, Credited
  <2>3. QED
    BY <2>1, <2>2 DEF TextOnce
<1>8. Keeps
  <2>1. CASE UNCHANGED <<messages, misreported>>
    BY <2>1, StillKeeps
  <2>2. CASE InsertReplyLost(k)
    BY <2>2, LostKeeps
  <2>3. QED
    BY <1>3, <2>1, <2>2
<1>9. QED
  BY <1>3, <1>4, <1>5, <1>6, <1>7, <1>8, AnsweringKeepsTexts

\* A submission is over, and what was under way to others is still true.
LEMMA EndedKeepsTexts ==
  ASSUME TypeInv, TextInv, NEW k \in SendSlots, Finish(k), submission[k].pc # "none",
         UNCHANGED <<messages, misreported, typed>>, unanswered \subseteq unanswered',
         displaced \subseteq displaced', \A j \in Calls : CallCalm(j), SignalsCalm,
         submission[k].text \notin unanswered' => call'[k].pc \notin {"check", "insert"},
         NEW t \in Texts, t = submission[k].text,
         \/ input' = input /\ (Said(t) \/ t \in displaced')
         \/ /\ input' = t /\ input \in displaced' \cup {NoText, t}
            /\ t \notin unanswered' => ~Credited(t)
  PROVE  TextInv'
<1>1. CallsCalm
  BY CallsStayCalm
<1>2. /\ submission'[k] = NoSubmission
      /\ \A j \in SendSlots \ {k} : submission'[j] = submission[j]
  BY FinishMoves
<1>3. ASSUME NEW i \in DOMAIN wire'
      PROVE  Truthful(i)'
  <2>1. CASE wire'[i].kind \notin {"ack", "closed", "refused"}
    BY <2>1 DEF Truthful
  <2>2. ASSUME NEW j \in DOMAIN wire, wire'[i] = wire[j],
               wire'[i].kind \in {"ack", "closed", "refused"}
        PROVE  Truthful(i)'
    <3>1. wire[j].to \in SendSlots
      BY <2>2 DEF TypeInv, WidgetOK, SignalOK
    <3>2. \/ submission'[wire[j].to] = NoSubmission
          \/ submission'[wire[j].to] = submission[wire[j].to]
      BY <1>2, <3>1
    <3>3. QED
      BY <2>2, <3>2, StillKeeps, TruthKept
  <2>3. QED
    BY <2>1, <2>2 DEF SignalsCalm
<1>4. ASSUME t \notin unanswered', NEW j \in Calls, Carries(j, t)'
      PROVE  FALSE
  <2>1. Carries(j, t) /\ call'[j].pc \in {"check", "insert"}
    BY <1>1, <1>4 DEF CallsCalm, Carries
  <2>2. TextOnce(t)
    BY <1>4 DEF TextInv
  <2>3. j = k
    BY <2>1, <2>2 DEF TextOnce
  <2>4. QED
    BY <1>4, <2>1, <2>3
<1>5. Ended(k)
  BY <1>4 DEF Ended
<1>6. QED
  BY <1>1, <1>2, <1>3, <1>5, EndingKeepsTexts

LEMMA RestoreKeepsTexts ==
  ASSUME TypeInv, TextInv, NEW k \in SendSlots, Restore(k), submission[k].pc # "none",
         UNCHANGED <<messages, misreported>>, unanswered \subseteq unanswered',
         \A j \in Calls : CallCalm(j), SignalsCalm,
         submission[k].text \notin unanswered' =>
           call'[k].pc \notin {"check", "insert"} /\ ~Credited(submission[k].text)
  PROVE  TextInv'
<1>1. submission[k].text \in Texts
  BY DEF TypeInv, WidgetOK, StageOK
<1>2. PICK t \in Texts : t = submission[k].text
  BY <1>1
<1>3. Finish(k) /\ UNCHANGED typed
  BY DEF Restore
<1>4. /\ displaced \subseteq displaced'
      /\ \/ input' = input /\ t \in displaced'
         \/ input' = t /\ input \in displaced' \cup {NoText, t}
  BY <1>2 DEF Restore
<1>5. t \notin unanswered' => ~Credited(t)
  BY <1>2
<1>6. QED
  BY <1>2, <1>3, <1>4, <1>5, EndedKeepsTexts

LEMMA TypeKeepsTexts ==
  ASSUME TypeInv, TextInv, NEW t \in Texts, Type(t)
  PROVE  TextInv'
<1>1. /\ UNCHANGED <<messages, misreported, submission, call, wire, unanswered, displaced>>
      /\ input = NoText /\ t \notin typed /\ input' = t /\ typed' = typed \cup {t}
  BY DEF Type, store, data, socket
<1>2. NoText \notin Texts
  BY WidgetAssumption DEF WidgetAssumption
<1>3. Unheard(t)
  BY <1>1 DEF TextInv
<1>4. ASSUME NEW u \in Texts \ unanswered'
      PROVE  TextOnce(u)'
  <2>1. TextOnce(u) /\ input # u
    BY <1>1, <1>2, <1>4 DEF TextInv
  <2>2. u = t => ~Credited(u) /\ (\A k \in SendSlots : submission[k].text # u)
                 /\ \A k \in Calls : ~Carries(k, u)
    BY <1>3 DEF Unheard, Said, Credited
  <2>3. QED
    BY <1>1, <2>1, <2>2 DEF TextOnce, Credited, Carries
<1>5. ASSUME NEW u \in Texts \ typed'
      PROVE  Unheard(u)'
  BY <1>1, <1>5 DEF TextInv, Unheard, Said, Carries
<1>6. \A k \in SendSlots : Quotes(k)'
  BY <1>1 DEF TextInv, Quotes, Sending, At, Stage
<1>7. \A i \in DOMAIN wire' : Truthful(i)'
  BY <1>1 DEF TextInv, Truthful, Stage, Credited
<1>8. TextKept'
  BY <1>1, <1>2 DEF TextInv, TextKept, TypeInv, WidgetOK, Typings
<1>9. QED
  BY <1>4, <1>5, <1>6, <1>7, <1>8 DEF TextInv

LEMMA SubmitKeepsTexts ==
  ASSUME TypeInv, TextInv, NEW k \in SendSlots, Submit(k)
  PROVE  TextInv'
<1>1. WidgetOK /\ StoreInv /\ k \in Calls /\ NoText \notin Texts
  BY WidgetAssumption DEF TypeInv, WidgetAssumption
<1>2. /\ UNCHANGED <<messages, misreported, typed, unanswered, displaced>>
      /\ input # NoText /\ input' = NoText
      /\ Stage(k, "none") /\ At(k, "idle") /\ (\A i \in DOMAIN wire : wire[i].to # k)
      /\ Emit(k, thread, input)
  BY DEF Submit, Free, data
<1>3. PICK t0 \in Texts : t0 = input
  BY <1>1, <1>2 DEF WidgetOK, Typings
<1> DEFINE v == [pc |-> "send", text |-> input, conv |-> thread, live |-> TRUE, own |-> TRUE]
<1>4. v.pc = "send" /\ v.text = t0
  BY <1>3
<1>5. submission' = [submission EXCEPT ![k] = v]
  BY DEF Submit
<1> HIDE DEF v
<1>6. /\ submission'[k] = v /\ \A j \in SendSlots \ {k} : submission'[j] = submission[j]
  BY <1>1, <1>5 DEF WidgetOK, Typings
<1>7. submission[k].text = NoText
  BY <1>1, <1>2, NoSubmissionTyped DEF WidgetOK, StageOK, Stage
<1>8. /\ \A j \in Calls \ {k} : call'[j] = call[j]
      /\ \/ call'[k].pc = "check" /\ call'[k].arg = t0 /\ UNCHANGED wire
         \/ call'[k] = call[k] /\ wire' = Append(wire, Signal("refused", k, 0))
  <2>1. CASE thread \in room
    <3>1. Begin(k, "check", Visitor, thread, input, FALSE) /\ UNCHANGED wire
      BY <1>2, <2>1 DEF Emit
    <3>2. call'[k].pc = "check" /\ call'[k].arg = input
          /\ \A j \in Calls \ {k} : call'[j] = call[j]
      BY <1>1, <3>1, BeginMoves
    <3>3. QED
      BY <1>3, <3>1, <3>2
  <2>2. CASE thread \notin room
    BY <1>2, <2>2 DEF Emit
  <2>3. QED
    BY <2>1, <2>2
<1>9. t0 \notin unanswered =>
        /\ ~Credited(t0) /\ \A j \in Calls : ~Carries(j, t0)
        /\ input' # t0 /\ \A j \in SendSlots \ {k} : submission[j].text # t0
  <2>1. t0 \notin unanswered => TextOnce(t0)
    BY DEF TextInv
  <2> HIDE DEF Said, Credited, Carries
  <2>2. QED
    BY <1>1, <1>2, <1>3, <2>1 DEF TextOnce
<1>10. ASSUME NEW i \in DOMAIN wire'
       PROVE  Truthful(i)'
  <2>1. CASE i \in DOMAIN wire /\ wire'[i] = wire[i]
    <3>1. wire[i].kind \in {"ack", "closed", "refused"} =>
            submission'[wire[i].to] = submission[wire[i].to]
      BY <1>1, <1>2, <1>6, <2>1 DEF WidgetOK, SignalOK
    <3>2. CASE wire[i].kind \in {"ack", "closed", "refused"}
      BY <1>2, <2>1, <3>1, <3>2, StillKeeps, TruthKept
    <3>3. CASE wire[i].kind \notin {"ack", "closed", "refused"}
      BY <2>1, <3>3 DEF Truthful
    <3>4. QED
      BY <3>2, <3>3
  <2>2. CASE wire'[i] = Signal("refused", k, 0)
    <3>1. wire'[i].kind = "refused" /\ wire'[i].to = k
      BY <2>2 DEF Signal
    <3>2. submission'[k].text = t0 /\ (t0 \notin unanswered' => ~Credited(t0)')
      BY <1>2, <1>4, <1>6, <1>9 DEF Credited
    <3>3. QED
      BY <3>1, <3>2 DEF Truthful
  <2>3. QED
    <3>1. CASE UNCHANGED wire
      BY <2>1, <3>1
    <3>2. CASE wire' = Append(wire, Signal("refused", k, 0))
      <4> DEFINE e == Signal("refused", k, 0)
      <4>1. e \in Signals /\ wire \in Seq(Signals)
        BY <1>1, SignalFields, ConversationsAssumption DEF WidgetOK, Typings
      <4> HIDE DEF e
      <4>2. wire' = Append(wire, e)
        BY <3>2 DEF e
      <4>3. wire'[i] = e \/ (i \in DOMAIN wire /\ wire'[i] = wire[i])
        BY <4>1, <4>2
      <4>4. QED
        BY <2>1, <2>2, <4>3 DEF e
    <3>3. QED
      BY <1>8, <3>1, <3>2
<1>11. QED
  BY <1>2, <1>3, <1>4, <1>6, <1>7, <1>8, <1>9, <1>10, EmittingKeepsTexts

LEMMA GiveUpKeepsTexts ==
  ASSUME TypeInv, TextInv, NEW k \in SendSlots, GiveUp(k)
  PROVE  TextInv'
<1>1. /\ UNCHANGED <<messages, misreported, call, wire>> /\ Restore(k) /\ submission[k].pc # "none"
      /\ unanswered' = unanswered \cup {submission[k].text}
  BY DEF GiveUp, store, data, socket
<1>2. (\A j \in Calls : CallCalm(j)) /\ SignalsCalm
  BY <1>1, WireCalm DEF CallCalm
<1>3. QED
  BY <1>1, <1>2, RestoreKeepsTexts

LEMMA ServeRejoinKeepsTexts ==
  ASSUME TypeInv, TextInv, NEW k \in SendSlots, ServeRejoin(k)
  PROVE  TextInv'
<1>1. /\ UNCHANGED <<messages, misreported, call, input, typed, displaced, unanswered>>
      /\ Stage(k, "rejoin") /\ wire' = Append(wire, Signal("joined", k, 0))
      /\ submission' = [submission EXCEPT ![k].pc = "rejoined"]
  BY DEF ServeRejoin, store, data
<1>2. WidgetOK /\ StageOK(k) /\ At(k, "idle")
  BY <1>1 DEF TypeInv, WidgetOK, StageOK, Stage
<1>3. /\ submission'[k].pc = "rejoined" /\ submission'[k].text = submission[k].text
      /\ \A j \in SendSlots \ {k} : submission'[j] = submission[j]
  BY <1>1, <1>2, StageMoves DEF Stages
<1>4. submission[k].text \in Texts \ unanswered => ~Credited(submission[k].text)
  <2>1. submission[k].text \in Texts \ unanswered => TextOnce(submission[k].text)
    BY DEF TextInv
  <2>2. QED
    BY <1>1, <2>1 DEF TextOnce, Stage
<1>5. \A j \in SendSlots : Waits(j)
  BY <1>1, <1>2, <1>3, <1>4 DEF Waits, Stage, Sending, At
<1>6. (\A j \in Calls : CallCalm(j)) /\ SignalsCalm /\ InputCalm
  BY <1>1, WireCalm DEF CallCalm, InputCalm
<1>7. QED
  BY <1>1, <1>5, <1>6, QuietKeepsTexts

\* What a submission that resolves says has not been stored.
LEMMA WaitingUnsaid ==
  ASSUME TextInv, NEW k \in SendSlots, submission[k].pc \in {"resolve", "rejoin", "rejoined"},
         submission[k].text \in Texts \ unanswered
  PROVE  ~Credited(submission[k].text)
<1>1. TextOnce(submission[k].text)
  BY DEF TextInv
<1>2. QED
  BY <1>1 DEF TextOnce

LEMMA RecoveryKeepsTexts ==
  ASSUME TypeInv, TextInv, NEW k \in SendSlots, Recover(k) \/ RecoveryFails(k)
  PROVE  TextInv'
<1>1. /\ UNCHANGED <<messages, misreported, wire, unanswered>> /\ submission[k].pc = "resolve" /\ Forget(k)
      /\ k \in Calls
  BY WidgetAssumption DEF Recover, RecoveryFails, data, socket, Stage, WidgetAssumption
<1>2. /\ call'[k].pc = "idle" /\ \A j \in Calls \ {k} : call'[j] = call[j]
  BY <1>1, ForgetMoves
<1>3. (\A j \in Calls : CallCalm(j)) /\ SignalsCalm
  BY <1>1, <1>2, WireCalm DEF CallCalm
<1>4. submission[k].text \in Texts \ unanswered => ~Credited(submission[k].text)
  BY <1>1, WaitingUnsaid
<1>5. submission[k].text \in Texts /\ submission \in [SendSlots -> Submissions]
  BY <1>1 DEF TypeInv, WidgetOK, StageOK, Typings
<1>6. CASE Restore(k)
  BY <1>1, <1>2, <1>3, <1>4, <1>5, <1>6, RestoreKeepsTexts
<1>7. CASE ~Restore(k)
  <2>1. /\ submission' = [submission EXCEPT ![k].pc = "rejoin", ![k].live = TRUE,
                                            ![k].conv = call[k].answer]
        /\ UNCHANGED <<input, typed, displaced>>
        /\ At(k, "answered") /\ call[k].answer # Failed
    BY <1>7 DEF Recover, RecoveryFails
  <2> DEFINE v == Rejoining(submission[k], call[k].answer)
  <2>2. submission' = [submission EXCEPT ![k] = v]
    BY <2>1 DEF Rejoining
  <2>3. call[k].answer \in 0..MaxConvs
    BY <1>1, <2>1 DEF TypeInv, WidgetOK, CallsOK
  <2>4. v.pc = "rejoin" /\ v.text = submission[k].text
    BY <1>5, <2>3, SubmissionRejoins
  <2> HIDE DEF v
  <2>5. submission'[k] = v /\ \A j \in SendSlots \ {k} : submission'[j] = submission[j]
    BY <1>5, <2>2
  <2>6. \A j \in SendSlots : Waits(j)
    BY <1>1, <1>2, <1>4, <2>4, <2>5 DEF Waits, Sending, At
  <2>7. InputCalm
    BY <2>1 DEF InputCalm
  <2>8. QED
    BY <1>1, <1>3, <2>6, <2>7, QuietKeepsTexts
<1>8. QED
  BY <1>6, <1>7

LEMMA DetailsSavedKeepsTexts ==
  ASSUME TypeInv, TextInv, DetailsSaved
  PROVE  TextInv'
<1>1. /\ UNCHANGED <<messages, misreported, call, wire, typed, unanswered>> /\ input' = NoText
      /\ displaced' = displaced \cup ({input} \ {NoText})
      /\ submission' = [k \in SendSlots |-> [submission[k] EXCEPT !.own = Stage(k, "none")]]
  BY DEF DetailsSaved, store, data, socket
<1>2. ASSUME NEW k \in SendSlots
      PROVE  Waits(k)
  <2>1. submission[k] \in Submissions
    BY DEF TypeInv, WidgetOK, Typings
  <2>2. submission'[k].pc = submission[k].pc /\ submission'[k].text = submission[k].text
    BY <1>1, <2>1 DEF Submissions
  <2>3. QED
    BY <2>2 DEF Waits
<1>3. (\A j \in Calls : CallCalm(j)) /\ SignalsCalm /\ InputCalm
  BY <1>1, WireCalm DEF CallCalm, InputCalm
<1>4. QED
  BY <1>1, <1>2, <1>3, QuietKeepsTexts

LEMMA RejoinAcknowledgedKeepsTexts ==
  ASSUME TypeInv, TextInv, NEW k \in SendSlots, RejoinAcknowledged(k)
  PROVE  TextInv'
<1>1. WidgetOK /\ StoreInv /\ k \in Calls
  BY WidgetAssumption DEF TypeInv, WidgetAssumption
<1>2. /\ UNCHANGED <<messages, misreported, input, typed, unanswered, displaced>>
      /\ Arrives("joined") /\ Taken
  BY DEF RejoinAcknowledged, data
<1>3. SignalsCalm
  BY <1>2, WireCalm
<1>4. CASE Stage(k, "rejoined")
  <2>1. /\ Begin(k, "check", Visitor, submission[k].conv, submission[k].text, FALSE)
        /\ submission' = [submission EXCEPT ![k].pc = "resend"]
    BY <1>4 DEF RejoinAcknowledged
  <2>2. submission[k].text \in Texts /\ submission[k].pc = "rejoined"
    BY <1>1, <1>4 DEF WidgetOK, StageOK, Stage
  <2>3. PICK t0 \in Texts : t0 = submission[k].text
    BY <2>2
  <2>4. /\ call'[k].pc = "check" /\ call'[k].arg = t0
        /\ \A j \in Calls \ {k} : call'[j] = call[j]
    BY <1>1, <2>1, <2>3 DEF Begin, Begun, StoreInv, Typed
  <2>5. /\ submission'[k].pc = "resend" /\ submission'[k].text = t0
        /\ \A j \in SendSlots \ {k} : submission'[j] = submission[j]
    BY <1>1, <2>1, <2>3, StageMoves DEF Stages
  <2>6. t0 \notin unanswered =>
          /\ ~Credited(t0) /\ \A j \in Calls : ~Carries(j, t0)
          /\ input' # t0 /\ \A j \in SendSlots \ {k} : submission[j].text # t0
    <3>1. t0 \notin unanswered => TextOnce(t0)
      BY DEF TextInv
    <3>2. t0 \notin unanswered => ~Credited(t0)
      BY <2>2, <2>3, <3>1 DEF TextOnce
    <3>3. t0 \notin unanswered => \A j \in Calls : ~Carries(j, t0)
      BY <2>2, <2>3, <3>1 DEF TextOnce
    <3>4. t0 \notin unanswered => input # t0 /\ \A j \in SendSlots \ {k} : submission[j].text # t0
      BY <2>2, <2>3, <3>1 DEF TextOnce
    <3>5. QED
      BY <1>2, <3>2, <3>3, <3>4
  <2>7. ASSUME NEW i \in DOMAIN wire'
        PROVE  Truthful(i)'
    <3>1. CASE wire'[i].kind \notin {"ack", "closed", "refused"}
      BY <3>1 DEF Truthful
    <3>2. ASSUME NEW j \in DOMAIN wire, wire'[i] = wire[j],
                 wire'[i].kind \in {"ack", "closed", "refused"}
          PROVE  Truthful(i)'
      <4>1. wire[j].to \in SendSlots
        BY <1>1, <3>2 DEF WidgetOK, SignalOK
      <4>2. /\ submission'[wire[j].to].text = submission[wire[j].to].text
            /\ submission[wire[j].to].pc = "none" => submission'[wire[j].to].pc = "none"
        BY <2>2, <2>3, <2>5, <4>1
      <4>3. QED
        BY <1>2, <3>2, <4>2, StillKeeps, TruthKept
    <3>3. QED
      BY <1>3, <3>1, <3>2 DEF SignalsCalm
  <2>8. QED
    BY <1>2, <2>3, <2>4, <2>5, <2>6, <2>7, EmittingKeepsTexts
<1>5. CASE ~Stage(k, "rejoined")
  <2>1. UNCHANGED <<call, submission>>
    BY <1>5 DEF RejoinAcknowledged
  <2>2. QED
    BY <1>2, <1>3, <2>1, ElsewhereKeepsTexts
<1>6. QED
  BY <1>4, <1>5

\* What arrives for a submission is true.
LEMMA ArrivingTruth ==
  ASSUME TypeInv, TextInv, NEW kind, Arrives(kind), Taken, NEW k \in SendSlots, Head(wire).to = k
  PROVE  /\ kind \in {"closed", "refused"} /\ submission[k].text \in Texts \ unanswered
              => ~Credited(submission[k].text)
         /\ kind = "ack" /\ ~Stage(k, "none") => Said(submission[k].text)
         /\ At(k, "idle") /\ SignalsCalm
<1>1. /\ 1 \in DOMAIN wire /\ Head(wire) = wire[1] /\ wire[1].kind = kind /\ wire[1].to = k
  BY Arriving
<1>2. Truthful(1)
  BY <1>1 DEF TextInv
<1>3. At(k, "idle")
  BY ArrivesFor
<1>4. SignalsCalm
  BY WireCalm
<1>5. QED
  BY <1>1, <1>2, <1>3, <1>4 DEF Truthful, Said

LEMMA SendAcknowledgedKeepsTexts ==
  ASSUME TypeInv, TextInv, NEW k \in SendSlots, SendAcknowledged(k)
  PROVE  TextInv'
<1>1. /\ UNCHANGED <<call, messages, misreported>> /\ Arrives("ack") /\ Taken /\ Head(wire).to = k
  BY DEF SendAcknowledged, store, data
<1>2. /\ ~Stage(k, "none") => Said(submission[k].text)
      /\ At(k, "idle") /\ SignalsCalm
  BY <1>1, ArrivingTruth
<1>3. CASE Stage(k, "none")
  <2>1. UNCHANGED composer
    BY <1>3 DEF SendAcknowledged
  <2>2. QED
    BY <1>1, <1>2, <2>1, ElsewhereKeepsTexts DEF composer
<1>4. CASE ~Stage(k, "none")
  <2>1. Finish(k) /\ UNCHANGED <<input, typed, unanswered, displaced>>
    BY <1>4 DEF SendAcknowledged, Sent
  <2>2. submission[k].pc # "none" /\ submission[k].text \in Texts
    BY <1>4 DEF TypeInv, WidgetOK, StageOK, Stage
  <2>3. PICK t \in Texts : t = submission[k].text
    BY <2>2
  <2>4. Said(t) /\ \A j \in Calls : CallCalm(j)
    BY <1>1, <1>2, <1>4, <2>3 DEF CallCalm
  <2>5. call'[k].pc \notin {"check", "insert"}
    BY <1>1, <1>2 DEF At
  <2>6. QED
    BY <1>1, <1>2, <2>1, <2>2, <2>3, <2>4, <2>5, EndedKeepsTexts
<1>5. QED
  BY <1>3, <1>4

LEMMA ClosedAnswerKeepsTexts ==
  ASSUME TypeInv, TextInv, NEW k \in SendSlots, ClosedAnswer(k)
  PROVE  TextInv'
<1>1. WidgetOK /\ StoreInv /\ k \in Calls
  BY WidgetAssumption DEF TypeInv, WidgetAssumption
<1>2. /\ UNCHANGED <<messages, misreported, unanswered>> /\ Arrives("closed") /\ Taken /\ Head(wire).to = k
  BY DEF ClosedAnswer, data
<1>3. /\ submission[k].text \in Texts \ unanswered => ~Credited(submission[k].text)
      /\ At(k, "idle") /\ SignalsCalm
  BY <1>2, ArrivingTruth
<1>4. CASE Stage(k, "send")
  <2>1. /\ Begin(k, "find", Visitor, NoConv, "resolve", TRUE)
        /\ submission' = [submission EXCEPT ![k].pc = "resolve"]
        /\ UNCHANGED <<input, typed, displaced>>
    BY <1>4 DEF ClosedAnswer, Stage
  <2>2. call'[k].pc = "find" /\ \A j \in Calls \ {k} : call'[j] = call[j]
    BY <1>1, <2>1, BeginMoves
  <2>3. /\ submission'[k].pc = "resolve" /\ submission'[k].text = submission[k].text
        /\ \A j \in SendSlots \ {k} : submission'[j] = submission[j]
    BY <1>1, <2>1, StageMoves DEF Stages
  <2>4. \A j \in SendSlots : Waits(j)
    BY <1>3, <1>4, <2>2, <2>3 DEF Waits, Stage, Sending, At
  <2>5. (\A j \in Calls : CallCalm(j)) /\ InputCalm
    BY <2>1, <2>2 DEF CallCalm, InputCalm
  <2>6. QED
    BY <1>2, <1>3, <2>4, <2>5, QuietKeepsTexts
<1>5. CASE Stage(k, "resend")
  <2>1. Restore(k) /\ UNCHANGED call /\ submission[k].pc # "none"
    BY <1>5 DEF ClosedAnswer, Stage
  <2>2. submission[k].text \in Texts
    BY <1>1, <2>1 DEF WidgetOK, StageOK
  <2>3. \A j \in Calls : CallCalm(j)
    BY <2>1 DEF CallCalm
  <2>4. submission[k].text \notin unanswered' =>
           call'[k].pc \notin {"check", "insert"} /\ ~Credited(submission[k].text)
    BY <1>2, <1>3, <2>1, <2>2 DEF At
  <2>5. QED
    BY <1>2, <1>3, <2>1, <2>3, <2>4, RestoreKeepsTexts
<1>6. CASE ~Stage(k, "send") /\ ~Stage(k, "resend")
  <2>1. UNCHANGED <<call, composer>>
    BY <1>6 DEF ClosedAnswer, Stage
  <2>2. QED
    BY <1>2, <1>3, <2>1, ElsewhereKeepsTexts DEF composer
<1>7. QED
  BY <1>4, <1>5, <1>6

LEMMA RefusedAnswerKeepsTexts ==
  ASSUME TypeInv, TextInv, NEW k \in SendSlots, RefusedAnswer(k)
  PROVE  TextInv'
<1>1. /\ UNCHANGED <<messages, misreported, call>> /\ Arrives("refused") /\ Taken /\ Head(wire).to = k
  BY DEF RefusedAnswer, store, data
<1>2. /\ submission[k].text \in Texts \ unanswered => ~Credited(submission[k].text)
      /\ At(k, "idle") /\ SignalsCalm
  BY <1>1, ArrivingTruth
<1>3. CASE Stage(k, "none")
  <2>1. UNCHANGED composer
    BY <1>3 DEF RefusedAnswer
  <2>2. QED
    BY <1>1, <1>2, <2>1, ElsewhereKeepsTexts DEF composer
<1>4. CASE ~Stage(k, "none")
  <2>1. Restore(k) /\ UNCHANGED unanswered /\ submission[k].pc # "none"
    BY <1>4 DEF RefusedAnswer, Stage
  <2>2. submission[k].text \in Texts
    BY <2>1 DEF TypeInv, WidgetOK, StageOK
  <2>3. \A j \in Calls : CallCalm(j)
    BY <1>1 DEF CallCalm
  <2>4. submission[k].text \notin unanswered' =>
           call'[k].pc \notin {"check", "insert"} /\ ~Credited(submission[k].text)
    BY <1>1, <1>2, <2>1, <2>2 DEF At
  <2>5. QED
    BY <1>1, <1>2, <2>1, <2>3, <2>4, RestoreKeepsTexts
<1>5. QED
  BY <1>3, <1>4

LEMMA NextKeepsTexts ==
  ASSUME TypeInv, TextInv, WidgetNext
  PROVE  TextInv'
<1>1. ASSUME NEW k \in StaffSlots, StaffCalls(k), UNCHANGED widget
      PROVE  TextInv'
  BY <1>1, StaffCallsKeepTexts
<1>2. ASSUME NEW k \in Calls, Server(k)
      PROVE  TextInv'
  BY <1>2, ServerStepKeepsTexts, PublishToRoomKeepsTexts, AnswerRefusalKeepsTexts DEF Server
<1>3. CASE OpenSession \/ OpeningFails
  BY <1>3, OpeningKeepsTexts
<1>4. ASSUME NEW w \in Walkers,
             \/ ConversationResolved(w) \/ Load(w) \/ WalkFails(w)
             \/ Connect(w) \/ ServeJoin(w) \/ JoinTimesOut(w)
      PROVE  TextInv'
  BY <1>4, OpeningKeepsTexts, WalksKeepTexts
<1>5. CASE Disconnect \/ Restart \/ Refused
  BY <1>5, BreakingKeepsTexts, OthersKeepTexts
<1>6. ASSUME NEW t \in Texts, Type(t)
      PROVE  TextInv'
  BY <1>6, TypeKeepsTexts
<1>7. CASE AskDetails \/ DetailsSaved \/ DetailsFail
  BY <1>7, OthersKeepTexts, DetailsSavedKeepsTexts
<1>8. ASSUME NEW k \in SendSlots,
             \/ Submit(k) \/ GiveUp(k) \/ ServeRejoin(k) \/ Recover(k) \/ RecoveryFails(k)
      PROVE  TextInv'
  BY <1>8, SubmitKeepsTexts, GiveUpKeepsTexts, ServeRejoinKeepsTexts, RecoveryKeepsTexts
<1>9. CASE Receive
  BY <1>9, OthersKeepTexts, WalksKeepTexts, RejoinAcknowledgedKeepsTexts,
     SendAcknowledgedKeepsTexts, ClosedAnswerKeepsTexts, RefusedAnswerKeepsTexts DEF Receive
<1>10. QED
  BY <1>1, <1>2, <1>3, <1>4, <1>5, <1>6, <1>7, <1>8, <1>9 DEF WidgetNext

LEMMA TextInit ==
  ASSUME WidgetInit
  PROVE  TextInv
<1>1. /\ input = NoText /\ typed = {} /\ wire = <<>>
      /\ submission = [k \in SendSlots |-> NoSubmission]
  BY DEF WidgetInit
<1>2. messages = {} /\ \A k \in Calls : call[k].pc = "idle"
  BY IdleCall DEF WidgetInit, StoreInit
<1>3. \A k \in SendSlots : submission[k].text = NoText /\ submission[k].pc = "none"
  BY <1>1, NoSubmissionTyped DEF NoSubmission
<1>4. NoText \notin Texts
  BY WidgetAssumption DEF WidgetAssumption
<1>5. \A t \in Texts : ~Said(t) /\ ~Credited(t) /\ \A k \in Calls : ~Carries(k, t)
  BY <1>2 DEF Said, Credited, Carries
<1>6. \A t \in Texts : TextOnce(t)
  BY <1>1, <1>2, <1>3, <1>4, <1>5 DEF TextOnce
<1>7. \A t \in Texts : Unheard(t)
  BY <1>1, <1>3, <1>4, <1>5 DEF Unheard
<1>8. ASSUME NEW k \in SendSlots
      PROVE  Quotes(k)
  <2>1. call[k].pc = "idle"
    BY <1>2, WidgetAssumption DEF WidgetAssumption
  <2>2. QED
    BY <2>1 DEF Quotes, Sending, Stored, At
<1>9. \A i \in DOMAIN wire : Truthful(i)
  BY <1>1
<1>10. TextKept
  BY <1>1 DEF TextKept
<1>11. QED
  BY <1>6, <1>7, <1>8, <1>9, <1>10 DEF TextInv

LEMMA StutterKeepsTexts ==
  ASSUME TypeInv, TextInv, UNCHANGED everything
  PROVE  TextInv'
<1>1. /\ UNCHANGED <<input, typed, displaced, unanswered, submission, call, messages, misreported>>
      /\ wire' = wire
  BY DEF everything, widget, store, data, composer, socket
<1>2. SignalsCalm
  BY <1>1 DEF SignalsCalm
<1>3. QED
  BY <1>1, <1>2, ElsewhereKeepsTexts

LEMMA TextsInductive == WidgetSpec => []TextInv
<1>1. WidgetInit => TextInv
  BY TextInit
<1>2. TypeInv /\ TextInv /\ [WidgetNext]_everything => TextInv'
  BY NextKeepsTexts, StutterKeepsTexts
<1>3. QED
  BY <1>1, <1>2, Inductive, PTL DEF WidgetSpec

\* What the visitor typed is in the composer, on its way or stored, unless it was
\* displaced by name, whatever refusals, closings, recoveries and lost connections
\* the sends meet (widget.ts sendMessage, restoreComposer and the details form).
THEOREM TextsKept == WidgetSpec => []TextKept
<1>1. TextInv => TextKept
  BY DEF TextInv
<1>2. QED
  BY <1>1, TextsInductive, PTL

\* The steps that admit no send and store nothing.
LEMMA OthersKeepCopies ==
  ASSUME CopiesInv, UNCHANGED <<messages, misreported>>, unanswered \subseteq unanswered',
         \A k \in Calls : call'[k].pc = "insert" => call'[k] = call[k]
  PROVE  CopiesInv'
<1> SUFFICES ASSUME NEW t \in Texts \ unanswered'
             PROVE  Copies(t)'
  BY DEF CopiesInv
<1>1. Copies(t)
  BY DEF CopiesInv
<1>2. QED
  BY <1>1 DEF Copies, At

\* An admitted send has a greater id than everything that is stored.
LEMMA AdmitKeepsCopies ==
  ASSUME StoreInv, CopiesInv, NEW k \in Calls, AdmitSend(k), unanswered \subseteq unanswered'
  PROVE  CopiesInv'
<1> SUFFICES ASSUME NEW t \in Texts \ unanswered'
             PROVE  Copies(t)'
  BY DEF CopiesInv
<1>1. Copies(t)
  BY DEF CopiesInv
<1>2. /\ UNCHANGED <<messages, misreported>> /\ call'[k].id = issued + 1
      /\ \A j \in Calls \ {k} : call'[j] = call[j]
  BY AdmitMoves DEF StoreInv
<1>3. \A m \in messages : m.id < issued + 1
  <2>1. \A m \in messages : m.id \in Nat /\ m.id <= issued
    BY DEF StoreInv, Typed, MessageDocs, Ids, IdsAreOnce
  <2>2. issued \in Nat
    BY DEF StoreInv, Typed
  <2>3. QED
    BY <2>1, <2>2
<1>4. QED
  BY <1>1, <1>2, <1>3 DEF Copies, At

\* A text is stored by the only call that carries it, while every copy of it was
\* misreported.
LEMMA StoringKeepsCopies ==
  ASSUME TypeInv, TextInv, CopiesInv, NEW k \in Calls, At(k, "insert"),
         messages' = messages \cup {Document(k)}, misreported \subseteq misreported',
         unanswered \subseteq unanswered',
         \A j \in Calls : call'[j].pc = "insert" => j # k /\ call'[j] = call[j]
  PROVE  CopiesInv'
<1> SUFFICES ASSUME NEW t \in Texts \ unanswered'
             PROVE  Copies(t)'
  BY DEF CopiesInv
<1>1. Copies(t) /\ TextOnce(t)
  BY DEF CopiesInv, TextInv
<1> PICK new : new = Document(k)
  OBVIOUS
<1>2. new.id = call[k].id /\ new.body = call[k].arg /\ messages' = messages \cup {new}
  BY DEF Document
<1>3. new.id \in Nat /\ \A m \in messages : m.id \in Nat
  BY <1>2 DEF TypeInv, StoreInv, Typed, CallRecords, MessageDocs, Ids
<1>4. CASE new.body = t
  <2>1. Carries(k, t)
    BY <1>2, <1>4 DEF Carries, At
  <2>2. ~Credited(t) /\ \A j \in Calls : Carries(j, t) => j = k
    <3> HIDE DEF Carries, Credited
    <3>1. QED
      BY <1>1, <2>1 DEF TextOnce
  <2>3. \A m \in messages : m.body = t => m.id \in misreported'
    BY <2>2 DEF Credited
  <2>4. \A m \in messages : m.body = t => m.id < new.id
    BY <1>1, <1>2, <1>4 DEF Copies
  <2>5. ASSUME NEW m \in messages', NEW n \in messages', m.body = t, n.body = t, m.id < n.id
        PROVE  m.id \in misreported'
    <3>1. CASE m \in messages
      BY <2>3, <2>5, <3>1
    <3>2. CASE m = new
      <4>1. CASE n \in messages
        BY <1>3, <2>4, <2>5, <3>2, <4>1
      <4>2. CASE n = new
        BY <1>3, <2>5, <3>2, <4>2
      <4>3. QED
        BY <1>2, <4>1, <4>2
    <3>3. QED
      BY <1>2, <3>1, <3>2
  <2>6. ASSUME NEW j \in Calls, At(j, "insert")', call'[j].arg = t
        PROVE  FALSE
    <3>1. j # k /\ call'[j] = call[j]
      BY <2>6 DEF At
    <3>2. Carries(j, t)
      BY <2>6, <3>1 DEF Carries, At
    <3>3. QED
      BY <2>2, <3>1, <3>2
  <2>7. QED
    BY <2>5, <2>6 DEF Copies
<1>5. CASE new.body # t
  BY <1>1, <1>2, <1>5 DEF Copies, At
<1>6. QED
  BY <1>4, <1>5

LEMMA OperationKeepsCopies ==
  ASSUME TypeInv, TextInv, CopiesInv, NEW k \in Calls, Operation(k),
         unanswered \subseteq unanswered'
  PROVE  CopiesInv'
<1>1. StoreInv /\ Typed
  BY DEF TypeInv, StoreInv
<1>2. /\ call'[k].pc = "insert" => SendsOn(k)
      /\ \A j \in Calls \ {k} : call'[j] = call[j]
  BY <1>1, OperationSends
<1>3. CASE AdmitSend(k)
  BY <1>1, <1>3, AdmitKeepsCopies
<1>4. CASE Insert(k) \/ InsertReplyLost(k)
  <2>1. /\ At(k, "insert") /\ messages' = messages \cup {Document(k)}
        /\ misreported \subseteq misreported'
    BY <1>4 DEF Insert, InsertReplyLost
  <2>2. call'[k].pc # "insert"
    BY <1>2, <2>1 DEF SendsOn, At
  <2>3. \A j \in Calls : call'[j].pc = "insert" => j # k /\ call'[j] = call[j]
    BY <1>2, <2>2
  <2>4. QED
    BY <2>1, <2>3, StoringKeepsCopies
<1>5. CASE ~AdmitSend(k) /\ ~Insert(k) /\ ~InsertReplyLost(k)
  <2>1. UNCHANGED <<messages, misreported>>
    BY <1>5 DEF Operation, Find, Create, FindAgain, RefuseSend, InsertFails, Touch,
                TouchFails, Publish, SetStatus, SetStatusReplyLost, AnnounceStatus, data
  <2>2. call'[k].pc # "insert"
    <3>1. CASE RefuseSend(k)
      <4>1. call'[k].pc \in {"idle", "answered"}
        BY <1>1, <3>1, EndsMoves DEF RefuseSend, Failed
      <4>2. QED
        BY <4>1
    <3>2. CASE ~RefuseSend(k)
      <4>1. call[k].pc # "check"
        BY <1>5, <3>2
           DEF Operation, Find, Create, FindAgain, InsertFails, Touch, TouchFails, Publish,
               SetStatus, SetStatusReplyLost, AnnounceStatus, At
      <4>2. QED
        BY <1>2, <4>1 DEF SendsOn
    <3>3. QED
      BY <3>1, <3>2
  <2>3. QED
    BY <1>2, <2>1, <2>2, OthersKeepCopies
<1>6. QED
  BY <1>3, <1>4, <1>5

\* Sends are given up, and what was given up stays so.
LEMMA UnansweredGrows ==
  ASSUME [WidgetNext]_everything
  PROVE  unanswered \subseteq unanswered'
<1>1. UNCHANGED everything => UNCHANGED unanswered
  BY DEF everything, widget, composer
<1>2. ASSUME NEW k \in Calls, Server(k)
      PROVE  UNCHANGED unanswered
  BY <1>2 DEF Server, ServerStep, PublishToRoom, AnswerRefusal, widget, composer
<1>3. ASSUME OpenSession \/ OpeningFails \/ \E k \in StaffSlots : UNCHANGED widget
      PROVE  UNCHANGED unanswered
  BY <1>3 DEF OpenSession, OpeningFails, widget, composer
<1>4. ASSUME NEW w \in Walkers,
             \/ ConversationResolved(w) \/ Load(w) \/ WalkFails(w)
             \/ Connect(w) \/ ServeJoin(w) \/ JoinTimesOut(w) \/ JoinAcknowledged(w)
      PROVE  UNCHANGED unanswered
  BY <1>4 DEF ConversationResolved, Load, ReadPage, Show, WalkFails, Connect, ServeJoin,
              JoinTimesOut, JoinAcknowledged, composer
<1>5. ASSUME \/ Disconnect \/ Restart \/ Refused \/ AskDetails \/ DetailsSaved \/ DetailsFail
             \/ Hear \/ \E t \in Texts : Type(t)
      PROVE  UNCHANGED unanswered
  BY <1>5 DEF Disconnect, Restart, Broken, Refused, AskDetails, DetailsSaved, DetailsFail,
              Hear, Type, composer
<1>6. ASSUME NEW k \in SendSlots, Submit(k) \/ GiveUp(k) \/ ServeRejoin(k)
      PROVE  unanswered \subseteq unanswered'
  BY <1>6 DEF Submit, GiveUp, ServeRejoin
<1>7. ASSUME NEW k \in SendSlots,
             \/ Recover(k) \/ RecoveryFails(k) \/ RejoinAcknowledged(k) \/ SendAcknowledged(k)
             \/ ClosedAnswer(k) \/ RefusedAnswer(k)
      PROVE  UNCHANGED unanswered
  BY <1>7 DEF Recover, RecoveryFails, RejoinAcknowledged, SendAcknowledged, Sent,
              ClosedAnswer, RefusedAnswer, composer
<1>8. QED
  BY <1>1, <1>2, <1>3, <1>4, <1>5, <1>6, <1>7 DEF WidgetNext, Receive

LEMMA CopiesInductive == WidgetSpec => []CopiesInv
<1>1. WidgetInit => CopiesInv
  <2>1. WidgetInit => messages = {}
    BY DEF WidgetInit, StoreInit
  <2>2. QED
    BY <2>1 DEF CopiesInv, Copies
<1>2. ASSUME TypeInv, TextInv, CopiesInv, [WidgetNext]_everything
      PROVE  CopiesInv'
  <2>1. unanswered \subseteq unanswered'
    BY <1>2, UnansweredGrows
  <2>2. StoreInv
    BY <1>2 DEF TypeInv
  <2>3. CASE UNCHANGED store
    <3>1. UNCHANGED <<messages, misreported, call>>
      BY <2>3 DEF store, data
    <3>2. QED
      BY <1>2, <2>1, <3>1, OthersKeepCopies
  <2>4. ASSUME NEW k \in Calls, Operation(k)
        PROVE  CopiesInv'
    BY <1>2, <2>1, <2>4, OperationKeepsCopies
  <2>5. ASSUME NEW k \in Calls, Starting(k)
        PROVE  CopiesInv'
    <3>1. PICK pc, u, c, arg, http : Starts(k, pc, u, c, arg, http)
      BY <2>5 DEF Starting
    <3>2. /\ call'[k].pc = pc /\ \A j \in Calls \ {k} : call'[j] = call[j]
      BY <2>2, <3>1, StartsMoves DEF StoreInv
    <3>3. pc # "insert" /\ UNCHANGED <<messages, misreported>>
      BY <3>1 DEF Starts, data
    <3>4. QED
      BY <1>2, <2>1, <3>2, <3>3, OthersKeepCopies
  <2>6. ASSUME NEW K \in SUBSET Calls, Abandons(K)
        PROVE  CopiesInv'
    <3>1. /\ UNCHANGED <<messages, misreported>>
          /\ \A k \in Calls : call'[k].pc = "insert" => call'[k] = call[k]
      BY <2>6, IdleCall DEF Abandons, data
    <3>2. QED
      BY <1>2, <2>1, <3>1, OthersKeepCopies
  <2>7. CASE ProcessDies
    <3>1. UNCHANGED <<messages, misreported>>
      BY <2>7 DEF ProcessDies
    <3>2. \A k \in Calls : call'[k].pc \in {"answered", "idle"}
      BY <2>7, IdleCall DEF ProcessDies, Idle
    <3>3. QED
      BY <1>2, <2>1, <3>1, <3>2, OthersKeepCopies
  <2>8. UNCHANGED everything => UNCHANGED store
    BY DEF everything
  <2>9. QED
    BY <1>2, <2>3, <2>4, <2>5, <2>6, <2>7, <2>8, StoreMoves
<1>3. QED
  BY <1>1, <1>2, Inductive, TextsInductive, PTL DEF WidgetSpec

\* No text is stored twice unless a send of it was given up unanswered, or the older
\* copy was stored by an insertion reported as failed, which the visitor's text comes
\* back from: neither the recovery of a closed conversation nor any other refusal
\* duplicates it (widget.ts sendMessage, message.service.ts send).
THEOREM StoredOnceIfAnswered == WidgetSpec => []StoredTwiceOnlyUnanswered
<1>1. CopiesInv => StoredTwiceOnlyUnanswered
  BY DEF CopiesInv, Copies, StoredTwiceOnlyUnanswered
<1>2. QED
  BY <1>1, CopiesInductive, PTL

----------------------------------------------------------------------------
(* What is not shown.                                                      *)

\* A stored message stays with its call, and a misreported one is so for good.
Held ==
  /\ \A k \in Calls :
       call[k].pc \in Stored => call'[k].pc \in Stored /\ call'[k].id = call[k].id
  /\ misreported \subseteq misreported'

\* What is stored comes with a call or is misreported, and what a call lets go is
\* overtaken, or the newest, and goes to whom is in the room.
Growing ==
  /\ messages \subseteq messages' /\ ToSet(shown) \subseteq ToSet(shown')
  /\ \A m \in messages' \ messages : Tracked(m.id)'
  /\ \A m \in messages : Tracked(m.id) /\ Newer(m.id) => Tracked(m.id)'
  /\ \A m \in messages : m.conv \in room' /\ (Tracked(m.id) \/ OnWire(m.id))
                           => Tracked(m.id)' \/ OnWire(m.id)'

\* The connection loses nothing that somebody in a room should still hear.
WireQuiet == \A i : OnWire(i) => OnWire(i)' \/ i \in ToSet(shown') \/ room' = {}

\* A walk ends, starts over, begins to read, or goes on with what it has.
WalkQuiet(w) ==
  \/ walk'[w].pc = "idle"
  \/ walk'[w].pc \in {"join", "joined"} /\ walk'[w].got = {}
  \/ /\ walk'[w].pc = "page" /\ walk'[w].got = {}
     /\ walk'[w].after \in ToSet(shown) \cup {0}
  \/ /\ walk'[w].pc = walk[w].pc /\ walk'[w].conv = walk[w].conv
     /\ walk'[w].got = walk[w].got /\ walk'[w].after = walk[w].after
     /\ walk'[w].fresh => walk[w].fresh /\ walk'[w].more = walk[w].more

LEMMA TrackedStays ==
  ASSUME Held, overtaken \subseteq overtaken', passed \subseteq passed',
         ToSet(shown) \subseteq ToSet(shown')
  PROVE  \A i : Tracked(i) => Tracked(i)'
BY DEF Held, Tracked

LEMMA QuietGrows ==
  ASSUME Held, UNCHANGED messages, overtaken \subseteq overtaken', passed \subseteq passed',
         ToSet(shown) \subseteq ToSet(shown'), WireQuiet
  PROVE  Growing
<1>1. \A i : Tracked(i) => Tracked(i)'
  BY TrackedStays
<1>2. \A i : i \in ToSet(shown') => Tracked(i)'
  BY DEF Tracked
<1>3. QED
  BY <1>1, <1>2 DEF Growing, WireQuiet

LEMMA StoredMessages ==
  ASSUME TypeInv
  PROVE  /\ \A m \in messages : m.id \in Ids /\ m.id \in Nat
         /\ \A i \in StoredIds : i \in Nat /\ \E m \in messages : m.id = i
         /\ ToSet(shown) \subseteq StoredIds
         /\ \A m \in messages : \A i \in StoredIds : m.id < i => Newer(m.id)
<1>1. messages \subseteq MessageDocs /\ Ids \subseteq Nat /\ ToSet(shown) \subseteq StoredIds
  BY ConversationsAssumption DEF TypeInv, StoreInv, Typed, WidgetOK, Shows, Ids
<1>2. QED
  BY <1>1 DEF MessageDocs, StoredIds, Newer

LEMMA BehindsKept ==
  ASSUME TypeInv, TrackInv, Growing, UNCHANGED <<thread, shown>>
  PROVE  Behinds'
<1>1. ASSUME NEW m \in MessagesOf(thread)', NEW i \in ToSet(shown'), m.id < i
      PROVE  Tracked(m.id)'
  <2>1. CASE m \in messages
    <3>1. i \in StoredIds /\ m.id < i /\ m \in MessagesOf(thread) /\ i \in ToSet(shown)
      BY <1>1, <2>1, StoredMessages DEF MessagesOf
    <3>2. Newer(m.id) /\ Tracked(m.id)
      BY <2>1, <3>1, StoredMessages DEF TrackInv, Behinds
    <3>3. QED
      BY <2>1, <3>2 DEF Growing
  <2>2. CASE m \notin messages
    BY <2>2 DEF MessagesOf, Growing
  <2>3. QED
    BY <2>1, <2>2
<1>2. QED
  BY <1>1 DEF Behinds

LEMMA CaughtKept ==
  ASSUME TypeInv', TrackInv, Growing, caughtUp' => caughtUp /\ thread' = thread
  PROVE  Caught'
<1>1. ASSUME caughtUp', NEW m \in MessagesOf(thread)'
      PROVE  Tracked(m.id)' \/ OnWire(m.id)'
  <2>1. thread' \in room' /\ m.conv = thread' /\ m \in messages'
    BY <1>1 DEF TypeInv, WidgetOK, LinkOK, MessagesOf
  <2>2. CASE m \in messages
    <3>1. Tracked(m.id) \/ OnWire(m.id)
      BY <1>1, <2>1, <2>2 DEF TrackInv, Caught, MessagesOf
    <3>2. QED
      BY <2>1, <2>2, <3>1 DEF Growing
  <2>3. CASE m \notin messages
    BY <2>1, <2>3 DEF Growing
  <2>4. QED
    BY <2>2, <2>3
<1>2. QED
  BY <1>1 DEF Caught

\* What a walk accounted for is accounted for.
LEMMA WalkedStays ==
  ASSUME TypeInv, Growing, NEW w \in Walkers, walk[w].got \subseteq walk'[w].got,
         NEW m \in messages, Walked(w, m)
  PROVE  /\ Newer(m.id) => Walked(w, m)'
         /\ m.id \in walk[w].got \/ Reached(m.id) => Walked(w, m)'
         /\ m.conv \in room' => Walked(w, m)' \/ OnWire(m.id)'
<1>1. Reached(m.id) => Reached(m.id)'
  BY DEF Reached, Growing
<1>2. QED
  BY <1>1 DEF Walked, Growing

LEMMA WalkKept ==
  ASSUME TypeInv, TypeInv', TrackInv, Growing, NEW w \in Walkers, WalkQuiet(w)
  PROVE  WalkTracks(w)'
<1>1. CASE walk'[w].pc \in {"idle", "join", "joined"}
  <2>1. walk'[w].pc \in {"join", "joined"} => walk'[w].got = {}
    BY DEF TrackInv, WalkTracks, WalkQuiet
  <2>2. QED
    BY <1>1, <2>1 DEF WalkTracks
<1>2. CASE walk'[w].pc = "page" /\ walk'[w].got = {} /\ walk'[w].after \in ToSet(shown) \cup {0}
  <2>1. ASSUME NEW m \in messages', m.id <= walk'[w].after
        PROVE  Reached(m.id)'
    <3>1. m.id \in Nat /\ m.id > 0
      BY ConversationsAssumption DEF TypeInv, StoreInv, Typed, MessageDocs, Ids
    <3>2. QED
      BY <1>2, <2>1, <3>1 DEF Reached, Growing
  <2>2. walk'[w].after \in ToSet(shown') \cup {0}
    BY <1>2 DEF Growing
  <2>3. QED
    BY <1>2, <2>1, <2>2 DEF WalkTracks, Walked, MessagesOf
<1>3. CASE /\ walk'[w].pc \in {"page", "read"}
           /\ walk'[w].pc = walk[w].pc /\ walk'[w].conv = walk[w].conv
           /\ walk'[w].got = walk[w].got /\ walk'[w].after = walk[w].after
           /\ walk'[w].fresh => walk[w].fresh /\ walk'[w].more = walk[w].more
  <2>1. /\ walk'[w].pc = walk[w].pc /\ walk'[w].conv = walk[w].conv
        /\ walk'[w].got = walk[w].got /\ walk'[w].after = walk[w].after
        /\ walk'[w].fresh => walk[w].fresh /\ walk'[w].more = walk[w].more
    BY <1>3
  <2>2. /\ WalkTracks(w) /\ walk[w].after \in Nat /\ walk[w].got \subseteq StoredIds
        /\ walk'[w].fresh => walk'[w].conv \in room'
    BY <1>3, <2>1, ConversationsAssumption
       DEF TrackInv, TypeInv, WidgetOK, WalkOK, Typings, Walks
  <2>3. walk'[w].after \in walk'[w].got \cup ToSet(shown') \cup {0}
    BY <1>3, <2>1, <2>2 DEF WalkTracks, Growing
  <2>4. \A i \in walk'[w].got : i <= walk'[w].after
    BY <1>3, <2>1, <2>2 DEF WalkTracks
  <2>5. ASSUME NEW m \in MessagesOf(walk[w].conv)', m \notin messages
        PROVE  Walked(w, m)'
    BY <2>5 DEF MessagesOf, Growing, Walked
  <2>6. ASSUME NEW m \in MessagesOf(walk[w].conv)', m \in messages, m.id <= walk[w].after
        PROVE  Walked(w, m)'
    <3>1. Walked(w, m)
      BY <1>3, <2>1, <2>2, <2>6 DEF WalkTracks, MessagesOf
    <3>2. m.id \in Nat /\ m.id # 0
      BY <2>6, StoredMessages DEF Ids
    <3>3. CASE m.id = walk[w].after
      <4>1. m.id \in walk[w].got \/ m.id \in ToSet(shown)
        BY <1>3, <2>1, <2>2, <3>2, <3>3 DEF WalkTracks
      <4>2. m.id \in ToSet(shown) => Reached(m.id)
        BY <3>2 DEF Reached
      <4>3. QED
        BY <2>1, <2>6, <3>1, <4>1, <4>2, WalkedStays
    <3>4. CASE m.id # walk[w].after
      <4>1. m.id < walk[w].after /\ walk[w].after \in StoredIds
        BY <1>3, <2>1, <2>2, <2>6, <3>2, <3>4, StoredMessages DEF WalkTracks
      <4>2. Newer(m.id)
        BY <2>6, <4>1, StoredMessages
      <4>3. QED
        BY <2>1, <2>6, <3>1, <4>2, WalkedStays
    <3>5. QED
      BY <3>3, <3>4
  <2>7. ASSUME walk'[w].pc = "read", walk'[w].fresh, ~walk'[w].more,
               NEW m \in MessagesOf(walk[w].conv)', m \in messages
        PROVE  Walked(w, m)' \/ OnWire(m.id)'
    <3>1. m.conv \in room' /\ (Walked(w, m) \/ OnWire(m.id))
      BY <2>1, <2>2, <2>7 DEF WalkTracks, MessagesOf
    <3>2. CASE Walked(w, m)
      BY <2>1, <2>7, <3>1, <3>2, WalkedStays
    <3>3. CASE OnWire(m.id)
      <4>1. Tracked(m.id)' => Walked(w, m)'
        BY DEF Walked
      <4>2. QED
        BY <2>7, <3>1, <3>3, <4>1 DEF Growing
    <3>4. QED
      BY <3>1, <3>2, <3>3
  <2>8. walk'[w].pc \notin {"join", "joined"}
    BY <1>3
  <2>9. QED
    BY <2>1, <2>3, <2>4, <2>5, <2>6, <2>7, <2>8 DEF WalkTracks
<1>4. QED
  BY <1>1, <1>2, <1>3 DEF WalkQuiet, TypeInv, WidgetOK, Typings, Walks

LEMMA QuietKeepsTracks ==
  ASSUME TypeInv, TypeInv', TrackInv, Growing, WireOrdered', UNCHANGED <<thread, shown>>,
         panel = "ready" => panel' = "ready", caughtUp' => caughtUp,
         \A w \in Walkers : WalkQuiet(w)
  PROVE  TrackInv'
<1>1. Behinds' /\ Caught'
  BY BehindsKept, CaughtKept
<1>2. \A w \in Walkers : WalkTracks(w)'
  BY WalkKept
<1>3. QED
  BY <1>1, <1>2 DEF TrackInv

\* The connection takes up signals, of which at most one is a message, i.
TakesUp(i, heard) ==
  /\ \A n \in DOMAIN wire : n \in DOMAIN wire' /\ wire'[n] = wire[n]
  /\ \A n \in DOMAIN wire : \A a \in DOMAIN wire' : a < n => a \in DOMAIN wire
  /\ \A n \in DOMAIN wire' : n \notin DOMAIN wire /\ wire'[n].kind = "message" =>
       /\ heard /\ wire'[n].id = i
       /\ \A a \in DOMAIN wire' : a < n => a \in DOMAIN wire
  /\ heard => \E n \in DOMAIN wire' : wire'[n].kind = "message" /\ wire'[n].id = i

LEMMA TakingUpTracks ==
  ASSUME TypeInv, WireOrdered, overtaken \subseteq overtaken', NEW i, NEW heard, TakesUp(i, heard),
         heard => \A j \in StoredIds : i < j => i \in overtaken'
  PROVE  WireQuiet /\ WireOrdered'
<1>1. WireQuiet
  BY DEF WireQuiet, OnWire, TakesUp
<1>2. ASSUME NEW a \in DOMAIN wire', NEW b \in DOMAIN wire',
             a < b, wire'[b].kind = "message", wire'[a].kind \in {"message", "ack"},
             wire'[b].id < wire'[a].id
      PROVE  wire'[b].id \in overtaken'
  <2>1. a \in DOMAIN wire /\ wire'[a] = wire[a]
    BY <1>2 DEF TakesUp
  <2>2. CASE b \in DOMAIN wire
    BY <1>2, <2>1, <2>2 DEF TakesUp, WireOrdered
  <2>3. CASE b \notin DOMAIN wire
    <3>1. heard /\ wire'[b].id = i
      BY <1>2, <2>3 DEF TakesUp
    <3>2. wire[a].id \in StoredIds
      BY <1>2, <2>1 DEF TypeInv, WidgetOK, SignalOK
    <3>3. QED
      BY <1>2, <2>1, <3>1, <3>2
  <2>4. QED
    BY <2>2, <2>3
<1>3. QED
  BY <1>1, <1>2 DEF WireOrdered

LEMMA AppendingTakesUp ==
  ASSUME TypeInv, NEW to \in Walkers \cup SendSlots, NEW kind \in {"joined", "refused"},
         wire' = Append(wire, Signal(kind, to, 0))
  PROVE  TakesUp(0, FALSE)
<1> DEFINE e == Signal(kind, to, 0)
<1>1. e \in Signals /\ e.kind = kind /\ wire \in Seq(Signals)
  BY SignalFields, ConversationsAssumption DEF TypeInv, WidgetOK, Typings
<1> HIDE DEF e
<1>2. wire' = Append(wire, e)
  BY DEF e
<1>3. /\ DOMAIN wire' = 1..(Len(wire) + 1) /\ DOMAIN wire = 1..Len(wire) /\ Len(wire) \in Nat
      /\ \A n \in DOMAIN wire : wire'[n] = wire[n]
      /\ wire'[Len(wire) + 1] = e
  BY <1>1, <1>2, Carrying
<1>4. \A n \in DOMAIN wire' : n \notin DOMAIN wire => n = Len(wire) + 1
  BY <1>3
<1>5. \A n \in DOMAIN wire' : n \notin DOMAIN wire => wire'[n].kind # "message"
  BY <1>1, <1>3, <1>4
<1>6. \A n \in DOMAIN wire : \A a \in DOMAIN wire' : a < n => a \in DOMAIN wire
  BY <1>3
<1>7. QED
  BY <1>3, <1>5, <1>6 DEF TakesUp

LEMMA AddingTakesUp ==
  ASSUME TypeInv, NEW k \in Calls, NEW kind \in {"ack", "closed", "refused"},
         NEW i \in 0..MaxMessages, NEW heard \in BOOLEAN, Adds(k, kind, i, heard)
  PROVE  TakesUp(i, heard)
<1> DEFINE a == Signal("message", "room", i)
           b == Signal(kind, k, i)
           x == IF heard THEN <<a>> ELSE <<>>
           y == Answering(k, kind, i)
<1>1. wire \in Seq(Signals) /\ <<a>> # <<>>
  BY DEF TypeInv, WidgetOK, Typings
<1>2. a \in Signals /\ a.kind = "message" /\ a.id = i
  BY DEF Signal, Signals
<1>3. ASSUME NEW t \in Signals, Carries2(wire, a, t, x, y, wire'), t.kind # "message"
      PROVE  TakesUp(i, heard)
  <2>1. heard <=> x = <<a>>
    BY <1>1
  <2> HIDE DEF a, x, y
  <2>2. DOMAIN wire = 1..Len(wire) /\ Len(wire) \in Nat /\ DOMAIN wire' \subseteq Nat
    BY <1>1, <1>3 DEF Carries2
  <2>3. \A n \in DOMAIN wire : \A m \in DOMAIN wire' : m < n => m \in DOMAIN wire
    BY <1>1, <1>3, <2>2 DEF Carries2
  <2>4. ASSUME NEW n \in DOMAIN wire', n \notin DOMAIN wire, wire'[n].kind = "message"
        PROVE  /\ heard /\ wire'[n].id = i
               /\ \A m \in DOMAIN wire' : m < n => m \in DOMAIN wire
    <3>1. wire'[n] = a /\ heard /\ n = Len(wire) + 1
      BY <1>2, <1>3, <2>1, <2>4 DEF Carries2
    <3>2. \A m \in DOMAIN wire' : m < n => m \in DOMAIN wire
      BY <1>1, <1>3, <2>2, <3>1 DEF Carries2
    <3>3. QED
      BY <1>2, <3>1, <3>2
  <2>5. heard => \E n \in DOMAIN wire' : wire'[n].kind = "message" /\ wire'[n].id = i
    BY <1>2, <1>3, <2>1 DEF Carries2
  <2>6. \A n \in DOMAIN wire : n \in DOMAIN wire' /\ wire'[n] = wire[n]
    BY <1>3 DEF Carries2
  <2>7. QED
    BY <2>3, <2>4, <2>5, <2>6 DEF TakesUp
<1>4. CASE y = <<>>
  <2> DEFINE d == Signal("joined", "room", 0)
  <2>1. x \in {<<>>, <<a>>} /\ y \in {<<>>, <<d>>} /\ wire' = wire \o x \o y
    BY <1>4 DEF Adds
  <2>2. d \in Signals /\ d.kind = "joined"
    BY ConversationsAssumption DEF Signal, Signals
  <2> HIDE DEF a, b, d, x, y
  <2>3. Carries2(wire, a, d, x, y, wire \o x \o y)
    BY <1>1, <1>2, <2>1, <2>2, CarryingTwo
  <2>4. QED
    BY <1>3, <2>1, <2>2, <2>3
<1>5. CASE y # <<>>
  <2>1. /\ y = <<b>> /\ k \in SendSlots
    BY <1>5, AnswersOnly
  <2>2. b \in Signals /\ b.kind = kind
    BY <2>1, SignalFields
  <2>3. x \in {<<>>, <<a>>} /\ y \in {<<>>, <<b>>} /\ wire' = wire \o x \o y
    BY <2>1 DEF Adds
  <2> HIDE DEF a, b, x, y
  <2>4. Carries2(wire, a, b, x, y, wire \o x \o y)
    BY <1>1, <1>2, <2>2, <2>3, CarryingTwo
  <2>5. QED
    BY <1>3, <2>2, <2>3, <2>4
<1>6. QED
  BY <1>4, <1>5

LEMMA WireTracks ==
  ASSUME TypeInv, WireOrdered, overtaken \subseteq overtaken'
  PROVE  /\ UNCHANGED wire => WireQuiet /\ WireOrdered'
         /\ wire' = <<>> /\ room' = {} => WireQuiet /\ WireOrdered'
         /\ \A kind : /\ Arrives(kind) /\ Taken
                      /\ kind = "message" => Head(wire).id \in ToSet(shown')
                      => WireQuiet /\ WireOrdered'
<1>1. UNCHANGED wire => WireQuiet /\ WireOrdered'
  BY DEF WireQuiet, OnWire, WireOrdered
<1>2. wire' = <<>> /\ room' = {} => WireQuiet /\ WireOrdered'
  BY DEF WireQuiet, WireOrdered
<1>3. ASSUME NEW kind, Arrives(kind), Taken, kind = "message" => Head(wire).id \in ToSet(shown')
      PROVE  WireQuiet /\ WireOrdered'
  <2>1. /\ 1 \in DOMAIN wire /\ Head(wire) = wire[1] /\ wire[1].kind = kind
        /\ \A n \in DOMAIN wire' : n \in Nat /\ n + 1 \in DOMAIN wire /\ wire'[n] = wire[n + 1]
    BY <1>3, Arriving
  <2>2. \A n \in DOMAIN wire : n # 1 => n - 1 \in DOMAIN wire' /\ wire'[n - 1] = wire[n]
    BY <1>3, Taking DEF TypeInv, WidgetOK, Typings, Taken, Arrives
  <2>3. ASSUME NEW n \in DOMAIN wire, wire[n].kind = "message"
        PROVE  \/ wire[n].id \in ToSet(shown')
               \/ \E p \in DOMAIN wire' : wire'[p].kind = "message" /\ wire'[p].id = wire[n].id
    <3>1. CASE n = 1
      BY <1>3, <2>1, <2>3, <3>1
    <3>2. CASE n # 1
      <4>1. PICK p \in DOMAIN wire' : wire'[p] = wire[n]
        BY <2>2, <3>2
      <4>2. QED
        BY <2>3, <4>1
    <3>3. QED
      BY <3>1, <3>2
  <2>4. WireQuiet
    BY <2>3 DEF WireQuiet, OnWire
  <2>5. ASSUME NEW a \in DOMAIN wire', NEW b \in DOMAIN wire',
               a < b, wire'[b].kind = "message", wire'[a].kind \in {"message", "ack"},
               wire'[b].id < wire'[a].id
        PROVE  wire'[b].id \in overtaken'
    <3>1. /\ a + 1 \in DOMAIN wire /\ b + 1 \in DOMAIN wire /\ a + 1 < b + 1
          /\ wire'[a] = wire[a + 1] /\ wire'[b] = wire[b + 1]
      BY <2>1, <2>5
    <3>2. wire[b + 1].id \in overtaken
      BY <2>5, <3>1 DEF WireOrdered
    <3>3. QED
      BY <3>1, <3>2
  <2>6. QED
    BY <2>4, <2>5 DEF WireOrdered
<1>4. QED
  BY <1>1, <1>2, <1>3

\* Steps that store and show nothing.
LEMMA StillKeepsTracks ==
  ASSUME TypeInv, TypeInv', TrackInv, Held, UNCHANGED <<messages, thread, shown>>,
         overtaken \subseteq overtaken', passed \subseteq passed',
         panel = "ready" => panel' = "ready", caughtUp' => caughtUp,
         \A w \in Walkers : WalkQuiet(w), WireQuiet, WireOrdered'
  PROVE  TrackInv'
<1>1. Growing
  BY QuietGrows
<1>2. QED
  BY <1>1, QuietKeepsTracks

LEMMA SameWalkQuiet ==
  ASSUME NEW w, walk'[w] = walk[w]
  PROVE  WalkQuiet(w)
BY DEF WalkQuiet

LEMMA OpeningKeepsTracks ==
  ASSUME TypeInv, TypeInv', TrackInv,
         OpenSession \/ OpeningFails \/ \E w \in Walkers : ConversationResolved(w)
  PROVE  TrackInv'
<1>1. /\ UNCHANGED <<data, thread, shown, socket, progress>>
      /\ panel = "ready" => panel' = "ready"
      /\ \/ At(BootSlot, "idle") /\ Begin(BootSlot, "find", Visitor, NoConv, "resolve", TRUE)
         \/ ~(call[BootSlot].pc \in Stored) /\ Forget(BootSlot)
         \/ UNCHANGED call
  <2>1. CASE OpeningFails
    <3>1. call[BootSlot].pc \in {"find", "answered"} /\ panel # "ready"
      BY <2>1 DEF OpeningFails, At, TypeInv, WidgetOK, PanelOK
    <3>2. QED
      BY <2>1, <3>1 DEF OpeningFails, Stored
  <2>2. QED
    BY <2>1 DEF OpenSession, ConversationResolved, Stored, At, screen
<1>2. BootSlot \in Calls /\ StoreInv
  BY WidgetAssumption DEF WidgetAssumption, TypeInv
<1>3. Held
  <2>1. ASSUME Begin(BootSlot, "find", Visitor, NoConv, "resolve", TRUE)
        PROVE  \A k \in Calls \ {BootSlot} : call'[k] = call[k]
    BY <1>2, <2>1, BeginMoves
  <2>2. ASSUME Forget(BootSlot)
        PROVE  \A k \in Calls \ {BootSlot} : call'[k] = call[k]
    BY <1>2, <2>2, ForgetMoves
  <2>3. QED
    BY <1>1, <2>1, <2>2 DEF Held, Stored, At, data
<1>4. WireQuiet /\ WireOrdered'
  BY <1>1, WireTracks DEF data, socket, TrackInv
<1>5. \A w \in Walkers : WalkQuiet(w)
  <2>1. CASE UNCHANGED walk
    BY <2>1, SameWalkQuiet
  <2>2. ASSUME NEW w \in Walkers, ConversationResolved(w)
        PROVE  \A v \in Walkers : WalkQuiet(v)
    <3>1. /\ walk' = [walk EXCEPT ![w] = [NoWalk EXCEPT !.pc = "page", !.conv = call[BootSlot].answer]]
          /\ At(BootSlot, "answered")
      BY <2>2 DEF ConversationResolved
    <3>2. call[BootSlot].answer \in 0..MaxConvs /\ walk \in [Walkers -> Walks]
      BY <1>2, <3>1 DEF TypeInv, WidgetOK, CallsOK, Typings
    <3>3. /\ walk'[w].pc = "page" /\ walk'[w].got = {} /\ walk'[w].after = 0
          /\ \A v \in Walkers \ {w} : walk'[v] = walk[v]
      BY <3>1, <3>2, WalkOpens
    <3>4. QED
      BY <3>3, SameWalkQuiet DEF WalkQuiet
  <2>3. QED
    BY <2>1, <2>2 DEF OpenSession, OpeningFails
<1>6. QED
  BY <1>1, <1>3, <1>4, <1>5, StillKeepsTracks DEF data, progress

LEMMA WalksKeepTracks ==
  ASSUME TypeInv, TypeInv', TrackInv, NEW w \in Walkers,
         WalkFails(w) \/ Connect(w) \/ ServeJoin(w) \/ JoinTimesOut(w) \/ JoinAcknowledged(w)
  PROVE  TrackInv'
<1>1. /\ UNCHANGED <<store, thread, shown, progress>>
      /\ panel = "ready" => panel' = "ready"
      /\ \/ UNCHANGED wire
         \/ wire' = Append(wire, Signal("joined", w, 0))
         \/ Arrives("joined") /\ Taken
  BY DEF WalkFails, Connect, ServeJoin, JoinTimesOut, JoinAcknowledged, screen, socket
<1>2. Held /\ UNCHANGED <<messages, overtaken, passed, caughtUp>>
  BY <1>1 DEF Held, store, data, progress
<1>3. WireQuiet /\ WireOrdered'
  <2>1. ASSUME wire' = Append(wire, Signal("joined", w, 0))
        PROVE  TakesUp(0, FALSE)
    BY <2>1, AppendingTakesUp
  <2>2. QED
    BY <1>1, <1>2, <2>1, TakingUpTracks, WireTracks DEF TrackInv
<1>4. walk \in [Walkers -> Walks] /\ walk[w] \in Walks /\ thread \in 0..MaxConvs
  BY DEF TypeInv, WidgetOK, Typings
<1>5. WalkQuiet(w) /\ \A v \in Walkers \ {w} : walk'[v] = walk[v]
  <2>1. CASE WalkFails(w) \/ JoinTimesOut(w)
    <3>1. walk' = [walk EXCEPT ![w] = NoWalk]
      BY <2>1 DEF WalkFails, JoinTimesOut
    <3>2. QED
      BY <1>4, <3>1, NoWalkTyped DEF WalkQuiet
  <2>2. CASE Connect(w)
    <3>1. walk' = [walk EXCEPT ![w] = [NoWalk EXCEPT !.pc = "join", !.conv = thread, !.fresh = TRUE]]
      BY <2>2 DEF Connect
    <3>2. walk'[w].pc = "join" /\ walk'[w].got = {} /\ \A v \in Walkers \ {w} : walk'[v] = walk[v]
      BY <1>4, <3>1, WalkJoins
    <3>3. QED
      BY <3>2 DEF WalkQuiet
  <2>3. CASE ServeJoin(w)
    <3>1. walk[w].pc = "join" /\ walk' = [walk EXCEPT ![w].pc = "joined"]
      BY <2>3 DEF ServeJoin, Walking
    <3>2. walk[w].got = {}
      BY <3>1 DEF TrackInv, WalkTracks
    <3>3. walk'[w].pc = "joined" /\ walk'[w].got = {} /\ \A v \in Walkers \ {w} : walk'[v] = walk[v]
      BY <1>4, <3>1, <3>2 DEF Walks
    <3>4. QED
      BY <3>3 DEF WalkQuiet
  <2>4. CASE JoinAcknowledged(w)
    <3>1. /\ \A v \in Walkers \ {w} : walk'[v] = walk[v]
          /\ \/ walk'[w] = walk[w]
             \/ /\ walk[w].pc = "joined" /\ walk'[w].pc = "page"
                /\ walk'[w].after = LastRendered /\ walk'[w].got = walk[w].got
      BY <2>4, JoinAcknowledgedMoves DEF Walking
    <3>2. walk[w].pc = "joined" => walk[w].got = {}
      BY DEF TrackInv, WalkTracks
    <3>3. LastRendered \in ToSet(shown) \cup {0}
      BY CursorOfShown
    <3>4. QED
      BY <3>1, <3>2, <3>3 DEF WalkQuiet
  <2>5. QED
    BY <2>1, <2>2, <2>3, <2>4
<1>6. \A v \in Walkers : WalkQuiet(v)
  BY <1>5, SameWalkQuiet
<1>7. QED
  BY <1>1, <1>2, <1>3, <1>6, StillKeepsTracks

\* What the composer and the answers to it do touches no list.
LEMMA ComposerKeepsTracks ==
  ASSUME TypeInv, TypeInv', TrackInv, Held, UNCHANGED <<data, screen, walk, progress>>,
         WireQuiet, WireOrdered'
  PROVE  TrackInv'
<1>1. \A w \in Walkers : WalkQuiet(w)
  BY SameWalkQuiet
<1>2. QED
  BY <1>1, StillKeepsTracks DEF data, screen, progress

LEMMA OneCallHeld ==
  ASSUME TypeInv, NEW k \in Calls, call[k].pc \notin Stored, NEW pc, NEW u, NEW c, NEW arg, NEW http,
         \/ Begin(k, pc, u, c, arg, http) \/ Forget(k) \/ UNCHANGED call,
         UNCHANGED data
  PROVE  Held
<1>1. \A j \in Calls \ {k} : call'[j] = call[j]
  BY DEF Begin, Forget, TypeInv, StoreInv, Typed
<1>2. QED
  BY <1>1 DEF Held, data

LEMMA SubmissionsKeepTracks ==
  ASSUME TypeInv, TypeInv', TrackInv, NEW k \in SendSlots,
         \/ Submit(k) \/ GiveUp(k) \/ ServeRejoin(k) \/ RecoveryFails(k)
         \/ RejoinAcknowledged(k) \/ ClosedAnswer(k) \/ RefusedAnswer(k)
  PROVE  TrackInv'
<1>1. k \in Calls /\ k \in Walkers \cup SendSlots /\ UNCHANGED <<data, screen, walk, progress>>
  <2>1. k \in Calls
    BY WidgetAssumption DEF WidgetAssumption
  <2>2. CASE Submit(k) \/ GiveUp(k) \/ ServeRejoin(k)
    BY <2>1, <2>2 DEF Submit, GiveUp, ServeRejoin, store
  <2>3. CASE RecoveryFails(k)
    BY <2>1, <2>3 DEF RecoveryFails
  <2>4. CASE RejoinAcknowledged(k) \/ ClosedAnswer(k) \/ RefusedAnswer(k)
    BY <2>1, <2>4 DEF RejoinAcknowledged, ClosedAnswer, RefusedAnswer, store
  <2>5. QED
    BY <2>2, <2>3, <2>4
<1>2. /\ \/ UNCHANGED wire
         \/ \E kind \in {"joined", "refused"} : wire' = Append(wire, Signal(kind, k, 0))
         \/ \E kind \in {"joined", "closed", "refused"} : Arrives(kind) /\ Taken
  BY DEF Submit, Emit, GiveUp, ServeRejoin, RecoveryFails, RejoinAcknowledged,
         ClosedAnswer, RefusedAnswer, socket
<1>3. WireQuiet /\ WireOrdered'
  <2>1. ASSUME NEW kind \in {"joined", "refused"}, wire' = Append(wire, Signal(kind, k, 0))
        PROVE  TakesUp(0, FALSE)
    BY <1>1, <2>1, AppendingTakesUp
  <2>2. overtaken \subseteq overtaken' /\ WireOrdered
    BY <1>1 DEF data, TrackInv
  <2>3. ASSUME NEW kind \in {"joined", "closed", "refused"}, Arrives(kind), Taken
        PROVE  WireQuiet /\ WireOrdered'
    BY <2>2, <2>3, WireTracks
  <2>4. QED
    BY <1>2, <2>1, <2>2, <2>3, TakingUpTracks, WireTracks
<1>4. Held
  <2>1. CASE UNCHANGED call
    BY <1>1, <2>1 DEF Held, data
  <2>2. CASE Submit(k)
    <3>1. call[k].pc \notin Stored
      BY <2>2 DEF Submit, Free, At, Stored
    <3>2. Begin(k, "check", Visitor, thread, input, FALSE) \/ UNCHANGED call
      BY <2>2 DEF Submit, Emit
    <3>3. QED
      BY <1>1, <3>1, <3>2, OneCallHeld
  <2>3. CASE RecoveryFails(k)
    <3>1. call[k].pc \notin Stored /\ Forget(k)
      BY <2>3 DEF RecoveryFails, At, Stored
    <3>2. QED
      BY <1>1, <3>1, OneCallHeld
  <2>4. CASE RejoinAcknowledged(k) \/ ClosedAnswer(k)
    <3>1. PICK kind : Arrives(kind) /\ Taken /\ Head(wire).to = k
      BY <2>4 DEF RejoinAcknowledged, ClosedAnswer
    <3>2. At(k, "idle")
      BY <3>1, ArrivesFor
    <3>3. call[k].pc \notin Stored
      BY <3>2 DEF At, Stored
    <3>4. \/ Begin(k, "check", Visitor, submission[k].conv, submission[k].text, FALSE)
          \/ Begin(k, "find", Visitor, NoConv, "resolve", TRUE)
          \/ UNCHANGED call
      BY <2>4 DEF RejoinAcknowledged, ClosedAnswer
    <3>5. QED
      BY <1>1, <3>3, <3>4, OneCallHeld
  <2>5. QED
    BY <2>1, <2>2, <2>3, <2>4 DEF GiveUp, ServeRejoin, RefusedAnswer, store
<1>5. QED
  BY <1>1, <1>3, <1>4, ComposerKeepsTracks

LEMMA OthersKeepTracks ==
  ASSUME TypeInv, TypeInv', TrackInv,
         Refused \/ AskDetails \/ DetailsFail \/ \E t \in Texts : Type(t)
  PROVE  TrackInv'
<1>1. UNCHANGED <<data, call, screen, walk, progress, wire>>
  BY DEF Refused, AskDetails, DetailsFail, Type, store, socket
<1>2. Held /\ WireQuiet /\ WireOrdered'
  BY <1>1, WireTracks DEF Held, data, TrackInv
<1>3. QED
  BY <1>1, <1>2, ComposerKeepsTracks

LEMMA StaffCallsKeepTracks ==
  ASSUME TypeInv, TypeInv', TrackInv, NEW k \in StaffSlots, StaffCalls(k), UNCHANGED widget
  PROVE  TrackInv'
<1>1. /\ k \in Calls /\ At(k, "idle") /\ UNCHANGED <<data, screen, walk, progress, wire>>
      /\ \A j \in Calls \ {k} : call'[j] = call[j]
  <2>1. k \in Calls /\ StoreInv
    BY WidgetAssumption DEF WidgetAssumption, TypeInv
  <2>2. At(k, "idle") /\ UNCHANGED <<data, screen, walk, progress, wire>>
    BY DEF StaffCalls, widget, socket
  <2>3. \A j \in Calls \ {k} : call'[j] = call[j]
    BY <2>1 DEF StaffCalls, Begin, StoreInv, Typed
  <2>4. QED
    BY <2>1, <2>2, <2>3
<1>2. Held /\ WireQuiet /\ WireOrdered'
  BY <1>1, WireTracks DEF Held, data, TrackInv, At, Stored
<1>3. QED
  BY <1>1, <1>2, ComposerKeepsTracks

LEMMA SwitchKeepsTracks ==
  ASSUME TypeInv, TypeInv', TrackInv, Held, NEW c, SwitchTo(c),
         UNCHANGED <<data, panel, shown, socket, walk>>
  PROVE  TrackInv'
<1>1. /\ thread' = c /\ caughtUp' = (caughtUp /\ c = thread)
      /\ passed' = IF c = thread THEN passed ELSE passed \cup Behind(c, ToSet(shown))
      /\ UNCHANGED <<messages, overtaken, wire, shown, panel>>
  BY DEF SwitchTo, data, socket
<1>2. WireQuiet /\ WireOrdered'
  BY <1>1, WireTracks DEF TrackInv
<1>3. Growing
  BY <1>1, <1>2, QuietGrows
<1>4. caughtUp' => caughtUp /\ thread' = thread
  BY <1>1 DEF TypeInv, WidgetOK, Typings
<1>5. Caught'
  BY <1>3, <1>4, CaughtKept
<1>6. Behinds'
  <2>1. CASE c = thread
    BY <1>1, <1>3, <2>1, BehindsKept
  <2>2. CASE c # thread
    <3>1. ASSUME NEW m \in MessagesOf(thread)', NEW i \in ToSet(shown'), m.id < i
          PROVE  Tracked(m.id)'
      <4>1. m \in MessagesOf(c) /\ i \in ToSet(shown)
        BY <1>1, <3>1 DEF MessagesOf
      <4>2. m.id \in ToSet(shown) \/ m.id \in Behind(c, ToSet(shown))
        BY <3>1, <4>1 DEF Behind
      <4>3. m.id \in ToSet(shown') \/ m.id \in passed'
        BY <1>1, <2>2, <4>2
      <4>4. QED
        BY <4>3 DEF Tracked
    <3>2. QED
      BY <3>1 DEF Behinds
  <2>3. QED
    BY <2>1, <2>2
<1>7. ASSUME NEW w \in Walkers
      PROVE  WalkTracks(w)'
  BY <1>3, SameWalkQuiet, WalkKept
<1>8. QED
  BY <1>1, <1>2, <1>5, <1>6, <1>7 DEF TrackInv

LEMMA SwitchesKeepTracks ==
  ASSUME TypeInv, TypeInv', TrackInv, DetailsSaved \/ \E k \in SendSlots : Recover(k)
  PROVE  TrackInv'
<1>1. CASE DetailsSaved
  <2>1. /\ SwitchTo(details.conv) /\ UNCHANGED <<data, panel, shown, socket, walk>>
        /\ UNCHANGED call
    BY <1>1 DEF DetailsSaved, store
  <2>2. Held
    BY <2>1 DEF Held, data
  <2>3. QED
    BY <2>1, <2>2, SwitchKeepsTracks
<1>2. ASSUME NEW k \in SendSlots, Recover(k)
      PROVE  TrackInv'
  <2>1. /\ SwitchTo(call[k].answer) /\ UNCHANGED <<data, panel, shown, socket, walk>>
        /\ Forget(k) /\ call[k].pc \notin Stored /\ k \in Calls
    BY <1>2, WidgetAssumption DEF Recover, At, Stored, WidgetAssumption
  <2>2. Held
    BY <2>1, OneCallHeld
  <2>3. PICK c : c = call[k].answer
    OBVIOUS
  <2>4. SwitchTo(c)
    BY <2>1, <2>3
  <2>5. QED
    BY <2>1, <2>2, <2>4, SwitchKeepsTracks
<1>3. QED
  BY <1>1, <1>2

LEMMA BreakingKeepsTracks ==
  ASSUME TypeInv, TypeInv', TrackInv, Disconnect \/ Restart
  PROVE  TrackInv'
<1>1. Broken /\ WidgetOK /\ UNCHANGED <<messages, misreported>> /\ overtaken \subseteq overtaken'
  BY DEF Disconnect, Restart, TypeInv, ProcessDies, data
<1>2. /\ UNCHANGED <<screen, passed>> /\ room' = {} /\ wire' = <<>> /\ ~caughtUp'
      /\ \A w \in Walkers : WalkQuiet(w)
  BY <1>1, BrokenMoves DEF WalkQuiet
<1>3. WireQuiet /\ WireOrdered'
  BY <1>1, <1>2, WireTracks DEF TrackInv
<1>4. Growing
  <2>1. CASE Disconnect
    <3>1. Held
      BY <2>1 DEF Disconnect, Held, At, Stored, data
    <3>2. QED
      BY <1>1, <1>2, <1>3, <3>1, QuietGrows DEF screen
  <2>2. CASE Restart
    <3>1. ASSUME NEW m \in messages, Tracked(m.id), Newer(m.id)
          PROVE  Tracked(m.id)'
      <4>1. CASE m.id \in ToSet(shown) \cup overtaken \cup passed \cup misreported
        BY <1>1, <1>2, <4>1 DEF Tracked, screen
      <4>2. CASE \E k \in Calls : call[k].pc \in Stored /\ call[k].id = m.id
        <5>1. m.id \in overtaken'
          BY <2>2, <3>1, <4>2 DEF Restart, ProcessDies, At, Stored
        <5>2. QED
          BY <5>1 DEF Tracked
      <4>3. QED
        BY <3>1, <4>1, <4>2 DEF Tracked
    <3>2. QED
      BY <1>1, <1>2, <3>1 DEF Growing, screen
  <2>3. QED
    BY <2>1, <2>2
<1>5. QED
  BY <1>2, <1>3, <1>4, QuietKeepsTracks DEF screen

LEMMA ServerStepKeepsTracks ==
  ASSUME TypeInv, TypeInv', TrackInv, NEW k \in Calls, ServerStep(k)
  PROVE  TrackInv'
<1>1. /\ UNCHANGED <<panel, thread, shown, wire, room, caughtUp, passed, walk, overtaken, misreported>>
  BY DEF ServerStep, SendStep, Find, Create, FindAgain, AdmitSend, Insert, Touch, TouchFails,
         SetStatus, SetStatusReplyLost, AnnounceStatus, data, widget, screen, socket, progress
<1>2. StoreInv /\ Typed /\ Operation(k)
  BY DEF TypeInv, StoreInv, Operation, ServerStep, SendStep
<1>3. Held
  <2>1. \A j \in Calls \ {k} : call'[j] = call[j]
    BY <1>2, OperationGrows
  <2>2. call[k].pc \in Stored => call'[k].pc \in Stored /\ call'[k].id = call[k].id
    <3>1. CASE Touch(k) \/ TouchFails(k)
      <4>1. Goes(k, "publish") /\ "publish" \in Pcs
        BY <3>1 DEF Touch, TouchFails, Pcs
      <4>2. QED
        BY <1>2, <4>1, GoesMoves DEF Stored
    <3>2. CASE ~(Touch(k) \/ TouchFails(k))
      BY <3>2 DEF ServerStep, SendStep, Find, Create, FindAgain, AdmitSend, Insert,
                  SetStatus, SetStatusReplyLost, AnnounceStatus, At, Stored
    <3>3. QED
      BY <3>1, <3>2
  <2>3. QED
    BY <1>1, <2>1, <2>2 DEF Held
<1>4. WireQuiet /\ WireOrdered'
  BY <1>1, WireTracks DEF TrackInv
<1>5. CASE Insert(k)
  <2>1. /\ messages' = messages \cup {Document(k)} /\ Document(k).id = call[k].id
        /\ Goes(k, "touch") /\ "touch" \in Pcs
    BY <1>5 DEF Insert, Document, Pcs
  <2>2. call'[k].pc \in Stored /\ call'[k].id = call[k].id
    BY <1>2, <2>1, GoesMoves DEF Stored
  <2>3. \A i : Tracked(i) => Tracked(i)'
    BY <1>1, <1>3, TrackedStays
  <2>4. \A m \in messages' \ messages : Tracked(m.id)'
    BY <2>1, <2>2 DEF Tracked
  <2>5. \A i : OnWire(i) => OnWire(i)'
    BY <1>1 DEF OnWire
  <2>6. Growing
    BY <1>1, <2>1, <2>3, <2>4, <2>5 DEF Growing
  <2>7. QED
    BY <1>1, <1>4, <2>6, SameWalkQuiet, QuietKeepsTracks
<1>6. CASE ~Insert(k)
  <2>1. UNCHANGED messages
    BY <1>6 DEF ServerStep, SendStep, Find, Create, FindAgain, AdmitSend, Touch, TouchFails,
                SetStatus, SetStatusReplyLost, AnnounceStatus, data
  <2>2. QED
    BY <1>1, <1>3, <1>4, <2>1, SameWalkQuiet, StillKeepsTracks
<1>7. QED
  BY <1>5, <1>6

LEMMA AnsweringKeepsTracks ==
  ASSUME TypeInv, TypeInv', TrackInv, NEW k \in Calls,
         PublishToRoom(k) \/ AnswerRefusal(k)
  PROVE  TrackInv'
<1>1. /\ UNCHANGED <<panel, thread, shown, room, caughtUp, passed, walk>>
      /\ overtaken \subseteq overtaken' /\ misreported \subseteq misreported' /\ WireOrdered
  BY DEF PublishToRoom, AnswerRefusal, Publish, RefuseSend, InsertFails, InsertReplyLost, data,
         screen, progress, TrackInv
<1>2. StoreInv /\ Typed /\ Operation(k)
  BY DEF TypeInv, StoreInv, Operation, PublishToRoom, AnswerRefusal
<1>3. \A j \in Calls \ {k} : call'[j] = call[j]
  BY <1>2, OperationGrows
<1>4. CASE AnswerRefusal(k)
  <2>1. PICK kind \in {"closed", "refused"} : wire' = wire \o Answering(k, kind, 0)
    BY <1>4 DEF AnswerRefusal
  <2>2. Adds(k, kind, 0, FALSE)
    <3>1. wire \o <<>> = wire
      BY DEF TypeInv, WidgetOK, Typings
    <3>2. QED
      BY <2>1, <3>1 DEF Adds
  <2>3. TakesUp(0, FALSE)
    <3>1. 0 \in 0..MaxMessages /\ FALSE \in BOOLEAN
      BY ConversationsAssumption
    <3>2. QED
      BY <2>1, <2>2, <3>1, AddingTakesUp
  <2>4. WireQuiet /\ WireOrdered'
    BY <1>1, <2>3, TakingUpTracks
  <2>5. Held
    <3>1. call[k].pc \notin Stored
      BY <1>4 DEF AnswerRefusal, RefuseSend, InsertFails, InsertReplyLost, At, Stored
    <3>2. QED
      BY <1>1, <1>3, <3>1 DEF Held
  <2>6. CASE UNCHANGED messages
    BY <1>1, <2>4, <2>5, <2>6, SameWalkQuiet, StillKeepsTracks
  <2>7. CASE InsertReplyLost(k)
    <3>1. /\ messages' = messages \cup {Document(k)} /\ Document(k).id \in misreported'
      BY <2>7 DEF InsertReplyLost, Document
    <3>2. \A m \in messages' \ messages : Tracked(m.id)'
      BY <3>1 DEF Tracked
    <3>3. \A i : Tracked(i) => Tracked(i)'
      BY <1>1, <2>5, TrackedStays
    <3>4. \A i \in ToSet(shown') : Tracked(i)'
      BY DEF Tracked
    <3>5. Growing
      BY <1>1, <2>4, <3>1, <3>2, <3>3, <3>4 DEF Growing, WireQuiet
    <3>6. QED
      BY <1>1, <2>4, <3>5, SameWalkQuiet, QuietKeepsTracks
  <2>8. QED
    BY <1>4, <2>6, <2>7 DEF AnswerRefusal, RefuseSend, InsertFails, data
<1>5. CASE PublishToRoom(k)
  <2> DEFINE heard == call[k].conv \in room
             i == call[k].id
  <2>1. /\ At(k, "publish") /\ Adds(k, "ack", i, heard)
        /\ overtaken' = IF Newer(i) THEN overtaken \cup {i} ELSE overtaken
        /\ UNCHANGED messages
    BY <1>5 DEF PublishToRoom, Publish, Adds
  <2>2. i \in 0..MaxMessages /\ heard \in BOOLEAN /\ i \in Nat
    BY <1>2 DEF Typed, CallRecords
  <2>3. \E m \in messages : m.id = i /\ m.conv = call[k].conv
    BY <2>1 DEF TypeInv, DatesInv, Carried, At, Stored
  <2>4. ASSUME NEW m \in messages, m.id = i
        PROVE  m.conv = call[k].conv
    BY <1>2, <2>3, <2>4 DEF StoreInv, IdsAreOnce
  <2> HIDE DEF heard
  <2>5. TakesUp(i, heard)
    BY <2>1, <2>2, AddingTakesUp
  <2>6. \A j \in StoredIds : i < j => i \in overtaken'
    BY <2>1, <2>3, StoredMessages
  <2>7. WireQuiet /\ WireOrdered'
    BY <1>1, <2>2, <2>5, <2>6, TakingUpTracks
  <2>8. ASSUME NEW m \in messages, Tracked(m.id)
        PROVE  Tracked(m.id)' \/ m.id = i
    <3>1. CASE m.id \in ToSet(shown) \cup overtaken \cup passed \cup misreported
      BY <1>1, <3>1 DEF Tracked
    <3>2. ASSUME NEW j \in Calls, call[j].pc \in Stored, call[j].id = m.id
          PROVE  Tracked(m.id)' \/ m.id = i
      <4>1. CASE j = k
        BY <3>2, <4>1
      <4>2. CASE j # k
        <5>1. call'[j] = call[j]
          BY <1>3, <4>2
        <5>2. QED
          BY <3>2, <5>1 DEF Tracked
      <4>3. QED
        BY <4>1, <4>2
    <3>3. QED
      BY <2>8, <3>1, <3>2 DEF Tracked
  <2>9. ASSUME NEW m \in messages, Tracked(m.id), Newer(m.id)
        PROVE  Tracked(m.id)'
    <3>1. m.id = i => m.id \in overtaken'
      BY <2>1, <2>9
    <3>2. QED
      BY <2>8, <2>9, <3>1 DEF Tracked
  <2>10. ASSUME NEW m \in messages, m.conv \in room', Tracked(m.id) \/ OnWire(m.id)
         PROVE  Tracked(m.id)' \/ OnWire(m.id)'
    <3>1. CASE OnWire(m.id)
      <4>1. \E n \in DOMAIN wire' : wire'[n].kind = "message" /\ wire'[n].id = m.id
        BY <2>5, <3>1 DEF OnWire, TakesUp
      <4>2. QED
        BY <4>1 DEF OnWire
    <3>2. CASE Tracked(m.id)
      <4>1. m.id = i => heard
        BY <1>1, <2>4, <2>10 DEF heard
      <4>2. m.id = i => \E n \in DOMAIN wire' : wire'[n].kind = "message" /\ wire'[n].id = m.id
        BY <2>5, <4>1 DEF TakesUp
      <4>3. m.id = i => OnWire(m.id)'
        BY <4>2 DEF OnWire
      <4>4. QED
        BY <2>8, <3>2, <4>3
    <3>3. QED
      BY <2>10, <3>1, <3>2
  <2>11. Growing
    BY <1>1, <2>1, <2>9, <2>10 DEF Growing
  <2>12. QED
    BY <1>1, <2>1, <2>7, <2>11, SameWalkQuiet, QuietKeepsTracks
<1>6. QED
  BY <1>4, <1>5

\* A message shown as it arrives: what is older was shown, is on its way in spite
\* of being overtaken, or is passed.
LEMMA LiveKeepsTracks ==
  ASSUME TypeInv, TypeInv', TrackInv, NEW kind \in {"message", "ack"}, Arrives(kind), Taken,
         NEW i \in Ids, i = Head(wire).id, ShowLive(i), UNCHANGED <<store, panel, thread, walk>>
  PROVE  TrackInv'
<1>1. /\ 1 \in DOMAIN wire /\ Head(wire) = wire[1] /\ wire[1].kind = kind /\ i = wire[1].id
      /\ SignalOK(1) /\ i \in StoredIds /\ UNCHANGED messages
  <2>1. /\ 1 \in DOMAIN wire /\ Head(wire) = wire[1] /\ wire[1].kind = kind /\ SignalOK(1)
    BY Arriving
  <2>2. QED
    BY <2>1 DEF SignalOK, store, data
<1>2. ToSet(shown') = ToSet(shown) \cup {i} /\ UNCHANGED caughtUp
  BY <1>1, ShowLiveMoves
<1>3. /\ passed' = IF caughtUp THEN passed ELSE passed \cup Behind(thread, {i})
      /\ UNCHANGED <<messages, overtaken, misreported, call>>
  BY DEF ShowLive, store, data
<1>4. WireQuiet /\ WireOrdered'
  BY <1>2, <1>3, WireTracks DEF TrackInv
<1>5. Held /\ passed \subseteq passed' /\ overtaken \subseteq overtaken'
  BY <1>3 DEF Held
<1>6. Growing
  BY <1>2, <1>3, <1>4, <1>5, QuietGrows
<1>7. \A j : Tracked(j) => Tracked(j)'
  BY <1>2, <1>5, TrackedStays
<1>8. Caught'
  BY <1>2, <1>6, CaughtKept
<1>9. ASSUME NEW m \in MessagesOf(thread)', NEW j \in ToSet(shown'), m.id < j
      PROVE  Tracked(m.id)'
  <2>1. m \in MessagesOf(thread) /\ m \in messages /\ m.id \in Nat
    BY <1>3, StoredMessages DEF MessagesOf
  <2>2. CASE j \in ToSet(shown)
    BY <1>7, <1>9, <2>1, <2>2 DEF TrackInv, Behinds
  <2>3. CASE j = i /\ ~caughtUp
    <3>1. m.id \in ToSet(shown) \/ m.id \in passed'
      BY <1>3, <1>9, <2>1, <2>3 DEF Behind
    <3>2. QED
      BY <1>2, <3>1 DEF Tracked
  <2>4. CASE j = i /\ caughtUp
    <3>1. CASE Tracked(m.id)
      BY <1>7, <3>1
    <3>2. CASE OnWire(m.id)
      <4>1. PICK n \in DOMAIN wire : wire[n].kind = "message" /\ wire[n].id = m.id
        BY <3>2 DEF OnWire
      <4>2. n \in Nat /\ n # 1 /\ 1 < n
        <5>1. n \in 1..Len(wire) /\ Len(wire) \in Nat
          BY DEF TypeInv, WidgetOK, Typings
        <5>2. m.id # i
          BY <1>9, <2>1, <2>4
        <5>3. QED
          BY <1>1, <4>1, <5>1, <5>2
      <4>3. wire[n].id < wire[1].id
        BY <1>1, <1>9, <2>4, <4>1
      <4>4. m.id \in overtaken
        BY <1>1, <4>1, <4>2, <4>3 DEF TrackInv, WireOrdered
      <4>5. QED
        BY <1>3, <4>4 DEF Tracked
    <3>3. QED
      BY <2>1, <2>4, <3>1, <3>2 DEF TrackInv, Caught
  <2>5. QED
    BY <1>2, <2>2, <2>3, <2>4
<1>10. ASSUME NEW w \in Walkers
       PROVE  WalkTracks(w)'
  BY <1>6, SameWalkQuiet, WalkKept
<1>11. panel' # "ready" => shown' = <<>>
  <2>1. link = "up"
    BY Arriving
  <2>2. panel = "ready"
    BY <2>1 DEF TypeInv, WidgetOK, PanelOK
  <2>3. QED
    BY <2>2
<1>12. QED
  BY <1>4, <1>8, <1>9, <1>10, <1>11 DEF TrackInv, Behinds

LEMMA ShownLiveKeepsTracks ==
  ASSUME TypeInv, TypeInv', TrackInv, Hear \/ \E k \in SendSlots : SendAcknowledged(k)
  PROVE  TrackInv'
<1>1. ASSUME NEW kind \in {"message", "ack"}, Arrives(kind), Taken, ShowLive(Head(wire).id),
             UNCHANGED <<store, panel, thread, walk>>
      PROVE  TrackInv'
  <2>1. wire[1] \in Signals /\ Head(wire) = wire[1] /\ wire[1].kind = kind /\ SignalOK(1)
        /\ 1 \in DOMAIN wire
    BY <1>1, Arriving
  <2>2. Head(wire).id \in Ids
    BY <2>1, StoredIdsTyped DEF SignalOK, TypeInv
  <2>3. PICK i \in Ids : i = Head(wire).id
    BY <2>2
  <2>4. ShowLive(i)
    BY <1>1, <2>3
  <2>5. QED
    BY <1>1, <2>3, <2>4, LiveKeepsTracks
<1>2. CASE Hear
  BY <1>1, <1>2 DEF Hear
<1>3. ASSUME NEW k \in SendSlots, SendAcknowledged(k)
      PROVE  TrackInv'
  <2>1. CASE Stage(k, "none")
    <3>1. /\ UNCHANGED <<store, panel, thread, shown, walk, progress>>
          /\ Arrives("ack") /\ Taken
      BY <1>3, <2>1 DEF SendAcknowledged
    <3>2. WireQuiet /\ WireOrdered'
      BY <3>1, WireTracks DEF TrackInv, store, data
    <3>3. Held
      BY <3>1 DEF Held, store, data
    <3>4. QED
      BY <3>1, <3>2, <3>3, SameWalkQuiet, StillKeepsTracks DEF store, data, progress
  <2>2. CASE ~Stage(k, "none")
    BY <1>1, <1>3, <2>2 DEF SendAcknowledged
  <2>3. QED
    BY <2>1, <2>2
<1>4. QED
  BY <1>2, <1>3

\* A page is the oldest of what follows the cursor; if nothing follows the page,
\* it is all of it.
LEMMA PageReaches ==
  ASSUME TypeInv, NEW w \in Walkers
  PROVE  LET page == Following(w, PageSize)
         IN  /\ \A m \in MessagesOf(walk[w].conv) : \A j \in page :
                  m.id > walk[w].after /\ m.id <= j => m.id \in page
             /\ Following(w, PageSize + 1) = page =>
                  \A m \in MessagesOf(walk[w].conv) : m.id > walk[w].after => m.id \in page
<1> DEFINE later == {m.id : m \in {x \in MessagesOf(walk[w].conv) : x.id > walk[w].after}}
           rank(i) == Cardinality({j \in later : j < i})
<1>1. later \in SUBSET (1..MaxMessages) /\ MaxMessages \in Nat
  BY ConversationsAssumption DEF TypeInv, StoreInv, Typed, MessagesOf, MessageDocs, Ids
<1>2. /\ IsFiniteSet(later)
      /\ \A i \in later : rank(i) \in Nat
      /\ \A i, j \in later : j < i => rank(j) < rank(i)
  <2>1. /\ IsFiniteSet(later) /\ Cardinality(later) \in Nat
        /\ \A i \in later : Cardinality(Below(later, i)) \in 0..(Cardinality(later) - 1)
        /\ \A i, j \in later : j < i => Cardinality(Below(later, j)) < Cardinality(Below(later, i))
    <3> HIDE DEF later
    <3>1. QED
      BY <1>1, Ranks
  <2>2. \A i : rank(i) = Cardinality(Below(later, i))
    BY DEF Below
  <2> HIDE DEF later, rank
  <2>3. QED
    BY <2>1, <2>2
<1>3. \A n : Following(w, n) = {i \in later : rank(i) < n}
  BY DEF Following
<1>4. \A m \in MessagesOf(walk[w].conv) : m.id > walk[w].after => m.id \in later
  OBVIOUS
<1>5. PageSize \in Nat \ {0}
  BY WidgetAssumption DEF WidgetAssumption
<1>6. \A i : rank(i) = Cardinality(Below(later, i))
  BY DEF Below
<1> HIDE DEF later, rank
<1>7. ASSUME NEW i \in later, NEW j \in Following(w, PageSize), i <= j
      PROVE  i \in Following(w, PageSize)
  <2>1. j \in later /\ rank(j) < PageSize
    BY <1>3
  <2>2. i = j \/ rank(i) < rank(j)
    BY <1>1, <1>2, <1>7, <2>1
  <2>3. rank(i) < PageSize
    BY <1>2, <1>5, <2>1, <2>2
  <2>4. QED
    BY <1>3, <2>3
<1>8. ASSUME Following(w, PageSize + 1) = Following(w, PageSize), NEW i \in later
      PROVE  i \in Following(w, PageSize)
  <2>1. SUFFICES ASSUME i \notin Following(w, PageSize)
                 PROVE  FALSE
    OBVIOUS
  <2> DEFINE rest == later \ Following(w, PageSize)
  <2>2. rest \in SUBSET Nat /\ rest # {} /\ Following(w, PageSize) \subseteq later
    <3>1. Following(w, PageSize) \subseteq later
      BY <1>3
    <3>2. \A z \in later : z \in Nat
      BY <1>1
    <3>3. i \in rest
      BY <1>8, <2>1
    <3>4. QED
      BY <3>1, <3>2, <3>3
  <2> HIDE DEF rest
  <2>3. Min(rest) \in rest /\ \A x \in rest : Min(rest) <= x
    BY <2>2, LeastNumber
  <2>4. PICK x \in rest : \A y \in rest : x <= y
    BY <2>3
  <2>5. x \in later /\ x \notin Following(w, PageSize) /\ x \notin Following(w, PageSize + 1)
    BY <1>8, <2>4 DEF rest
  <2> DEFINE below == Below(later, x)
  <2>6. below \in SUBSET (0..MaxMessages) /\ \A y \in below : y \in Following(w, PageSize)
    <3>1. \A y \in later : y < x => y \notin rest
      BY <1>1, <2>2, <2>4
    <3>2. \A y \in below : y \in later /\ y < x
      BY DEF Below
    <3>3. \A y \in later : y \in 0..MaxMessages
      BY <1>1
    <3>4. \A y \in later : y \notin rest => y \in Following(w, PageSize)
      BY DEF rest
    <3> HIDE DEF below
    <3>5. QED
      BY <3>1, <3>2, <3>3, <3>4
  <2>7. CASE below = {}
    <3>1. rank(x) = 0
      BY <2>7, <1>6, FS_EmptySet
    <3>2. QED
      BY <1>3, <1>5, <2>5, <3>1
  <2>8. CASE below # {}
    <3>1. Max(below) \in below /\ \A y \in below : y <= Max(below)
      BY <1>1, <2>6, <2>8, GreatestNumber
    <3> HIDE DEF below
    <3>2. PICK y \in below : \A z \in below : z <= y
      BY <3>1
    <3>3. y \in later /\ y < x /\ rank(y) < PageSize /\ y \in Nat /\ x \in Nat
      BY <1>1, <1>3, <2>5, <2>6, <3>2 DEF below, Below
    <3>4. below = Below(later, y) \cup {y} /\ y \notin Below(later, y)
      <4>1. \A z \in later : z \in Nat
        BY <1>1
      <4>2. \A z : z \in below <=> z \in later /\ z < x
        BY DEF below, Below
      <4>3. \A z : z \in Below(later, y) <=> z \in later /\ z < y
        BY DEF Below
      <4>4. ASSUME NEW z
            PROVE  z \in below <=> z \in Below(later, y) \/ z = y
        <5>1. z \in below => z \in later /\ z \in Nat /\ z < x /\ z <= y
          BY <3>2, <4>1, <4>2
        <5>2. z \in Below(later, y) => z \in later /\ z \in Nat /\ z < y
          BY <4>1, <4>3
        <5>3. z \in below => z \in Below(later, y) \/ z = y
          BY <3>3, <4>3, <5>1
        <5>4. z \in Below(later, y) \/ z = y => z \in below
          BY <3>3, <4>2, <5>2
        <5>5. QED
          BY <5>3, <5>4
      <4>5. QED
        BY <3>3, <4>3, <4>4
    <3>5. IsFiniteSet(Below(later, y))
      BY <1>2, FS_Subset DEF Below
    <3>6. Cardinality(below) = Cardinality(Below(later, y)) + 1
      BY <3>4, <3>5, FS_AddElement
    <3>7. rank(x) = rank(y) + 1 /\ rank(y) \in Nat
      BY <1>2, <1>6, <3>3, <3>6 DEF below
    <3>8. QED
      BY <1>3, <1>5, <2>5, <3>3, <3>7
  <2>9. QED
    BY <2>7, <2>8
<1>9. QED
  BY <1>4, <1>7, <1>8

LEMMA ReadPageKeepsTracks ==
  ASSUME TypeInv, TypeInv', TrackInv, NEW w \in Walkers, ReadPage(w)
  PROVE  TrackInv'
<1> DEFINE page == Following(w, PageSize)
<1>1. /\ UNCHANGED <<store, screen, socket, progress>>
      /\ walk[w].pc = "page"
      /\ walk'[w].pc \in {"page", "read"} /\ walk'[w].conv = walk[w].conv
      /\ walk'[w].after = Max(page \cup {walk[w].after})
      /\ walk'[w].got = walk[w].got \cup page
      /\ walk'[w].more = (Following(w, PageSize + 1) # page)
      /\ \A u \in Walkers \ {w} : walk'[u] = walk[u]
  BY ReadPageMoves DEF Walking
<1>2. /\ UNCHANGED <<messages, overtaken, call, shown, thread, panel, wire, room, caughtUp, passed>>
      /\ Held
  BY <1>1 DEF store, data, screen, socket, progress, Held
<1>3. WireQuiet /\ WireOrdered'
  BY <1>2, WireTracks DEF TrackInv
<1>4. Growing
  BY <1>2, <1>3, QuietGrows
<1>5. Behinds' /\ Caught'
  BY <1>2, <1>4, BehindsKept, CaughtKept
<1>6. ASSUME NEW u \in Walkers, u # w
      PROVE  WalkTracks(u)'
  BY <1>1, <1>4, <1>6, SameWalkQuiet, WalkKept
<1>7. /\ walk[w].after \in 0..MaxMessages /\ page \in SUBSET Ids /\ walk[w].got \subseteq StoredIds
      /\ walk[w].after \in walk[w].got \cup ToSet(shown) \cup {0}
      /\ \A i \in walk[w].got : i <= walk[w].after
      /\ \A m \in MessagesOf(walk[w].conv) : m.id <= walk[w].after => Walked(w, m)
  BY <1>1, PageRead DEF TypeInv, TrackInv, WalkTracks, WidgetOK, Typings, Walks, WalkOK
<1>8. /\ \A m \in MessagesOf(walk[w].conv) : \A j \in page :
           m.id > walk[w].after /\ m.id <= j => m.id \in page
      /\ Following(w, PageSize + 1) = page =>
           \A m \in MessagesOf(walk[w].conv) : m.id > walk[w].after => m.id \in page
  BY PageReaches
<1>9. /\ \A i \in walk[w].got : i \in Nat
      /\ \A m \in MessagesOf(walk[w].conv) : m.id \in Nat
  BY <1>7, StoredMessages DEF MessagesOf
<1> HIDE DEF page
<1>10. PICK cursor \in 0..MaxMessages :
         /\ walk'[w].after = cursor /\ cursor \in page \cup {walk[w].after}
         /\ \A i \in page \cup {walk[w].after} : i <= cursor
  <2> DEFINE cursor == Max(page \cup {walk[w].after})
  <2>1. /\ cursor \in 0..MaxMessages /\ cursor \in page \cup {walk[w].after}
        /\ \A i \in page \cup {walk[w].after} : i <= cursor
    BY <1>7, CursorTyped
  <2>2. walk'[w].after = cursor
    BY <1>1
  <2> HIDE DEF cursor
  <2>3. QED
    BY <2>1, <2>2
<1>11. ASSUME NEW m \in MessagesOf(walk[w].conv), m.id <= walk[w].after \/ m.id \in page
       PROVE  Walked(w, m)'
  <2>1. CASE m.id \in page
    BY <1>1, <2>1 DEF Walked
  <2>2. CASE m.id <= walk[w].after
    <3>1. \A i : Tracked(i) => Tracked(i)'
      BY <1>2, TrackedStays
    <3>2. Reached(m.id) => Reached(m.id)'
      BY <1>2 DEF Reached
    <3>3. QED
      BY <1>1, <1>7, <2>2, <3>1, <3>2 DEF Walked
  <2>3. QED
    BY <1>11, <2>1, <2>2
<1>12. WalkTracks(w)'
  <2>1. walk'[w].after \in walk'[w].got \cup ToSet(shown') \cup {0}
    BY <1>1, <1>2, <1>7, <1>10
  <2>2. ASSUME NEW i \in walk'[w].got
        PROVE  i <= walk'[w].after
    <3>1. CASE i \in page
      BY <1>10, <3>1
    <3>2. CASE i \in walk[w].got
      <4>1. i <= walk[w].after /\ walk[w].after <= cursor /\ i \in Nat
        BY <1>7, <1>9, <1>10, <3>2
      <4>2. i <= cursor
        BY <1>7, <1>10, <4>1
      <4>3. QED
        BY <1>10, <4>2
    <3>3. QED
      BY <1>1, <3>1, <3>2
  <2>3. ASSUME NEW m \in MessagesOf(walk[w].conv)', m.id <= walk'[w].after
        PROVE  Walked(w, m)'
    <3>1. m \in MessagesOf(walk[w].conv) /\ m.id \in Nat
      BY <1>1, <1>2, <1>9 DEF MessagesOf
    <3>2. m.id > walk[w].after => m.id \in page
      <4>1. m.id > walk[w].after => cursor \in page
        BY <1>7, <1>10, <2>3, <3>1
      <4>2. QED
        BY <1>8, <1>10, <2>3, <3>1, <4>1
    <3>3. m.id <= walk[w].after \/ m.id > walk[w].after
      BY <1>7, <3>1
    <3>4. QED
      BY <1>11, <3>1, <3>2, <3>3
  <2>4. ASSUME ~walk'[w].more, NEW m \in MessagesOf(walk[w].conv)'
        PROVE  Walked(w, m)'
    <3>1. m \in MessagesOf(walk[w].conv) /\ m.id \in Nat
      BY <1>1, <1>2, <1>9 DEF MessagesOf
    <3>2. m.id > walk[w].after => m.id \in page
      BY <1>1, <1>8, <2>4, <3>1
    <3>3. m.id <= walk[w].after \/ m.id > walk[w].after
      BY <1>7, <3>1
    <3>4. QED
      BY <1>11, <3>1, <3>2, <3>3
  <2>5. QED
    BY <1>1, <2>1, <2>2, <2>3, <2>4 DEF WalkTracks
<1>13. QED
  BY <1>2, <1>3, <1>5, <1>6, <1>12 DEF TrackInv

LEMMA ShowKeepsTracks ==
  ASSUME TypeInv, TypeInv', TrackInv, NEW w \in Walkers, Show(w)
  PROVE  TrackInv'
<1> DEFINE got == walk[w].got
           c == walk[w].conv
<1>1. /\ walk[w].pc = "read" /\ AppendMessages(got) /\ walk' = [walk EXCEPT ![w] = NoWalk]
      /\ UNCHANGED <<store, room, wire>> /\ passed \subseteq passed'
  BY DEF Show, Walking, progress
<1>2. UNCHANGED <<messages, overtaken, call>> /\ Held
  BY <1>1 DEF store, data, Held
<1>3. got \subseteq StoredIds /\ walk \in [Walkers -> Walks] /\ thread \in 0..MaxConvs
  BY DEF TypeInv, WidgetOK, WalkOK, Typings
<1>4. ToSet(shown') = ToSet(shown) \cup got
  BY <1>1, <1>3, Appends
<1>5. WireQuiet /\ WireOrdered'
  BY <1>1, <1>2, WireTracks DEF TrackInv
<1>6. Growing /\ \A i : Tracked(i) => Tracked(i)'
  BY <1>1, <1>2, <1>4, <1>5, QuietGrows, TrackedStays
<1>7. \A u \in Walkers : WalkTracks(u)'
  <2>1. \A u \in Walkers : walk'[u].pc = "idle" \/ walk'[u] = walk[u]
    BY <1>1, <1>3, NoWalkTyped
  <2>2. QED
    BY <1>6, <2>1, SameWalkQuiet, WalkKept DEF WalkQuiet
<1>8. panel \in {"loading", "ready"}
  BY <1>1 DEF TypeInv, WidgetOK, Typings, Panels, PanelOK, Walking
<1>9. /\ \A i \in got : i <= walk[w].after /\ i \in Nat
      /\ walk[w].after \in Nat
      /\ \A m \in MessagesOf(c) : m.id <= walk[w].after => Walked(w, m)
      /\ walk[w].fresh /\ ~walk[w].more => \A m \in MessagesOf(c) : Walked(w, m) \/ OnWire(m.id)
  <2>1. walk[w].after \in Nat
    BY <1>3, ConversationsAssumption DEF Walks
  <2>2. \A i \in got : i \in Nat
    BY <1>3, StoredMessages
  <2>3. WalkTracks(w)
    BY DEF TrackInv
  <2>4. QED
    BY <1>1, <2>1, <2>2, <2>3 DEF WalkTracks
<1>10. \A m \in messages : m.id \in Nat
  BY StoredMessages
<1>11. \A i : i \in got \/ Tracked(i) => Tracked(i)'
  BY <1>4, <1>6 DEF Tracked
<1> HIDE DEF got
<1>12. CASE panel = "loading"
  <2>1. /\ panel' = "ready" /\ thread' = c /\ UNCHANGED progress
    BY <1>12 DEF Show
  <2>2. ~caughtUp' /\ ToSet(shown) = {}
    <3>1. link = "off" /\ shown = <<>>
      BY <1>12 DEF TypeInv, WidgetOK, Typings, Links, PanelOK, TrackInv
    <3>2. ~caughtUp
      BY <3>1 DEF TypeInv, WidgetOK, LinkOK
    <3>3. QED
      BY <2>1, <3>1, <3>2 DEF progress, ToSet
  <2>3. ASSUME NEW m \in MessagesOf(thread)', NEW i \in ToSet(shown'), m.id < i
        PROVE  Tracked(m.id)'
    <3>1. m \in MessagesOf(c) /\ m.id \in Nat /\ i \in got
      BY <1>2, <1>4, <1>10, <2>1, <2>2, <2>3 DEF MessagesOf
    <3>2. m.id <= walk[w].after
      BY <1>9, <2>3, <3>1 DEF got
    <3>3. Walked(w, m)
      BY <1>9, <3>1, <3>2
    <3>4. QED
      BY <1>11, <2>2, <3>3 DEF Walked, Reached, got
  <2>4. QED
    BY <1>5, <1>7, <2>1, <2>2, <2>3 DEF TrackInv, Behinds, Caught
<1>13. CASE panel = "ready"
  <2>1. /\ UNCHANGED <<panel, thread>>
        /\ caughtUp' = (caughtUp \/ (walk[w].fresh /\ ~walk[w].more /\ c = thread))
        /\ passed' = IF c = thread THEN passed ELSE passed \cup Behind(thread, got)
    BY <1>13 DEF Show, got
  <2>2. ASSUME NEW m \in MessagesOf(thread), Walked(w, m)
        PROVE  Tracked(m.id)'
    <3>1. Reached(m.id) => Tracked(m.id)
      <4>1. ASSUME NEW j \in ToSet(shown), m.id <= j
            PROVE  Tracked(m.id)
        <5>1. j \in Nat /\ m.id \in Nat
          BY <1>10, StoredMessages DEF MessagesOf
        <5>2. CASE m.id = j
          BY <5>2 DEF Tracked
        <5>3. CASE m.id < j
          BY <5>3 DEF TrackInv, Behinds
        <5>4. QED
          BY <4>1, <5>1, <5>2, <5>3
      <4>2. QED
        BY <4>1 DEF Reached
    <3>2. QED
      BY <1>11, <2>2, <3>1 DEF Walked, got
  <2>3. ASSUME NEW m \in MessagesOf(thread)', NEW i \in ToSet(shown'), m.id < i
        PROVE  Tracked(m.id)'
    <3>1. m \in MessagesOf(thread) /\ m.id \in Nat
      BY <1>2, <1>10, <2>1 DEF MessagesOf
    <3>2. CASE i \in ToSet(shown)
      BY <1>11, <2>3, <3>1, <3>2 DEF TrackInv, Behinds
    <3>3. CASE i \in got /\ c = thread
      <4>1. m.id <= walk[w].after
        BY <1>9, <2>3, <3>1, <3>3 DEF got
      <4>2. Walked(w, m)
        BY <1>9, <3>1, <3>3, <4>1
      <4>3. QED
        BY <2>2, <3>1, <4>2
    <3>4. CASE i \in got /\ c # thread
      <4>1. m.id \in ToSet(shown) \cup got \/ m.id \in passed'
        BY <2>1, <2>3, <3>1, <3>4 DEF Behind
      <4>2. QED
        BY <1>4, <4>1 DEF Tracked
    <3>5. QED
      BY <1>4, <3>2, <3>3, <3>4
  <2>4. ASSUME caughtUp', NEW m \in MessagesOf(thread)'
        PROVE  Tracked(m.id)' \/ OnWire(m.id)'
    <3>1. m \in MessagesOf(thread)
      BY <1>2, <2>1 DEF MessagesOf
    <3>2. Tracked(m.id) \/ OnWire(m.id) \/ Walked(w, m)
      BY <1>9, <2>1, <2>4, <3>1 DEF TrackInv, Caught
    <3>3. OnWire(m.id) => OnWire(m.id)'
      BY <1>1 DEF OnWire
    <3>4. QED
      BY <1>11, <2>2, <3>1, <3>2, <3>3
  <2>5. QED
    BY <1>5, <1>7, <1>13, <2>1, <2>3, <2>4 DEF TrackInv, Behinds, Caught
<1>14. QED
  BY <1>8, <1>12, <1>13

LEMMA TrackInit ==
  ASSUME WidgetInit
  PROVE  TrackInv
<1>1. /\ shown = <<>> /\ wire = <<>> /\ ~caughtUp /\ messages = {}
      /\ walk = [w \in Walkers |-> NoWalk]
  BY DEF WidgetInit, StoreInit
<1>2. \A w \in Walkers : WalkTracks(w)
  BY <1>1, NoWalkTyped DEF WalkTracks
<1>3. QED
  BY <1>1, <1>2 DEF TrackInv, Behinds, Caught, WireOrdered, MessagesOf

LEMMA NextKeepsTracks ==
  ASSUME TypeInv, TrackInv, WidgetNext
  PROVE  TrackInv'
<1> TypeInv'
  BY NextKeepsTypes
<1>1. ASSUME NEW k \in StaffSlots, StaffCalls(k), UNCHANGED widget
      PROVE  TrackInv'
  BY <1>1, StaffCallsKeepTracks
<1>2. ASSUME NEW k \in Calls, Server(k)
      PROVE  TrackInv'
  BY <1>2, ServerStepKeepsTracks, AnsweringKeepsTracks DEF Server
<1>3. CASE OpenSession \/ OpeningFails
  BY <1>3, OpeningKeepsTracks
<1>4. ASSUME NEW w \in Walkers,
             \/ ConversationResolved(w) \/ Load(w) \/ WalkFails(w)
             \/ Connect(w) \/ ServeJoin(w) \/ JoinTimesOut(w)
      PROVE  TrackInv'
  BY <1>4, OpeningKeepsTracks, WalksKeepTracks, ReadPageKeepsTracks, ShowKeepsTracks DEF Load
<1>5. CASE Disconnect \/ Restart \/ Refused
  BY <1>5, BreakingKeepsTracks, OthersKeepTracks
<1>6. ASSUME NEW t \in Texts, Type(t)
      PROVE  TrackInv'
  BY <1>6, OthersKeepTracks
<1>7. CASE AskDetails \/ DetailsSaved \/ DetailsFail
  BY <1>7, OthersKeepTracks, SwitchesKeepTracks
<1>8. ASSUME NEW k \in SendSlots,
             \/ Submit(k) \/ GiveUp(k) \/ ServeRejoin(k) \/ Recover(k) \/ RecoveryFails(k)
      PROVE  TrackInv'
  BY <1>8, SubmissionsKeepTracks, SwitchesKeepTracks
<1>9. CASE Receive
  BY <1>9, ShownLiveKeepsTracks, WalksKeepTracks, SubmissionsKeepTracks DEF Receive
<1>10. QED
  BY <1>1, <1>2, <1>3, <1>4, <1>5, <1>6, <1>7, <1>8, <1>9 DEF WidgetNext

LEMMA StutterKeepsTracks ==
  ASSUME TypeInv, TrackInv, UNCHANGED everything
  PROVE  TrackInv'
<1>1. /\ UNCHANGED <<store, screen, socket, walk, progress>>
      /\ TypeInv'
  BY StutterKeepsTypes DEF everything, widget
<1>2. Held /\ WireQuiet /\ WireOrdered' /\ UNCHANGED data
  BY <1>1, WireTracks DEF Held, store, data, socket, TrackInv
<1>3. QED
  BY <1>1, <1>2, ComposerKeepsTracks

LEMMA TracksInductive == WidgetSpec => []TrackInv
<1>1. WidgetInit => TrackInv
  BY TrackInit
<1>2. TypeInv /\ TrackInv /\ [WidgetNext]_everything => TrackInv'
  BY NextKeepsTracks, StutterKeepsTracks
<1>3. QED
  BY <1>1, <1>2, Inductive, PTL DEF WidgetSpec

\* A widget that is connected, has caught up and has nothing on its way shows every
\* message of its thread, over any broken connections, switched conversations,
\* overlapping loads and page limits, but those its cursor passed, those published
\* after a newer one had been stored, and those published to nobody because their
\* insertion was reported as failed (widget.ts appendMessage, catchUpMessages and
\* loadHistory).
THEOREM NothingIsMissing == WidgetSpec => []NothingMissing
<1>1. TypeInv /\ TrackInv => NothingMissing
  <2> SUFFICES ASSUME TypeInv, TrackInv, Settled, NEW m \in MessagesOf(thread)
               PROVE  m.id \in ToSet(shown) \cup overtaken \cup passed \cup misreported
    BY DEF NothingMissing
  <2>1. caughtUp /\ wire = <<>> /\ \A k \in Calls : call[k].conv = thread => ~Sending(k)
    BY DEF Settled
  <2>2. Tracked(m.id)
    BY <2>1 DEF TrackInv, Caught, OnWire
  <2>3. ASSUME NEW k \in Calls, call[k].pc \in Stored, call[k].id = m.id
        PROVE  FALSE
    <3>1. PICK n \in messages : n.id = m.id /\ n.conv = call[k].conv
      BY <2>3 DEF TypeInv, DatesInv, Carried
    <3>2. n = m
      BY <3>1 DEF TypeInv, StoreInv, IdsAreOnce, MessagesOf
    <3>3. call[k].conv = thread /\ Sending(k)
      BY <2>3, <3>1, <3>2 DEF MessagesOf, Sending, Stored, At
    <3>4. QED
      BY <2>1, <3>3
  <2>4. QED
    BY <2>2, <2>3 DEF Tracked
<1>2. QED
  BY <1>1, Inductive, TracksInductive, PTL
=============================================================================
