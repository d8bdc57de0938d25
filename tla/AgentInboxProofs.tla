-------------------------- MODULE AgentInboxProofs --------------------------
(***************************************************************************)
(* Theorems about one agent's inbox, for every number of conversations,    *)
(* messages, colleagues and clicks, every length of the pages, and every   *)
(* failure of the network.                                                 *)
(***************************************************************************)
EXTENDS AgentInbox, ConversationsProofs

IdsOf(c) == {m.id : m \in MessagesOf(c)}

----------------------------------------------------------------------------
(* The inductive invariant: types, and where what is shown comes from.     *)

RowStates == {"absent", "open", "closed"}

Listings == [pc : {"none", "asked", "read", "failed"}, page : [Convs -> RowStates]]

Events == [kind : {"message", "updated"}, conv : Convs, id : 0..MaxMessages,
           status : {"none", "open", "closed"}]

Sends == {"check", "insert", "touch", "publish"}

\* Somebody waits for an answer only in the agent's own two slots.
SlotOK(k) ==
  /\ At(k, "answered") => call[k].http
  /\ call[k].http =>
       \/ /\ k = ReplySlot
          /\ call[k].pc \in Sends \cup {"answered"}
          /\ At(k, "answered") /\ call[k].answer # Failed =>
               call[k].answer \in IdsOf(call[k].conv)
       \/ /\ k = ActionSlot
          /\ call[k].pc \in {"setStatus", "announce", "answered"}
          /\ call[k].arg \in {"open", "closed"}
          /\ At(k, "answered") /\ call[k].answer # Failed =>
               call[k].answer = call[k].conv /\ call[k].conv \in Convs

\* An event is about a stored message or a conversation.
EventOK(e) ==
  /\ Exists(e.conv)
  /\ e.kind = "message" => e.id \in IdsOf(e.conv)
  /\ e.kind = "updated" => e.status \in {"open", "closed"}

\* A row's conversation exists.
RowsExist ==
  \A c \in Convs : Listed(c) \/ listing.page[c] # "absent" => Exists(c)

ListTyped ==
  /\ rows \in [Convs -> RowStates] /\ listing \in Listings
  /\ RowsExist

Walks == [pc : {"none", "page", "read"}, after : 0..MaxMessages, got : SUBSET Ids,
          pages : Nat, more : BOOLEAN]

Newers == [pc : {"none", "page", "read"}, conv : Convs \cup {NoConv},
           after : 0..MaxMessages, got : SUBSET Ids, more : BOOLEAN,
           cursor : 0..MaxMessages, fresh : BOOLEAN]

ViewTyped ==
  /\ walk \in Walks /\ newer \in Newers
  /\ selected \in Convs \cup {NoConv} /\ (selected # NoConv => Listed(selected))
  /\ thread \in {"idle", "loading", "ready", "error"}
  /\ selected = NoConv => thread = "idle" /\ walk.pc = "none"

EventsOK ==
  /\ wire \in Seq(Events) /\ \A i \in DOMAIN wire : EventOK(wire[i])
  /\ link \in BOOLEAN /\ (~link => wire = <<>>)

SlotsOK == \A k \in Calls : SlotOK(k)

InboxTyped == ListTyped /\ ViewTyped /\ EventsOK /\ SlotsOK

\* A page read from the database holds messages of its conversation, and the
\* list holds messages of its thread, or stray replies.
Shows ==
  /\ walk.pc = "read" => walk.got \subseteq IdsOf(selected)
  /\ newer.pc = "read" => newer.got \subseteq IdsOf(newer.conv)
  /\ shown \in Seq(Ids) /\ IsInjective(shown)
  /\ ToSet(shown) \subseteq seen /\ seen \subseteq Ids
  /\ strayed \subseteq Ids
  /\ ToSet(shown) \subseteq IdsOf(selected) \cup strayed

TypeInv == StoreInv /\ DatesInv /\ InboxTyped /\ Shows

----------------------------------------------------------------------------
(* The requests of the thread.                                             *)

\* A page that has been read: messages of its conversation after the cursor.
LEMMA PageRead ==
  ASSUME TypeInv, NEW c, NEW after \in 0..MaxMessages, NEW page,
         page = Oldest(IdsAfter(c, after), PageSize)
  PROVE  /\ page \subseteq IdsAfter(c, after) /\ page \subseteq IdsOf(c)
         /\ IdsAfter(c, after) \subseteq Ids
         /\ (page # IdsAfter(c, after)) \in BOOLEAN
<1>1. messages \subseteq MessageDocs
  BY DEF TypeInv, StoreInv, Typed
<1>2. page \subseteq IdsAfter(c, after)
  BY DEF Oldest
<1>3. IdsAfter(c, after) \subseteq IdsOf(c) /\ IdsAfter(c, after) \subseteq Ids
  BY <1>1 DEF IdsAfter, IdsOf, MessagesOf, MessageDocs
<1>4. QED
  BY <1>2, <1>3

\* The records stay typed when fields of them are assigned, one after the other.
LEMMA WalkReads ==
  ASSUME NEW w \in Walks, NEW got \in SUBSET Ids, NEW more \in BOOLEAN,
         NEW v, v = [w EXCEPT !.pc = "read", !.got = got, !.more = more]
  PROVE  v \in Walks
<1> DEFINE w1 == [w EXCEPT !.pc = "read"]
           w2 == [w1 EXCEPT !.got = got]
           w3 == [w2 EXCEPT !.more = more]
<1>1. v = w3
  BY DEF Walks
<1>2. w1 \in Walks
  BY DEF Walks
<1> HIDE DEF w1
<1>3. w2 \in Walks
  BY <1>2 DEF Walks
<1> HIDE DEF w2
<1>4. w3 \in Walks
  BY <1>3 DEF Walks
<1>5. QED
  BY <1>1, <1>4

LEMMA NoWalkTyped == NoWalk \in Walks
BY ConversationsAssumption DEF NoWalk, Walks

LEMMA WalkStarts ==
  ASSUME NEW after \in 0..MaxMessages, NEW pages \in Nat,
         NEW v, v = [NoWalk EXCEPT !.pc = "page", !.after = after, !.pages = pages]
  PROVE  v \in Walks
<1> DEFINE w1 == [NoWalk EXCEPT !.pc = "page"]
           w2 == [w1 EXCEPT !.after = after]
           w3 == [w2 EXCEPT !.pages = pages]
<1>1. w1 \in Walks /\ v = w3
  BY NoWalkTyped DEF Walks
<1> HIDE DEF w1
<1>2. w2 \in Walks
  BY <1>1 DEF Walks
<1> HIDE DEF w2
<1>3. w3 \in Walks
  BY <1>2 DEF Walks
<1>4. QED
  BY <1>1, <1>3

LEMMA NewerReads ==
  ASSUME NEW w \in Newers, NEW got \in SUBSET Ids, NEW more \in BOOLEAN,
         NEW v, v = [w EXCEPT !.pc = "read", !.got = got, !.more = more]
  PROVE  v \in Newers
<1> DEFINE w1 == [w EXCEPT !.pc = "read"]
           w2 == [w1 EXCEPT !.got = got]
           w3 == [w2 EXCEPT !.more = more]
<1>1. v = w3
  BY DEF Newers
<1>2. w1 \in Newers
  BY DEF Newers
<1> HIDE DEF w1
<1>3. w2 \in Newers
  BY <1>2 DEF Newers
<1> HIDE DEF w2
<1>4. w3 \in Newers
  BY <1>3 DEF Newers
<1>5. QED
  BY <1>1, <1>4

LEMMA NewerAsks ==
  ASSUME NEW w \in Newers, NEW c \in Convs \cup {NoConv},
         NEW v, v = [w EXCEPT !.pc = "page", !.conv = c, !.after = w.cursor, !.fresh = TRUE]
  PROVE  v \in Newers
<1> DEFINE w1 == [w EXCEPT !.pc = "page"]
           w2 == [w1 EXCEPT !.conv = c]
           w3 == [w2 EXCEPT !.after = w.cursor]
           w4 == [w3 EXCEPT !.fresh = TRUE]
<1>1. v = w4
  BY DEF Newers
<1>2. w1 \in Newers /\ w.cursor \in 0..MaxMessages
  BY DEF Newers
<1> HIDE DEF w1
<1>3. w2 \in Newers
  BY <1>2 DEF Newers
<1> HIDE DEF w2
<1>4. w3 \in Newers
  BY <1>2, <1>3 DEF Newers
<1> HIDE DEF w3
<1>5. w4 \in Newers
  BY <1>4 DEF Newers
<1>6. QED
  BY <1>1, <1>5

LEMMA NoNewerTyped == NoNewer \in Newers
BY ConversationsAssumption DEF NoNewer, Newers, NoConv

LEMMA NewerLeft ==
  ASSUME NEW w \in Newers, NEW cursor \in 0..MaxMessages,
         NEW v, v = [w EXCEPT !.cursor = cursor]
  PROVE  v \in Newers
BY DEF Newers

LEMMA NewerForgets ==
  ASSUME NEW w \in Newers, NEW v, v = [w EXCEPT !.cursor = 0, !.fresh = FALSE]
  PROVE  v \in Newers
<1> DEFINE w1 == [w EXCEPT !.cursor = 0]
           w2 == [w1 EXCEPT !.fresh = FALSE]
<1>1. v = w2
  BY DEF Newers
<1>2. w1 \in Newers
  BY ConversationsAssumption DEF Newers
<1> HIDE DEF w1
<1>3. w2 \in Newers
  BY <1>2 DEF Newers
<1>4. QED
  BY <1>1, <1>3

LEMMA CursorTyped ==
  ASSUME NEW got \in SUBSET Ids, NEW after \in 0..MaxMessages
  PROVE  /\ Max(got \cup {after}) \in 0..MaxMessages
         /\ Max(got \cup {after}) \in got \cup {after}
         /\ \A i \in got \cup {after} : i <= Max(got \cup {after})
<1>1. got \cup {after} \in SUBSET (0..MaxMessages) /\ got \cup {after} # {}
  BY DEF Ids
<1>2. QED
  BY <1>1, ConversationsAssumption, GreatestNumber

\* What each action does to the requests of the thread, field by field.
LEMMA SelectMoves ==
  ASSUME TypeInv, NEW c \in Convs, Select(c)
  PROVE  /\ walk' \in Walks /\ newer' \in Newers
         /\ c = selected => walk' = walk
         /\ c # selected => /\ walk'.pc = "page" /\ walk'.after = 0 /\ walk'.got = {}
                            /\ walk'.pages = 0 /\ walk'.more = FALSE
         /\ newer'.pc = newer.pc /\ newer'.conv = newer.conv /\ newer'.after = newer.after
         /\ newer'.got = newer.got /\ newer'.more = newer.more
         /\ newer'.cursor = 0 /\ newer'.fresh = FALSE
<1>1. walk \in Walks /\ newer \in Newers
  BY DEF TypeInv, InboxTyped, ViewTyped
<1>2. newer' = [newer EXCEPT !.cursor = 0, !.fresh = FALSE]
  BY DEF Select
<1>3. newer' \in Newers
  BY <1>1, <1>2, NewerForgets
<1>4. /\ newer'.pc = newer.pc /\ newer'.conv = newer.conv /\ newer'.after = newer.after
      /\ newer'.got = newer.got /\ newer'.more = newer.more
      /\ newer'.cursor = 0 /\ newer'.fresh = FALSE
  BY <1>1, <1>2 DEF Newers
<1>5. \/ walk' = walk /\ c = selected
      \/ walk' = [NoWalk EXCEPT !.pc = "page"] /\ c # selected
  BY DEF Select
<1>6. [NoWalk EXCEPT !.pc = "page"] \in Walks
  BY NoWalkTyped DEF Walks
<1>7. walk' \in Walks
  BY <1>1, <1>5, <1>6
<1>8. c # selected => /\ walk'.pc = "page" /\ walk'.after = 0 /\ walk'.got = {}
                      /\ walk'.pages = 0 /\ walk'.more = FALSE
  BY <1>5 DEF NoWalk
<1>9. QED
  BY <1>3, <1>4, <1>5, <1>7, <1>8

LEMMA ReadPageMoves ==
  ASSUME TypeInv, ReadPage
  PROVE  /\ walk' \in Walks /\ walk'.pc = "read" /\ walk'.after = walk.after
         /\ walk'.pages = walk.pages
         /\ walk'.got = Oldest(IdsAfter(selected, walk.after), PageSize)
         /\ walk'.more = (walk'.got # IdsAfter(selected, walk.after))
         /\ walk'.got \subseteq IdsOf(selected)
<1>1. walk \in Walks /\ walk.after \in 0..MaxMessages
  BY DEF TypeInv, InboxTyped, ViewTyped, Walks
<1> DEFINE later == IdsAfter(selected, walk.after)
           page == Oldest(later, PageSize)
<1>2. walk' = [walk EXCEPT !.pc = "read", !.got = page, !.more = page # later]
  BY DEF ReadPage
<1>3. page \subseteq later /\ page \subseteq IdsOf(selected) /\ later \subseteq Ids
  BY <1>1, PageRead
<1> HIDE DEF page, later
<1>4. page \in SUBSET Ids /\ (page # later) \in BOOLEAN
  BY <1>3
<1>5. walk' \in Walks
  BY <1>1, <1>2, <1>4, WalkReads
<1>6. /\ walk'.pc = "read" /\ walk'.after = walk.after
      /\ walk'.pages = walk.pages /\ walk'.got = page /\ walk'.more = (page # later)
  BY <1>1, <1>2 DEF Walks
<1>7. QED
  BY <1>3, <1>5, <1>6 DEF page, later

LEMMA ReadMoreMoves ==
  ASSUME TypeInv, ReadMore
  PROVE  /\ newer' \in Newers /\ newer'.pc = "read" /\ newer'.after = newer.after
         /\ newer'.conv = newer.conv /\ newer'.cursor = newer.cursor
         /\ newer'.fresh = newer.fresh
         /\ newer'.got = Oldest(IdsAfter(newer.conv, newer.after), PageSize)
         /\ newer'.more = (newer'.got # IdsAfter(newer.conv, newer.after))
         /\ newer'.got \subseteq IdsOf(newer.conv)
<1>1. newer \in Newers /\ newer.after \in 0..MaxMessages
  BY DEF TypeInv, InboxTyped, ViewTyped, Newers
<1> DEFINE later == IdsAfter(newer.conv, newer.after)
           page == Oldest(later, PageSize)
<1>2. newer' = [newer EXCEPT !.pc = "read", !.got = page, !.more = page # later]
  BY DEF ReadMore
<1>3. page \subseteq later /\ page \subseteq IdsOf(newer.conv) /\ later \subseteq Ids
  BY <1>1, PageRead
<1> HIDE DEF page, later
<1>4. page \in SUBSET Ids /\ (page # later) \in BOOLEAN
  BY <1>3
<1>5. newer' \in Newers
  BY <1>1, <1>2, <1>4, NewerReads
<1>6. /\ newer'.pc = "read" /\ newer'.after = newer.after
      /\ newer'.conv = newer.conv /\ newer'.cursor = newer.cursor
      /\ newer'.fresh = newer.fresh /\ newer'.got = page /\ newer'.more = (page # later)
  BY <1>1, <1>2 DEF Newers
<1>7. QED
  BY <1>3, <1>5, <1>6 DEF page, later

LEMMA ShowPageMoves ==
  ASSUME TypeInv, ShowPage
  PROVE  LET cursor == Max(walk.got \cup {walk.after})
             goOn == walk.more /\ walk.pages + 1 < MaxThreadPages
         IN  /\ walk' \in Walks /\ newer' \in Newers
             /\ cursor \in 0..MaxMessages /\ \A i \in walk.got \cup {walk.after} : i <= cursor
             /\ goOn => /\ walk'.pc = "page" /\ walk'.after = cursor
                        /\ newer' = newer /\ walk.more
             /\ ~goOn => /\ walk'.pc = "none"
                         /\ newer'.cursor = IF walk.more THEN cursor ELSE 0
                         /\ newer'.pc = newer.pc /\ newer'.conv = newer.conv
                         /\ newer'.after = newer.after /\ newer'.got = newer.got
                         /\ newer'.more = newer.more /\ newer'.fresh = newer.fresh
<1> DEFINE cursor == Max(walk.got \cup {walk.after})
           goOn == walk.more /\ walk.pages + 1 < MaxThreadPages
           left == IF walk.more THEN cursor ELSE 0
<1>1. /\ walk \in Walks /\ newer \in Newers /\ walk.pages + 1 \in Nat
      /\ walk.got \in SUBSET Ids /\ walk.after \in 0..MaxMessages
  BY DEF TypeInv, InboxTyped, ViewTyped, Walks
<1>20. /\ cursor \in 0..MaxMessages
       /\ \A i \in walk.got \cup {walk.after} : i <= cursor
  BY <1>1, CursorTyped
<1>2. /\ cursor \in 0..MaxMessages /\ left \in 0..MaxMessages
      /\ \A i \in walk.got \cup {walk.after} : i <= cursor
  BY <1>20, ConversationsAssumption
<1>3. /\ walk' = IF goOn
                 THEN [NoWalk EXCEPT !.pc = "page", !.after = cursor,
                                     !.pages = walk.pages + 1]
                 ELSE NoWalk
      /\ newer' = IF goOn THEN newer ELSE [newer EXCEPT !.cursor = left]
  BY DEF ShowPage
<1> HIDE DEF cursor, left
<1>4. CASE goOn
  <2>1. walk' = [NoWalk EXCEPT !.pc = "page", !.after = cursor, !.pages = walk.pages + 1]
    BY <1>3, <1>4
  <2> HIDE DEF goOn
  <2>2. walk' \in Walks
    BY <1>1, <1>2, <2>1, WalkStarts
  <2>3. walk'.pc = "page" /\ walk'.after = cursor
    BY <2>1 DEF NoWalk
  <2>4. QED
    BY <1>1, <1>2, <1>3, <1>4, <2>2, <2>3 DEF cursor, goOn
<1>5. CASE ~goOn
  <2>1. walk' = NoWalk /\ newer' = [newer EXCEPT !.cursor = left]
    BY <1>3, <1>5
  <2> HIDE DEF goOn
  <2>2. newer' \in Newers
    BY <1>1, <1>2, <2>1, NewerLeft
  <2>3. /\ newer'.cursor = left
        /\ newer'.pc = newer.pc /\ newer'.conv = newer.conv
        /\ newer'.after = newer.after /\ newer'.got = newer.got
        /\ newer'.more = newer.more /\ newer'.fresh = newer.fresh
    BY <1>1, <2>1 DEF Newers
  <2>4. walk' \in Walks /\ walk'.pc = "none"
    BY <2>1, NoWalkTyped DEF NoWalk
  <2>5. QED
    BY <1>2, <1>5, <2>2, <2>3, <2>4 DEF left, cursor, goOn
<1>6. QED
  BY <1>4, <1>5

LEMMA ShowMoreMoves ==
  ASSUME TypeInv, ShowMore
  PROVE  /\ newer' \in Newers /\ newer'.pc = "none" /\ newer'.fresh = FALSE
         /\ newer.conv # selected => newer'.cursor = newer.cursor
         /\ newer.conv = selected =>
              newer'.cursor = IF newer.more THEN Max(newer.got \cup {newer.after}) ELSE 0
<1>1. /\ newer \in Newers /\ newer.got \in SUBSET Ids /\ newer.after \in 0..MaxMessages
      /\ newer.cursor \in 0..MaxMessages
  BY DEF TypeInv, InboxTyped, ViewTyped, Newers
<1> DEFINE cursor == Max(newer.got \cup {newer.after})
           left == IF newer.more THEN cursor ELSE 0
<1>20. cursor \in 0..MaxMessages
  BY <1>1, CursorTyped
<1>2. left \in 0..MaxMessages
  BY <1>20, ConversationsAssumption
<1>3. \/ newer.conv = selected /\ newer' = [NoNewer EXCEPT !.cursor = left]
      \/ newer.conv # selected /\ newer' = [NoNewer EXCEPT !.cursor = newer.cursor]
  BY DEF ShowMore
<1> HIDE DEF cursor, left
<1>4. newer' \in Newers
  BY <1>1, <1>2, <1>3, NewerLeft, NoNewerTyped
<1>5. /\ newer'.pc = "none" /\ newer'.fresh = FALSE
      /\ newer.conv # selected => newer'.cursor = newer.cursor
      /\ newer.conv = selected => newer'.cursor = left
  BY <1>3 DEF NoNewer
<1>6. QED
  BY <1>4, <1>5 DEF left, cursor

LEMMA LoadMoreFailsMoves ==
  ASSUME TypeInv, LoadMoreFails
  PROVE  /\ newer' \in Newers /\ newer'.pc = "none" /\ newer'.fresh = FALSE
         /\ newer'.cursor = newer.cursor
<1>1. newer \in Newers /\ newer.cursor \in 0..MaxMessages
  BY DEF TypeInv, InboxTyped, ViewTyped, Newers
<1>2. newer' = [NoNewer EXCEPT !.cursor = newer.cursor]
  BY DEF LoadMoreFails
<1>3. newer' \in Newers
  BY <1>1, <1>2, NewerLeft, NoNewerTyped
<1>4. QED
  BY <1>2, <1>3 DEF NoNewer

LEMMA LoadMoreMoves ==
  ASSUME TypeInv, LoadMore
  PROVE  /\ newer' \in Newers /\ newer'.pc = "page" /\ newer'.conv = selected
         /\ newer'.after = newer.cursor /\ newer'.cursor = newer.cursor
         /\ newer'.fresh = TRUE
<1>1. newer \in Newers /\ selected \in Convs \cup {NoConv}
  BY DEF TypeInv, InboxTyped, ViewTyped
<1>2. newer' = [newer EXCEPT !.pc = "page", !.conv = selected, !.after = newer.cursor,
                             !.fresh = TRUE]
  BY DEF LoadMore
<1>3. newer' \in Newers
  BY <1>1, <1>2, NewerAsks
<1>4. QED
  BY <1>1, <1>2, <1>3 DEF Newers

\* A batch appended through the set of ids that were seen.
LEMMA Appends ==
  ASSUME TypeInv, NEW ids \in SUBSET Ids, AppendMessages(ids)
  PROVE  /\ shown' \in Seq(Ids) /\ IsInjective(shown') /\ IsPrefix(shown, shown')
         /\ ToSet(shown') = ToSet(shown) \cup (ids \ seen)
         /\ seen' = seen \cup ids /\ seen' \subseteq Ids /\ ToSet(shown') \subseteq seen'
<1> DEFINE S == ids \ seen
<1>1. /\ shown \in Seq(1..MaxMessages) /\ IsInjective(shown) /\ MaxMessages \in Nat
      /\ ToSet(shown) \subseteq seen /\ seen \subseteq Ids
  BY ConversationsAssumption DEF TypeInv, Shows, Ids
<1>2. S \in SUBSET (1..MaxMessages) /\ S \cap ToSet(shown) = {}
  BY <1>1 DEF Ids
<1>3. shown' = shown \o InOrder(S) /\ seen' = seen \cup ids
  BY DEF AppendMessages
<1> HIDE DEF S
<1>4. shown' = Appended(shown, S)
  BY <1>3 DEF Appended
<1>5. /\ shown' \in Seq(1..MaxMessages) /\ IsInjective(shown')
      /\ ToSet(shown') = ToSet(shown) \cup S /\ IsPrefix(shown, shown')
  BY <1>1, <1>2, <1>4, AppendedInOrder
<1>6. QED
  BY <1>1, <1>3, <1>5 DEF S, Ids

----------------------------------------------------------------------------
(* The store, under the inbox's steps.                                     *)

USE ConversationsAssumption, InboxAssumption

\* An action of the inbox or of a customer that begins a call does so in an
\* idle slot.
LEMMA BegunKeepsStore ==
  ASSUME StoreInv, DatesInv, NEW k \in Calls, At(k, "idle"),
         NEW pc, NEW u, NEW c, NEW arg, NEW http, Starts(k, pc, u, c, arg, http)
  PROVE  StoreInv' /\ DatesInv'
<1>1. Typed /\ UNCHANGED data
  BY DEF StoreInv, Starts
<1>2. StoreInv'
  BY StartsKeepStore
<1>3. call'[k].pc = pc /\ \A j \in Calls \ {k} : call'[j] = call[j]
  BY <1>1, StartsMoves
<1>4. pc \in {"find", "check", "setStatus"}
  BY DEF Starts
<1>5. call'[k].pc \notin Stored /\ call[k].pc \notin Stored
  BY <1>3, <1>4 DEF At, Stored
<1>6. QED
  BY <1>1, <1>2, <1>3, <1>5, CallsKeepDates

\* A response that has been received.
LEMMA ForgetKeepsStore ==
  ASSUME StoreInv, DatesInv, NEW k \in Calls, At(k, "answered"), Forget(k),
         UNCHANGED data
  PROVE  /\ StoreInv' /\ DatesInv' /\ call'[k] = Idle
         /\ \A j \in Calls \ {k} : call'[j] = call[j]
<1>1. call \in [Calls -> CallRecords]
  BY DEF StoreInv, Typed
<1>2. call' = [j \in Calls |-> IF j \in {k} THEN Idle ELSE call[j]]
  BY <1>1 DEF Forget
<1>3. Abandons({k})
  BY <1>2 DEF Abandons
<1>4. StoreInv'
  BY <1>3, AbandonsKeepsStore
<1>5. call'[k] = Idle /\ \A j \in Calls \ {k} : call'[j] = call[j]
  BY <1>2
<1>6. call'[k].pc \notin Stored /\ call[k].pc \notin Stored
  BY <1>5, IdleCall DEF At, Stored
<1>7. QED
  BY <1>4, <1>5, <1>6, CallsKeepDates

LEMMA AnyCustomer ==
  ASSUME StoreInv, NEW c \in Convs
  PROVE  conv[c].customer \in Customers \cup {NoCustomer}
BY DEF StoreInv, Typed, Documents

LEMMA StaffCallsStart ==
  ASSUME StoreInv, NEW k \in Calls, StaffCalls(k) \/ CustomerCalls(k)
  PROVE  /\ At(k, "idle")
         /\ \E pc, u, c, arg : Starts(k, pc, u, c, arg, FALSE)
<1>1. CASE CustomerCalls(k)
  <2>1. PICK u \in Customers : Begin(k, "find", u, NoConv, "resolve", FALSE)
    BY <1>1 DEF CustomerCalls
  <2>2. Starts(k, "find", u, NoConv, "resolve", FALSE)
    <3>1. NoConv \in 0..MaxConvs
      BY DEF NoConv
    <3>2. UNCHANGED data
      BY <1>1 DEF CustomerCalls
    <3>3. QED
      BY <2>1, <3>1, <3>2 DEF Starts, Args
  <2>3. QED
    BY <1>1, <2>2 DEF CustomerCalls
<1>2. CASE StaffCalls(k)
  <2>1. PICK c \in Convs :
          /\ Exists(c)
          /\ \/ Begin(k, "check", conv[c].customer, c, "reply", FALSE)
             \/ \E status \in {"open", "closed"} \ {conv[c].status} :
                  Begin(k, "setStatus", conv[c].customer, c, status, FALSE)
    BY <1>2 DEF StaffCalls
  <2>2. conv[c].customer \in Customers \cup {NoCustomer} /\ c \in 0..MaxConvs
    BY AnyCustomer DEF Convs
  <2>3. CASE Begin(k, "check", conv[c].customer, c, "reply", FALSE)
    <3>1. Starts(k, "check", conv[c].customer, c, "reply", FALSE)
      BY <1>2, <2>2, <2>3 DEF Starts, StaffCalls, Args
    <3>2. QED
      BY <1>2, <3>1 DEF StaffCalls
  <2>4. CASE \E status \in {"open", "closed"} \ {conv[c].status} :
               Begin(k, "setStatus", conv[c].customer, c, status, FALSE)
    <3>1. PICK status \in {"open", "closed"} :
                 Begin(k, "setStatus", conv[c].customer, c, status, FALSE)
      BY <2>4
    <3>2. Starts(k, "setStatus", conv[c].customer, c, status, FALSE)
      BY <1>2, <2>1, <2>2, <3>1 DEF Starts, StaffCalls, Args
    <3>3. QED
      BY <1>2, <3>2 DEF StaffCalls
  <2>5. QED
    BY <2>1, <2>3, <2>4
<1>3. QED
  BY <1>1, <1>2

LEMMA ReplyStarts ==
  ASSUME TypeInv, Reply
  PROVE  /\ At(ReplySlot, "idle") /\ ReplySlot \in Calls
         /\ Starts(ReplySlot, "check", conv[selected].customer, selected, "reply", TRUE)
<1>1. selected \in Convs
  BY DEF Reply, TypeInv, InboxTyped, ViewTyped
<1>2. conv[selected].customer \in Customers \cup {NoCustomer} /\ selected \in 0..MaxConvs
  BY <1>1, AnyCustomer DEF TypeInv, Convs
<1>3. QED
  BY <1>1, <1>2 DEF Reply, Starts, Args

LEMMA ChangeStatusStarts ==
  ASSUME TypeInv, ChangeStatus,
         NEW arg, arg = IF rows[selected] = "closed" THEN "open" ELSE "closed"
  PROVE  /\ At(ActionSlot, "idle") /\ ActionSlot \in Calls /\ arg \in {"open", "closed"}
         /\ Starts(ActionSlot, "setStatus", conv[selected].customer, selected, arg, TRUE)
<1>1. selected \in Convs /\ Listed(selected)
  BY DEF ChangeStatus, TypeInv, InboxTyped, ViewTyped
<1>2. conv[selected].customer \in Customers \cup {NoCustomer} /\ selected \in 0..MaxConvs
  BY <1>1, AnyCustomer DEF TypeInv, Convs
<1>3. Exists(selected)
  BY <1>1 DEF TypeInv, InboxTyped, ListTyped, RowsExist
<1>4. QED
  BY <1>1, <1>2, <1>3 DEF ChangeStatus, Starts, Args

LEMMA ServerOperates ==
  ASSUME NEW k \in Calls, Server(k)
  PROVE  Operation(k)
BY DEF Server, QuietStep, SendStep, PublishMessage, WriteStatus, WriteStatusUnheard,
       AnnounceUpdate, Operation

\* The steps of the page that leave the store alone.
Aside ==
  \/ AskList \/ ShowList \/ ListFails
  \/ \E c \in Convs : Select(c)
  \/ ShowPage \/ LoadFails \/ LoadMore \/ ShowMore \/ LoadMoreFails
  \/ Connect \/ Disconnect \/ OnMessage \/ OnConversationUpdate
  \/ ReadList \/ ReadPage \/ ReadMore

LEMMA AsideKeepsStore ==
  ASSUME Aside
  PROVE  UNCHANGED store
<1>1. \A c \in Convs : Select(c) => UNCHANGED store
  BY DEF Select
<1>2. AskList \/ ShowList \/ ListFails \/ Connect \/ Disconnect \/ OnMessage
        \/ OnConversationUpdate \/ ReadList => UNCHANGED store
  BY DEF AskList, ShowList, ListFails, Connect, Disconnect, OnMessage,
         OnConversationUpdate, ReadList
<1>3. ShowPage \/ LoadFails \/ LoadMore \/ ShowMore \/ LoadMoreFails \/ ReadPage
        \/ ReadMore => UNCHANGED store
  BY DEF ShowPage, LoadFails, LoadMore, ShowMore, LoadMoreFails, ReadPage, ReadMore
<1>4. QED
  BY <1>1, <1>2, <1>3 DEF Aside

\* What a step of the inbox may be to the store.
LEMMA InboxSteps ==
  ASSUME InboxNext
  PROVE  \/ Aside
         \/ Reply \/ ReplyAnswered \/ ChangeStatus \/ ActionAnswered
         \/ \E k \in Calls : Server(k)
         \/ \E k \in StaffSlots : (StaffCalls(k) \/ CustomerCalls(k)) /\ UNCHANGED inbox
BY DEF InboxNext, Browser, Aside

LEMMA InboxKeepsStore ==
  ASSUME TypeInv, InboxNext
  PROVE  /\ StoreInv' /\ DatesInv'
         /\ messages \subseteq messages'
         /\ \A c \in Convs : Exists(c) => Exists(c)'
<1>0. StoreInv /\ DatesInv
  BY DEF TypeInv
<1>1. CASE Aside
  <2>1. UNCHANGED store
    BY <1>1, AsideKeepsStore
  <2>2. UNCHANGED <<conv, messages>>
    BY <2>1 DEF store, data
  <2>3. QED
    BY <1>0, <2>1, <2>2, StutterKeepsStore, StutterKeepsDates DEF Exists
<1>2. ASSUME UNCHANGED data
      PROVE  messages \subseteq messages' /\ \A c \in Convs : Exists(c) => Exists(c)'
  BY <1>2 DEF data, Exists
<1>3. CASE Reply
  <2>1. /\ At(ReplySlot, "idle") /\ ReplySlot \in Calls /\ UNCHANGED data
        /\ Starts(ReplySlot, "check", conv[selected].customer, selected, "reply", TRUE)
    BY <1>3, ReplyStarts DEF Reply
  <2>2. QED
    BY <1>0, <1>2, <2>1, BegunKeepsStore
<1>4. CASE ChangeStatus
  <2> DEFINE arg == IF rows[selected] = "closed" THEN "open" ELSE "closed"
  <2>1. /\ At(ActionSlot, "idle") /\ ActionSlot \in Calls /\ UNCHANGED data
        /\ Starts(ActionSlot, "setStatus", conv[selected].customer, selected, arg, TRUE)
    BY <1>4, ChangeStatusStarts DEF ChangeStatus
  <2> HIDE DEF arg
  <2>2. QED
    BY <1>0, <1>2, <2>1, BegunKeepsStore
<1>5. CASE ReplyAnswered
  <2>1. At(ReplySlot, "answered") /\ Forget(ReplySlot) /\ UNCHANGED data
    BY <1>5 DEF ReplyAnswered
  <2>2. QED
    BY <1>0, <1>2, <2>1, ForgetKeepsStore
<1>6. CASE ActionAnswered
  <2>1. At(ActionSlot, "answered") /\ Forget(ActionSlot) /\ UNCHANGED data
    BY <1>6 DEF ActionAnswered
  <2>2. QED
    BY <1>0, <1>2, <2>1, ForgetKeepsStore
<1>7. ASSUME NEW k \in Calls, Server(k)
      PROVE  /\ StoreInv' /\ DatesInv'
             /\ messages \subseteq messages'
             /\ \A c \in Convs : Exists(c) => Exists(c)'
  <2>1. Operation(k)
    BY <1>7, ServerOperates
  <2>2. QED
    BY <1>0, <2>1, OperationKeepsStore, OperationKeepsDates, OperationGrows
<1>8. ASSUME NEW k \in StaffSlots, StaffCalls(k) \/ CustomerCalls(k)
      PROVE  StoreInv' /\ DatesInv' /\ UNCHANGED data
  <2>1. /\ At(k, "idle") /\ UNCHANGED data /\ k \in Calls
        /\ \E pc, u, c, arg : Starts(k, pc, u, c, arg, FALSE)
    BY <1>0, <1>8, StaffCallsStart DEF StaffCalls, CustomerCalls
  <2>2. QED
    BY <1>0, <2>1, BegunKeepsStore
<1>9. QED
  BY <1>1, <1>2, <1>3, <1>4, <1>5, <1>6, <1>7, <1>8, InboxSteps

----------------------------------------------------------------------------
(* The calls, under the inbox's steps.                                     *)

LEMMA IdsGrow ==
  ASSUME messages \subseteq messages'
  PROVE  \A c : IdsOf(c) \subseteq IdsOf(c)'
BY DEF IdsOf, MessagesOf

LEMMA SlotStays ==
  ASSUME messages \subseteq messages', NEW k \in Calls, SlotOK(k), call'[k] = call[k]
  PROVE  SlotOK(k)'
BY IdsGrow DEF SlotOK, At

LEMMA IdleSlot ==
  ASSUME NEW k \in Calls, call'[k] = Idle
  PROVE  SlotOK(k)'
BY IdleCall DEF SlotOK, At

LEMMA OperationKeepsSlot ==
  ASSUME TypeInv, NEW k \in Calls, Operation(k)
  PROVE  SlotOK(k)'
<1>1. Typed /\ StoreInv /\ SlotOK(k) /\ Carried
  BY DEF TypeInv, StoreInv, InboxTyped, SlotsOK, DatesInv
<1>2. \A c : IdsOf(c) \subseteq IdsOf(c)'
  BY <1>1, OperationGrows, IdsGrow
<1>3. ASSUME NEW pc \in Pcs, Goes(k, pc),
             \/ call[k].pc \in Resolving /\ pc \in {"create", "findAgain"}
             \/ call[k].pc \in Sends /\ pc \in Sends
             \/ call[k].pc = "setStatus" /\ pc = "announce"
      PROVE  SlotOK(k)'
  <2>1. /\ call'[k].pc = pc /\ call'[k].conv = call[k].conv
        /\ call'[k].arg = call[k].arg /\ call'[k].http = call[k].http
    BY <1>1, <1>3, GoesMoves
  <2>2. CASE call[k].pc \in Resolving /\ pc \in {"create", "findAgain"}
    BY <1>1, <2>1, <2>2 DEF SlotOK, At, Resolving, Sends
  <2>3. CASE call[k].pc \in Sends /\ pc \in Sends
    BY <1>1, <2>1, <2>3 DEF SlotOK, At, Sends
  <2>4. CASE call[k].pc = "setStatus" /\ pc = "announce"
    BY <1>1, <2>1, <2>4 DEF SlotOK, At, Sends
  <2>5. QED
    BY <1>3, <2>2, <2>3, <2>4
<1>4. ASSUME NEW answer \in Nat, Ends(k, answer),
             \/ call[k].pc \in Resolving
             \/ call[k].pc \in Sends /\ (answer = Failed \/ answer \in IdsOf(call[k].conv))
             \/ /\ call[k].pc \in {"setStatus", "announce"}
                /\ answer = Failed \/ (answer = call[k].conv /\ answer \in Convs)
      PROVE  SlotOK(k)'
  <2>1. /\ call[k].http =>
              /\ call'[k].pc = "answered" /\ call'[k].answer = answer
              /\ call'[k].arg = call[k].arg
              /\ call'[k].http /\ call'[k].conv = call[k].conv
        /\ ~call[k].http => call'[k] = Idle
    BY <1>1, <1>4, EndsMoves
  <2>2. CASE ~call[k].http
    BY <2>1, <2>2, IdleSlot
  <2>3. CASE call[k].http
    BY <1>1, <1>2, <1>4, <2>1, <2>3 DEF SlotOK, At, Resolving, Sends
  <2>4. QED
    BY <2>2, <2>3
<1>5. {"create", "findAgain", "touch", "publish", "announce"} \subseteq Pcs
  BY DEF Pcs
<1>6. \A u : \A c \in OpenOf(u) : c \in Nat
  BY OpenOfConvs
<1>7. Failed \in Nat
  BY DEF Failed
<1>8. CASE Find(k)
  <2>1. call[k].pc \in Resolving
    BY <1>8 DEF Find, At, Resolving
  <2>2. QED
    BY <1>3, <1>4, <1>5, <1>6, <1>8, <2>1 DEF Find
<1>9. CASE Create(k)
  <2>1. call[k].pc \in Resolving
    BY <1>9 DEF Create, At, Resolving
  <2>2. UniqueOpenAdmits(call[k].customer) => Ends(k, NextConv) /\ NextConv \in Nat
    BY <1>1, <1>9, CreateWrites DEF Convs
  <2>3. QED
    BY <1>3, <1>4, <1>5, <1>9, <2>1, <2>2 DEF Create
<1>10. CASE FindAgain(k)
  <2>1. call[k].pc \in Resolving
    BY <1>10 DEF FindAgain, At, Resolving
  <2>2. QED
    BY <1>4, <1>6, <1>7, <1>10, <2>1 DEF FindAgain
<1>11. CASE RefuseSend(k) \/ InsertFails(k) \/ InsertReplyLost(k)
  BY <1>4, <1>7, <1>11 DEF RefuseSend, InsertFails, InsertReplyLost, At, Sends
<1>12. CASE AdmitSend(k)
  <2>1. call'[k].pc = "insert" /\ call'[k].http = call[k].http /\ At(k, "check")
    BY <1>1, <1>12, AdmitMoves DEF AdmitSend
  <2>2. QED
    BY <1>1, <2>1 DEF SlotOK, At, Sends
<1>13. CASE Insert(k) \/ Touch(k) \/ TouchFails(k)
  BY <1>3, <1>5, <1>13 DEF Insert, Touch, TouchFails, At, Sends
<1>14. CASE Publish(k)
  <2>1. \E m \in messages : m.id = call[k].id /\ m.conv = call[k].conv
    BY <1>1, <1>14 DEF Publish, At, Carried, Stored
  <2>2. call[k].id \in IdsOf(call[k].conv) /\ call[k].id \in Nat
    BY <1>1, <2>1 DEF IdsOf, MessagesOf, Typed, CallRecords
  <2>3. QED
    BY <1>4, <1>14, <2>2 DEF Publish, At, Sends
<1>15. CASE SetStatus(k) \/ SetStatusReplyLost(k)
  <2>1. call[k].pc = "setStatus" /\ (Ends(k, Failed) \/ Goes(k, "announce"))
    BY <1>15 DEF SetStatus, SetStatusReplyLost, At
  <2>2. QED
    BY <1>3, <1>4, <1>5, <1>7, <2>1
<1>16. CASE AnnounceStatus(k)
  <2>1. call[k].conv \in Convs /\ call[k].conv \in Nat
    BY <1>1, <1>16 DEF AnnounceStatus, At, Typed, CallOK, Convs
  <2>2. QED
    BY <1>4, <1>16, <2>1 DEF AnnounceStatus, At
<1>17. QED
  BY <1>8, <1>9, <1>10, <1>11, <1>12, <1>13, <1>14, <1>15, <1>16 DEF Operation

\* A call that begins, for the agent or for others.
LEMMA BegunSlot ==
  ASSUME TypeInv, NEW k \in Calls, NEW pc, NEW u, NEW c, NEW arg, NEW http,
         Starts(k, pc, u, c, arg, http),
         \/ http = FALSE
         \/ http = TRUE /\ k = ReplySlot /\ pc = "check"
         \/ http = TRUE /\ k = ActionSlot /\ pc = "setStatus"
  PROVE  \A j \in Calls : SlotOK(j)'
<1>1. /\ Typed /\ messages' = messages /\ http \in BOOLEAN
      /\ pc \in {"find", "check", "setStatus"}
      /\ pc = "setStatus" => arg \in {"open", "closed"}
  BY DEF TypeInv, StoreInv, Starts, data
<1>2. /\ call'[k].pc = pc /\ call'[k].arg = arg /\ call'[k].http = http
      /\ \A j \in Calls \ {k} : call'[j] = call[j]
  BY <1>1, StartsMoves
<1>3. SlotOK(k)'
  BY <1>1, <1>2 DEF SlotOK, At, Sends
<1>4. ASSUME NEW j \in Calls \ {k}
      PROVE  SlotOK(j)'
  BY <1>1, <1>2, SlotStays DEF TypeInv, InboxTyped, SlotsOK
<1>5. QED
  BY <1>3, <1>4

LEMMA SlotsKept ==
  ASSUME TypeInv, InboxNext
  PROVE  SlotsOK'
<1> SUFFICES \A k \in Calls : SlotOK(k)'
  BY DEF SlotsOK
<1>1. StoreInv /\ DatesInv /\ \A k \in Calls : SlotOK(k)
  BY DEF TypeInv, InboxTyped, SlotsOK
<1>2. CASE Aside
  <2>1. UNCHANGED store
    BY <1>2, AsideKeepsStore
  <2>2. messages' = messages /\ \A k \in Calls : call'[k] = call[k]
    BY <2>1 DEF store, data
  <2>3. QED
    BY <1>1, <2>2, SlotStays
<1>3. CASE Reply
  BY <1>3, ReplyStarts, BegunSlot
<1>4. CASE ChangeStatus
  <2> DEFINE arg == IF rows[selected] = "closed" THEN "open" ELSE "closed"
  <2>1. /\ ActionSlot \in Calls
        /\ Starts(ActionSlot, "setStatus", conv[selected].customer, selected, arg, TRUE)
    BY <1>4, ChangeStatusStarts
  <2> HIDE DEF arg
  <2>2. QED
    BY <2>1, BegunSlot
<1>5. ASSUME NEW k \in Calls, At(k, "answered"), Forget(k), UNCHANGED data
      PROVE  \A j \in Calls : SlotOK(j)'
  <2>1. /\ call'[k] = Idle /\ messages' = messages
        /\ \A j \in Calls \ {k} : call'[j] = call[j]
    BY <1>1, <1>5, ForgetKeepsStore DEF data
  <2>2. QED
    BY <1>1, <2>1, SlotStays, IdleSlot
<1>6. CASE ReplyAnswered
  BY <1>5, <1>6 DEF ReplyAnswered
<1>7. CASE ActionAnswered
  BY <1>5, <1>7 DEF ActionAnswered
<1>8. ASSUME NEW k \in Calls, Server(k)
      PROVE  \A j \in Calls : SlotOK(j)'
  <2>1. Operation(k)
    BY <1>8, ServerOperates
  <2>2. messages \subseteq messages' /\ \A j \in Calls \ {k} : call'[j] = call[j]
    BY <1>1, <2>1, OperationGrows
  <2>3. QED
    BY <1>1, <2>1, <2>2, SlotStays, OperationKeepsSlot
<1>9. ASSUME NEW k \in StaffSlots, StaffCalls(k) \/ CustomerCalls(k)
      PROVE  \A j \in Calls : SlotOK(j)'
  <2>1. k \in Calls
    OBVIOUS
  <2>2. PICK pc, u, c, arg : Starts(k, pc, u, c, arg, FALSE)
    BY <1>1, <1>9, <2>1, StaffCallsStart
  <2>3. QED
    BY <2>1, <2>2, BegunSlot
<1>10. QED
  BY <1>2, <1>3, <1>4, <1>6, <1>7, <1>8, <1>9, InboxSteps

----------------------------------------------------------------------------
(* The list, under the inbox's steps.                                      *)

LEMMA ListMovers ==
  ASSUME InboxNext
  PROVE  \/ UNCHANGED <<rows, listing>>
         \/ AskList \/ ReadList \/ ShowList \/ ListFails
         \/ ActionAnswered \/ OnConversationUpdate
<1>1. ASSUME NEW k, Server(k)
      PROVE  UNCHANGED <<rows, listing>>
  BY <1>1 DEF Server, QuietStep, PublishMessage, WriteStatus, WriteStatusUnheard,
              AnnounceUpdate, list
<1>2. Reply \/ ReplyAnswered \/ ChangeStatus => UNCHANGED <<rows, listing>>
  BY DEF Reply, ReplyAnswered, ChangeStatus, inbox, list
<1>3. ASSUME NEW c, Select(c)
      PROVE  UNCHANGED <<rows, listing>>
  BY <1>3 DEF Select, list
<1>4. ShowPage \/ LoadFails \/ LoadMore \/ ShowMore \/ LoadMoreFails
        => UNCHANGED <<rows, listing>>
  BY DEF ShowPage, LoadFails, LoadMore, ShowMore, LoadMoreFails, list
<1>5. Connect \/ Disconnect \/ OnMessage \/ ReadPage \/ ReadMore
        => UNCHANGED <<rows, listing>>
  BY DEF Connect, Disconnect, OnMessage, ReadPage, ReadMore, list
<1>6. UNCHANGED inbox => UNCHANGED <<rows, listing>>
  BY DEF inbox, list
<1>7. QED
  BY <1>1, <1>2, <1>3, <1>4, <1>5, <1>6, InboxSteps DEF Aside

LEMMA ListKept ==
  ASSUME TypeInv, InboxNext
  PROVE  ListTyped' /\ \A c \in Convs : Listed(c) => Listed(c)'
<1>1. /\ rows \in [Convs -> RowStates] /\ listing \in Listings
      /\ \A c \in Convs : Listed(c) \/ listing.page[c] # "absent" => Exists(c)
      /\ listing.pc \in {"none", "asked", "read", "failed"}
      /\ listing.page \in [Convs -> RowStates]
  BY DEF TypeInv, InboxTyped, ListTyped, RowsExist, Listings
<1>2. \A c \in Convs : Exists(c) => Exists(c)'
  BY InboxKeepsStore
<1>3. NoListing \in Listings /\ \A c \in Convs : NoListing.page[c] = "absent"
  BY DEF NoListing, Listings, RowStates
<1>4. CASE UNCHANGED <<rows, listing>>
  BY <1>1, <1>2, <1>4 DEF ListTyped, RowsExist, Listed
<1>5. CASE AskList \/ ListFails
  <2>1. rows' = rows
    BY <1>5 DEF AskList, ListFails, list
  <2>2. /\ listing' \in Listings
        /\ \A c \in Convs : listing'.page[c] # "absent" => listing.page[c] # "absent"
    <3>1. ASSUME NEW pc \in {"asked", "failed"}
          PROVE  /\ [listing EXCEPT !.pc = pc] \in Listings
                 /\ [listing EXCEPT !.pc = pc].page = listing.page
      BY <1>1 DEF Listings
    <3>2. \/ listing' = NoListing
          \/ \E pc \in {"asked", "failed"} : listing' = [listing EXCEPT !.pc = pc]
      BY <1>5 DEF AskList, ListFails
    <3>3. QED
      BY <1>3, <3>1, <3>2
  <2>3. QED
    BY <1>1, <1>2, <2>1, <2>2 DEF ListTyped, RowsExist, Listed
<1>6. CASE ReadList
  <2> DEFINE page == Page(older)
             states == [c \in Convs |-> IF c \in page THEN conv[c].status ELSE "absent"]
  <2>1. listing' = [pc |-> "read", page |-> states] /\ rows' = rows /\ conv' = conv
    BY <1>6 DEF ReadList, store, data
  <2>2. \A c \in Convs : conv[c].status \in RowStates
    BY DEF TypeInv, StoreInv, Typed, Documents, RowStates
  <2> HIDE DEF page
  <2>3. /\ states \in [Convs -> RowStates]
        /\ \A c \in Convs : states[c] # "absent" => Exists(c)
    BY <2>2 DEF RowStates, Exists
  <2> HIDE DEF states
  <2>4. listing' \in Listings /\ listing'.page = states
    BY <2>1, <2>3 DEF Listings
  <2>5. QED
    BY <1>1, <1>2, <2>1, <2>3, <2>4 DEF ListTyped, RowsExist, Listed
<1>7. CASE ShowList
  <2>1. /\ rows' = [c \in Convs |-> IF Listed(c) THEN rows[c] ELSE listing.page[c]]
        /\ listing' = NoListing
    BY <1>7 DEF ShowList
  <2>2. /\ rows' \in [Convs -> RowStates]
        /\ \A c \in Convs : rows'[c] = IF Listed(c) THEN rows[c] ELSE listing.page[c]
    BY <1>1, <2>1
  <2>3. QED
    BY <1>1, <1>2, <1>3, <2>1, <2>2 DEF ListTyped, RowsExist, Listed
<1>8. ASSUME NEW c \in Convs, NEW status \in {"open", "closed"}, Listed(c),
             rows' = [rows EXCEPT ![c] = status], listing' = listing
      PROVE  ListTyped' /\ \A d \in Convs : Listed(d) => Listed(d)'
  <2>1. /\ rows' \in [Convs -> RowStates] /\ rows'[c] = status
        /\ \A d \in Convs \ {c} : rows'[d] = rows[d]
    BY <1>1, <1>8 DEF RowStates
  <2>2. QED
    BY <1>1, <1>2, <1>8, <2>1 DEF ListTyped, RowsExist, Listed
<1>9. CASE ActionAnswered
  <2> DEFINE c == call[ActionSlot].answer
  <2>1. /\ listing' = listing
        /\ rows' = IF c # Failed /\ Listed(c)
                   THEN [rows EXCEPT ![c] = call[ActionSlot].arg] ELSE rows
    BY <1>9 DEF ActionAnswered
  <2>2. c # Failed => c \in Convs /\ call[ActionSlot].arg \in {"open", "closed"}
    BY <1>9 DEF ActionAnswered, TypeInv, InboxTyped, SlotsOK, SlotOK, At
  <2> HIDE DEF c
  <2>3. QED
    BY <1>4, <1>8, <2>1, <2>2
<1>10. CASE OnConversationUpdate
  <2> DEFINE c == Head(wire).conv
  <2>1. /\ listing' = listing
        /\ rows' = IF Listed(c) THEN [rows EXCEPT ![c] = Merge(rows[c], Head(wire).status)]
                                ELSE rows
        /\ wire # <<>> /\ Head(wire).kind = "updated"
    BY <1>10 DEF OnConversationUpdate, Delivers
  <2>2. Head(wire) \in Events /\ EventOK(Head(wire))
    BY <2>1 DEF TypeInv, InboxTyped, EventsOK
  <2>3. c \in Convs /\ Head(wire).status \in {"open", "closed"}
    BY <2>1, <2>2 DEF Events, EventOK
  <2> HIDE DEF c
  <2>4. QED
    BY <1>4, <1>8, <2>1, <2>3 DEF Merge
<1>11. QED
  BY <1>4, <1>5, <1>6, <1>7, <1>9, <1>10, ListMovers

----------------------------------------------------------------------------
(* The socket, under the inbox's steps.                                    *)

LEMMA WireMovers ==
  ASSUME InboxNext
  PROVE  \/ UNCHANGED <<wire, link>>
         \/ Connect \/ Disconnect \/ OnMessage \/ OnConversationUpdate
         \/ \E k \in Calls : PublishMessage(k) \/ AnnounceUpdate(k)
<1>1. ASSUME NEW k, QuietStep(k) \/ WriteStatus(k) \/ WriteStatusUnheard(k)
      PROVE  UNCHANGED <<wire, link>>
  BY <1>1 DEF QuietStep, WriteStatus, WriteStatusUnheard, connection
<1>2. Reply \/ ReplyAnswered \/ ChangeStatus \/ ActionAnswered => UNCHANGED <<wire, link>>
  BY DEF Reply, ReplyAnswered, ChangeStatus, ActionAnswered, inbox, connection
<1>3. ASSUME NEW c, Select(c)
      PROVE  UNCHANGED <<wire, link>>
  BY <1>3 DEF Select, connection
<1>4. ShowPage \/ LoadFails \/ LoadMore \/ ShowMore \/ LoadMoreFails
        => UNCHANGED <<wire, link>>
  BY DEF ShowPage, LoadFails, LoadMore, ShowMore, LoadMoreFails, connection
<1>5. AskList \/ ShowList \/ ListFails \/ ReadList \/ ReadPage \/ ReadMore
        => UNCHANGED <<wire, link>>
  BY DEF AskList, ShowList, ListFails, ReadList, ReadPage, ReadMore, connection
<1>6. UNCHANGED inbox => UNCHANGED <<wire, link>>
  BY DEF inbox, connection
<1>7. QED
  BY <1>1, <1>2, <1>3, <1>4, <1>5, <1>6, InboxSteps DEF Aside, Server

\* Taking the first event.
LEMMA Delivered ==
  ASSUME wire \in Seq(Events), NEW kind, Delivers(kind)
  PROVE  /\ wire' \in Seq(Events) /\ Head(wire) \in Events
         /\ Head(wire) = wire[1] /\ Head(wire).kind = kind
         /\ Len(wire) \in Nat \ {0} /\ 1 \in DOMAIN wire
         /\ DOMAIN wire = 1..Len(wire)
         /\ DOMAIN wire' = 1..(Len(wire) - 1)
         /\ \A i \in DOMAIN wire' : i + 1 \in DOMAIN wire /\ wire'[i] = wire[i + 1]
BY HeadTailProperties DEF Delivers

\* Emitting an event at the end.
LEMMA Emitted ==
  ASSUME wire \in Seq(Events), NEW kind \in {"message", "updated"}, NEW c \in Convs,
         NEW id \in 0..MaxMessages, NEW status \in {"none", "open", "closed"},
         Emit(kind, c, id, status),
         NEW e, e = [kind |-> kind, conv |-> c, id |-> id, status |-> status]
  PROVE  /\ wire' \in Seq(Events)
         /\ ~link => wire' = wire
         /\ link => /\ wire' = Append(wire, e) /\ Len(wire) \in Nat
                    /\ DOMAIN wire = 1..Len(wire)
                    /\ DOMAIN wire' = 1..(Len(wire) + 1)
                    /\ wire'[Len(wire) + 1] = e
                    /\ \A i \in DOMAIN wire : i \in DOMAIN wire' /\ wire'[i] = wire[i]
                    /\ \A i \in DOMAIN wire' : i = Len(wire) + 1 \/ i \in DOMAIN wire
<1>1. e \in Events
  BY DEF Events
<1>2. CASE ~link
  BY <1>2 DEF Emit
<1>3. CASE link
  <2>1. wire' = Append(wire, e)
    BY <1>3 DEF Emit
  <2> HIDE DEF Emit
  <2>2. /\ wire' \in Seq(Events) /\ Len(wire') = Len(wire) + 1 /\ Len(wire) \in Nat
        /\ \A i \in 1..Len(wire) : wire'[i] = wire[i]
        /\ wire'[Len(wire) + 1] = e
    BY <1>1, <2>1, AppendProperties
  <2>3. DOMAIN wire = 1..Len(wire) /\ DOMAIN wire' = 1..(Len(wire) + 1)
    BY <2>2, LenProperties
  <2>4. /\ \A i \in DOMAIN wire : i \in DOMAIN wire' /\ wire'[i] = wire[i]
        /\ \A i \in DOMAIN wire' : i = Len(wire) + 1 \/ i \in DOMAIN wire
    BY <2>2, <2>3
  <2>5. QED
    BY <1>3, <2>1, <2>2, <2>3, <2>4
<1>4. QED
  BY <1>2, <1>3

\* What an announcement and a publication emit.
LEMMA AnnouncedEvent ==
  ASSUME TypeInv, NEW k \in Calls, AnnounceUpdate(k)
  PROVE  /\ call[k].conv \in Convs /\ Exists(call[k].conv)
         /\ call[k].arg \in {"open", "closed"}
         /\ Emit("updated", call[k].conv, 0, call[k].arg)
         /\ 0 \in 0..MaxMessages
BY DEF TypeInv, StoreInv, Typed, CallOK, AnnounceUpdate, AnnounceStatus, At

LEMMA PublishedEvent ==
  ASSUME TypeInv, NEW k \in Calls, PublishMessage(k)
  PROVE  /\ call[k].conv \in Convs /\ Exists(call[k].conv)
         /\ call[k].id \in 0..MaxMessages /\ call[k].id \in IdsOf(call[k].conv)
         /\ Emit("message", call[k].conv, call[k].id, "none")
<1>1. call[k].pc \in Stored /\ At(k, "publish") /\ Typed /\ Carried
  BY DEF PublishMessage, Publish, At, Stored, TypeInv, StoreInv, DatesInv
<1>2. \E m \in messages : m.id = call[k].id /\ m.conv = call[k].conv
  BY <1>1 DEF Carried
<1>3. QED
  BY <1>1, <1>2, StoredCall DEF IdsOf, MessagesOf, PublishMessage

LEMMA EventsKept ==
  ASSUME TypeInv, InboxNext
  PROVE  EventsOK'
<1>1. /\ wire \in Seq(Events) /\ link \in BOOLEAN /\ (~link => wire = <<>>)
      /\ \A i \in DOMAIN wire : EventOK(wire[i]) /\ wire[i] \in Events
  BY DEF TypeInv, InboxTyped, EventsOK
<1>2. ASSUME NEW e \in Events, EventOK(e)
      PROVE  EventOK(e)'
  <2>1. \A c : IdsOf(c) \subseteq IdsOf(c)'
    BY InboxKeepsStore, IdsGrow
  <2>2. \A c \in Convs : Exists(c) => Exists(c)'
    BY InboxKeepsStore
  <2>3. e.conv \in Convs
    BY DEF Events
  <2>4. QED
    BY <1>2, <2>1, <2>2, <2>3 DEF EventOK
<1>3. CASE UNCHANGED <<wire, link>>
  BY <1>1, <1>2, <1>3 DEF EventsOK
<1>4. CASE Connect \/ Disconnect
  <2>1. \/ link' = TRUE /\ wire' = wire
        \/ link' = FALSE /\ wire' = <<>>
    BY <1>4 DEF Connect, Disconnect
  <2>2. <<>> \in Seq(Events) /\ DOMAIN <<>> = {}
    OBVIOUS
  <2>3. QED
    BY <1>1, <1>2, <2>1, <2>2 DEF EventsOK
<1>5. ASSUME NEW kind, Delivers(kind), link' = link
      PROVE  EventsOK'
  <2>1. /\ wire' \in Seq(Events) /\ wire # <<>>
        /\ \A i \in DOMAIN wire' : i + 1 \in DOMAIN wire /\ wire'[i] = wire[i + 1]
    BY <1>1, <1>5, Delivered DEF Delivers
  <2>2. \A i \in DOMAIN wire' : EventOK(wire[i])'
    BY <1>1, <1>2, <2>1 DEF EventOK, Exists, IdsOf, MessagesOf
  <2>3. QED
    BY <1>1, <1>5, <2>1, <2>2 DEF EventsOK
<1>6. ASSUME NEW kind \in {"message", "updated"}, NEW c \in Convs,
             NEW id \in 0..MaxMessages, NEW status \in {"none", "open", "closed"},
             Emit(kind, c, id, status), link' = link, Exists(c),
             kind = "message" => id \in IdsOf(c),
             kind = "updated" => status \in {"open", "closed"}
      PROVE  EventsOK'
  <2> DEFINE e == [kind |-> kind, conv |-> c, id |-> id, status |-> status]
  <2>1. e \in Events /\ EventOK(e)
    BY <1>6 DEF Events, EventOK
  <2> HIDE DEF e
  <2>2. /\ wire' \in Seq(Events)
        /\ ~link => wire' = wire
        /\ link => /\ wire'[Len(wire) + 1] = e
                   /\ \A i \in DOMAIN wire : wire'[i] = wire[i]
                   /\ \A i \in DOMAIN wire' : i = Len(wire) + 1 \/ i \in DOMAIN wire
    BY <1>1, <1>6, Emitted DEF e
  <2>3. CASE link
    <3>1. EventOK(e)'
      BY <1>2, <2>1
    <3>2. \A i \in DOMAIN wire : EventOK(wire[i])' \/ wire'[i] # wire[i]
      BY <1>1, <1>2 DEF EventOK, Exists, IdsOf, MessagesOf
    <3>3. ASSUME NEW i \in DOMAIN wire'
          PROVE  EventOK(wire[i])'
      BY <2>2, <2>3, <3>1, <3>2, <3>3 DEF EventOK, Exists, IdsOf, MessagesOf
    <3>4. QED
      BY <1>1, <1>6, <2>2, <2>3, <3>3 DEF EventsOK
  <2>4. CASE ~link
    BY <1>1, <1>2, <1>6, <2>2, <2>4 DEF EventsOK
  <2>5. QED
    BY <2>3, <2>4
<1>7. CASE OnMessage \/ OnConversationUpdate
  BY <1>5, <1>7 DEF OnMessage, OnConversationUpdate
<1>8. ASSUME NEW k \in Calls, PublishMessage(k)
      PROVE  EventsOK'
  BY <1>6, <1>8, PublishedEvent DEF PublishMessage
<1>9. ASSUME NEW k \in Calls, AnnounceUpdate(k)
      PROVE  EventsOK'
  BY <1>6, <1>9, AnnouncedEvent DEF AnnounceUpdate
<1>10. QED
  BY <1>3, <1>4, <1>7, <1>8, <1>9, WireMovers

----------------------------------------------------------------------------
(* The thread, under the inbox's steps.                                    *)

LEMMA ViewMovers ==
  ASSUME InboxNext
  PROVE  \/ UNCHANGED <<view, strayed>>
         \/ \E c \in Convs : Select(c)
         \/ ReadPage \/ ShowPage \/ LoadFails
         \/ LoadMore \/ ReadMore \/ ShowMore \/ LoadMoreFails
         \/ ReplyAnswered \/ OnMessage
<1>1. ASSUME NEW k, Server(k)
      PROVE  UNCHANGED <<view, strayed>>
  BY <1>1 DEF Server, QuietStep, PublishMessage, WriteStatus, WriteStatusUnheard,
              AnnounceUpdate, history
<1>2. Reply \/ ChangeStatus \/ ActionAnswered => UNCHANGED <<view, strayed>>
  BY DEF Reply, ChangeStatus, ActionAnswered, inbox, history
<1>3. AskList \/ ShowList \/ ListFails \/ ReadList => UNCHANGED <<view, strayed>>
  BY DEF AskList, ShowList, ListFails, ReadList, history
<1>4. Connect \/ Disconnect \/ OnConversationUpdate => UNCHANGED <<view, strayed>>
  BY DEF Connect, Disconnect, OnConversationUpdate, history
<1>5. UNCHANGED inbox => UNCHANGED <<view, strayed>>
  BY DEF inbox, history
<1>6. QED
  BY <1>1, <1>2, <1>3, <1>4, <1>5, InboxSteps DEF Aside

LEMMA ViewKept ==
  ASSUME TypeInv, InboxNext
  PROVE  ViewTyped'
<1>1. /\ walk \in Walks /\ newer \in Newers
      /\ selected \in Convs \cup {NoConv} /\ (selected # NoConv => Listed(selected))
      /\ thread \in {"idle", "loading", "ready", "error"}
      /\ selected = NoConv => thread = "idle" /\ walk.pc = "none"
  BY DEF TypeInv, InboxTyped, ViewTyped
<1>2. \A c \in Convs : Listed(c) => Listed(c)'
  BY ListKept
<1>3. ASSUME selected' = selected, walk' \in Walks, newer' \in Newers,
             thread' \in {"idle", "loading", "ready", "error"},
             selected = NoConv => thread' = "idle" /\ walk'.pc = "none"
      PROVE  ViewTyped'
  BY <1>1, <1>2, <1>3 DEF ViewTyped, Listed
<1>4. CASE UNCHANGED <<view, strayed>>
  BY <1>1, <1>3, <1>4 DEF view
<1>5. ASSUME NEW c \in Convs, Select(c)
      PROVE  ViewTyped'
  <2>1. /\ selected' = c /\ thread' = "loading" /\ rows' = rows /\ Listed(c)
    BY <1>5 DEF Select, list
  <2>2. walk' \in Walks /\ newer' \in Newers
    BY <1>5, SelectMoves
  <2>3. c # NoConv
    BY DEF Convs, NoConv
  <2>4. QED
    BY <2>1, <2>2, <2>3 DEF ViewTyped, Listed
<1>6. CASE ReadPage
  BY <1>1, <1>3, <1>6, ReadPageMoves DEF ReadPage
<1>7. CASE ShowPage
  <2>1. selected' = selected /\ walk.pc = "read"
        /\ thread' = IF walk.pages = 0 THEN "ready" ELSE thread
    BY <1>7 DEF ShowPage
  <2>2. walk' \in Walks /\ newer' \in Newers
    BY <1>7, ShowPageMoves
  <2>3. QED
    BY <1>1, <1>3, <2>1, <2>2
<1>8. CASE LoadFails
  <2>1. /\ selected' = selected /\ walk.pc # "none" /\ thread' = "error"
        /\ newer' = newer /\ walk' = NoWalk
    BY <1>8 DEF LoadFails
  <2>2. QED
    BY <1>1, <1>3, <2>1, NoWalkTyped
<1>9. CASE LoadMore
  BY <1>1, <1>3, <1>9, LoadMoreMoves DEF LoadMore
<1>10. CASE ReadMore
  BY <1>1, <1>3, <1>10, ReadMoreMoves DEF ReadMore
<1>11. CASE ShowMore
  BY <1>1, <1>3, <1>11, ShowMoreMoves DEF ShowMore
<1>12. CASE LoadMoreFails
  BY <1>1, <1>3, <1>12, LoadMoreFailsMoves DEF LoadMoreFails
<1>13. CASE ReplyAnswered \/ OnMessage
  BY <1>1, <1>3, <1>13 DEF ReplyAnswered, OnMessage
<1>14. QED
  BY <1>4, <1>5, <1>6, <1>7, <1>8, <1>9, <1>10, <1>11, <1>12, <1>13, ViewMovers

Storing == IdsOf(selected) \cup strayed

\* What a step does to the thread that is shown: nothing, or it appends
\* messages of it, or it empties it.
Appending(ids) ==
  /\ selected' = selected /\ ids \subseteq Ids /\ AppendMessages(ids)
  /\ ids \subseteq Storing'

LEMMA StoringGrows ==
  ASSUME TypeInv, InboxNext, selected' = selected, strayed \subseteq strayed'
  PROVE  Storing \subseteq Storing'
<1>1. \A c : IdsOf(c) \subseteq IdsOf(c)'
  BY InboxKeepsStore, IdsGrow
<1>2. IdsOf(selected) \subseteq IdsOf(selected)'
  BY <1>1 DEF IdsOf, MessagesOf
<1>3. QED
  BY <1>2 DEF Storing

LEMMA GotTyped ==
  ASSUME TypeInv
  PROVE  walk.got \subseteq Ids /\ newer.got \subseteq Ids /\ \A c : IdsOf(c) \subseteq Ids
BY DEF TypeInv, InboxTyped, ViewTyped, Walks, Newers, StoreInv, Typed, IdsOf,
       MessagesOf, MessageDocs

LEMMA ShownMoves ==
  ASSUME TypeInv, InboxNext
  PROVE  \/ UNCHANGED <<selected, shown, seen, strayed>>
         \/ /\ \E ids : Appending(ids)
            /\ strayed \subseteq strayed' /\ strayed' \subseteq Ids
         \/ shown' = <<>> /\ (seen' = {} \/ seen' = seen)
            /\ (strayed' = {} \/ strayed' = strayed)
<1>1. /\ walk.got \subseteq Ids /\ newer.got \subseteq Ids /\ strayed \subseteq Ids
      /\ walk.pc = "read" => walk.got \subseteq IdsOf(selected)
      /\ newer.pc = "read" => newer.got \subseteq IdsOf(newer.conv)
  BY GotTyped DEF TypeInv, Shows
<1>2. CASE UNCHANGED <<view, strayed>>
  BY <1>2 DEF view
<1>3. CASE \E c \in Convs : Select(c)
  BY <1>3 DEF Select, ForgetThread
<1>4. CASE ReadPage \/ LoadMore \/ ReadMore \/ LoadMoreFails
  BY <1>4 DEF ReadPage, LoadMore, ReadMore, LoadMoreFails, history
<1>5. CASE LoadFails
  BY <1>5 DEF LoadFails, history
<1>6. ASSUME NEW ids, ids \subseteq Ids, AppendMessages(ids), ids \subseteq IdsOf(selected),
             selected' = selected, strayed' = strayed
      PROVE  \E i : Appending(i)
  <2>1. Storing \subseteq Storing'
    BY <1>6, StoringGrows
  <2>2. ids \subseteq Storing'
    BY <1>6, <2>1 DEF Storing
  <2>3. Appending(ids)
    BY <1>6, <2>2 DEF Appending
  <2>4. QED
    BY <2>3
<1>7. CASE ShowPage
  BY <1>1, <1>6, <1>7 DEF ShowPage, history
<1>8. CASE ShowMore
  <2>1. CASE newer.conv = selected
    BY <1>1, <1>6, <1>8, <2>1 DEF ShowMore
  <2>2. CASE newer.conv # selected
    BY <1>8, <2>2 DEF ShowMore
  <2>3. QED
    BY <2>1, <2>2
<1>9. CASE OnMessage
  <2> DEFINE e == Head(wire)
  <2>1. EventOK(e) /\ e.kind = "message"
    BY <1>9, Delivered DEF OnMessage, Delivers, TypeInv, InboxTyped, EventsOK
  <2>2. e.id \in IdsOf(e.conv)
    BY <2>1 DEF EventOK
  <2>3. CASE e.conv = selected
    <3>1. AppendMessages({e.id}) /\ selected' = selected /\ strayed' = strayed
      BY <1>9, <2>3 DEF OnMessage, history
    <3> HIDE DEF e
    <3>2. {e.id} \subseteq IdsOf(selected) /\ {e.id} \subseteq Ids
      BY <2>2, <2>3, GotTyped
    <3>3. QED
      BY <1>1, <1>6, <3>1, <3>2
  <2>4. CASE e.conv # selected
    BY <1>9, <2>4 DEF OnMessage, history
  <2>5. QED
    BY <2>3, <2>4
<1>10. CASE ReplyAnswered
  <2> DEFINE i == call[ReplySlot].answer
             c == call[ReplySlot].conv
  <2>1. /\ selected' = selected
        /\ IF i = Failed \/ i \in seen
           THEN UNCHANGED <<shown, seen, strayed>>
           ELSE /\ AppendMessages({i})
                /\ strayed' = IF c = selected THEN strayed ELSE strayed \cup {i}
    BY <1>10 DEF ReplyAnswered
  <2>2. CASE i = Failed \/ i \in seen
    BY <2>1, <2>2
  <2>3. CASE ~(i = Failed \/ i \in seen)
    <3>1. SlotOK(ReplySlot) /\ At(ReplySlot, "answered")
      BY <1>10 DEF ReplyAnswered, TypeInv, InboxTyped, SlotsOK
    <3>2. i \in IdsOf(c)
      BY <2>3, <3>1 DEF SlotOK
    <3> HIDE DEF i, c
    <3>3. {i} \subseteq Ids
      BY <3>2, GotTyped
    <3>4. CASE c = selected
      BY <1>1, <1>6, <2>1, <2>3, <3>2, <3>3, <3>4
    <3>5. CASE c # selected
      <4>1. AppendMessages({i}) /\ strayed' = strayed \cup {i}
        BY <2>1, <2>3, <3>5
      <4>2. Appending({i})
        BY <2>1, <3>3, <4>1 DEF Appending, Storing
      <4>3. QED
        BY <1>1, <3>3, <4>1, <4>2
    <3>6. QED
      BY <3>4, <3>5
  <2>4. QED
    BY <2>2, <2>3
<1>11. QED
  BY <1>2, <1>3, <1>4, <1>5, <1>7, <1>8, <1>9, <1>10, ViewMovers

\* What the pages under way hold.
LEMMA WalkMoves ==
  ASSUME TypeInv, InboxNext
  PROVE  walk'.pc = "read" =>
           \/ walk.pc = "read" /\ walk' = walk /\ selected' = selected
           \/ ReadPage
<1>1. CASE UNCHANGED <<view, strayed>>
  BY <1>1 DEF view
<1>2. ASSUME NEW c \in Convs, Select(c)
      PROVE  walk'.pc = "read" => walk.pc = "read" /\ walk' = walk /\ selected' = selected
  BY <1>2, SelectMoves DEF Select
<1>3. CASE ShowPage
  BY <1>3, ShowPageMoves
<1>4. CASE LoadFails
  BY <1>4 DEF LoadFails, NoWalk
<1>5. CASE LoadMore \/ ReadMore \/ ShowMore \/ LoadMoreFails \/ ReplyAnswered \/ OnMessage
  BY <1>5 DEF LoadMore, ReadMore, ShowMore, LoadMoreFails, ReplyAnswered, OnMessage
<1>6. QED
  BY <1>1, <1>2, <1>3, <1>4, <1>5, ViewMovers

LEMMA NewerMoves ==
  ASSUME TypeInv, InboxNext
  PROVE  newer'.pc = "read" =>
           \/ newer.pc = "read" /\ newer'.conv = newer.conv /\ newer'.got = newer.got
           \/ ReadMore
<1>1. CASE UNCHANGED <<view, strayed>>
  BY <1>1 DEF view
<1>2. ASSUME NEW c \in Convs, Select(c)
      PROVE  newer'.pc = "read" =>
               newer.pc = "read" /\ newer'.conv = newer.conv /\ newer'.got = newer.got
  BY <1>2, SelectMoves
<1>3. CASE ShowPage
  BY <1>3, ShowPageMoves
<1>4. CASE LoadMore
  BY <1>4, LoadMoreMoves
<1>5. CASE ShowMore
  BY <1>5, ShowMoreMoves
<1>6. CASE LoadMoreFails
  BY <1>6, LoadMoreFailsMoves
<1>7. CASE LoadFails \/ ReadPage \/ ReplyAnswered \/ OnMessage
  BY <1>7 DEF LoadFails, ReadPage, ReplyAnswered, OnMessage
<1>8. QED
  BY <1>1, <1>2, <1>3, <1>4, <1>5, <1>6, <1>7, ViewMovers

LEMMA ShowsKept ==
  ASSUME TypeInv, InboxNext
  PROVE  Shows'
<1>1. /\ walk.pc = "read" => walk.got \subseteq IdsOf(selected)
      /\ newer.pc = "read" => newer.got \subseteq IdsOf(newer.conv)
      /\ shown \in Seq(Ids) /\ IsInjective(shown)
      /\ ToSet(shown) \subseteq seen /\ seen \subseteq Ids
      /\ strayed \subseteq Ids
      /\ ToSet(shown) \subseteq Storing
  BY DEF TypeInv, Shows, Storing
<1>2. \A c : IdsOf(c) \subseteq IdsOf(c)'
  BY InboxKeepsStore, IdsGrow
<1>3. walk'.pc = "read" => walk'.got \subseteq IdsOf(selected)'
  <2>1. CASE walk.pc = "read" /\ walk' = walk /\ selected' = selected
    BY <1>1, <1>2, <2>1 DEF IdsOf, MessagesOf
  <2>2. CASE ReadPage
    <3>1. walk'.got \subseteq IdsOf(selected) /\ selected' = selected
      BY <2>2, ReadPageMoves DEF ReadPage
    <3>2. QED
      BY <1>2, <3>1 DEF IdsOf, MessagesOf
  <2>3. QED
    BY <2>1, <2>2, WalkMoves
<1>4. newer'.pc = "read" => newer'.got \subseteq IdsOf(newer.conv)'
  <2>1. CASE newer.pc = "read" /\ newer'.conv = newer.conv /\ newer'.got = newer.got
    <3>1. newer'.got \subseteq IdsOf(newer.conv) /\ newer'.conv = newer.conv
      BY <1>1, <2>1
    <3>2. QED
      BY <1>2, <3>1 DEF IdsOf, MessagesOf
  <2>2. CASE ReadMore
    <3>1. newer'.got \subseteq IdsOf(newer.conv) /\ newer'.conv = newer.conv
      BY <2>2, ReadMoreMoves
    <3>2. QED
      BY <1>2, <3>1 DEF IdsOf, MessagesOf
  <2>3. QED
    BY <2>1, <2>2, NewerMoves
<1> DEFINE Kept == /\ shown' \in Seq(Ids) /\ IsInjective(shown')
                   /\ ToSet(shown') \subseteq seen' /\ seen' \subseteq Ids
                   /\ strayed' \subseteq Ids
                   /\ ToSet(shown') \subseteq Storing'
<1>5. Kept
  <2>1. CASE UNCHANGED <<selected, shown, seen, strayed>>
    <3>1. Storing \subseteq Storing'
      BY <2>1, StoringGrows
    <3>2. QED
      BY <1>1, <2>1, <3>1
  <2>2. ASSUME NEW ids, Appending(ids), strayed \subseteq strayed', strayed' \subseteq Ids
        PROVE  Kept
    <3>1. /\ shown' \in Seq(Ids) /\ IsInjective(shown')
          /\ ToSet(shown') = ToSet(shown) \cup (ids \ seen)
          /\ seen' \subseteq Ids /\ ToSet(shown') \subseteq seen'
      BY <2>2, Appends DEF Appending
    <3>2. Storing \subseteq Storing'
      BY <2>2, StoringGrows DEF Appending
    <3>3. QED
      BY <1>1, <2>2, <3>1, <3>2 DEF Appending
  <2>3. CASE shown' = <<>> /\ (seen' = {} \/ seen' = seen)
             /\ (strayed' = {} \/ strayed' = strayed)
    <3>1. ToSet(<<>>) = {} /\ IsInjective(<<>>) /\ <<>> \in Seq(Ids)
      BY DEF ToSet, IsInjective
    <3>2. QED
      BY <1>1, <2>3, <3>1
  <2>4. QED
    BY <2>1, <2>2, <2>3, ShownMoves
<1>6. QED
  BY <1>3, <1>4, <1>5 DEF Shows, Storing, IdsOf, MessagesOf

----------------------------------------------------------------------------
(* The theorems.                                                           *)

LEMMA InboxInitStore ==
  ASSUME InboxInit
  PROVE  StoreInv /\ DatesInv
<1> PICK u \in Customers :
      conv = [c \in Convs |->
                IF c \in 1..Started
                THEN [status |-> IF c = 1 THEN "open" ELSE "closed",
                      customer |-> u, lastAt |-> c]
                ELSE Absent]
  BY DEF InboxInit
<1>1. /\ Started \in Nat /\ Started <= MaxConvs /\ Started <= MaxMessages
      /\ 1..Started \subseteq Convs /\ 1..Started \subseteq Ids
      /\ \A c \in Convs : c \in Nat
  BY DEF Convs, Ids
<1>2. /\ messages = {[id |-> i, conv |-> i, body |-> "reply"] : i \in 1..Started}
      /\ issued = Started /\ changes = 0
      /\ untouched = {} /\ overtaken = {} /\ misreported = {}
      /\ closedAt = [c \in Convs |-> IF c \in 2..Started THEN c ELSE 0]
      /\ call = [k \in Calls |-> Idle]
  BY DEF InboxInit
<1>3. \A m \in messages : m.id = m.conv /\ m.id \in 1..Started /\ m \in MessageDocs
  BY <1>1, <1>2 DEF MessageDocs
<1>4. \A m, n \in messages : m.id = n.id => m = n
  BY <1>2
<1>5. \A c \in Convs :
        /\ c \in 1..Started =>
             conv[c].status = (IF c = 1 THEN "open" ELSE "closed") /\ conv[c].lastAt = c
        /\ c \notin 1..Started => conv[c].status = "absent"
        /\ conv[c] \in Documents
  <2>1. Absent \in Documents /\ Absent.status = "absent"
    BY DEF Absent, Documents
  <2>2. ASSUME NEW c \in 1..Started, NEW status \in {"open", "closed"}
        PROVE  [status |-> status, customer |-> u, lastAt |-> c] \in Documents
    BY <1>1 DEF Documents
  <2>3. QED
    BY <1>1, <2>1, <2>2
<1>6. \A k \in Calls : call[k] = Idle /\ call[k] \in CallRecords /\ call[k].pc = "idle"
  BY <1>2, IdleCall
<1>7. Typed
  <2>1. conv \in [Convs -> Documents]
    BY <1>5
  <2>2. closedAt \in [Convs -> 0..MaxMessages]
    BY <1>1, <1>2
  <2>3. call \in [Calls -> CallRecords]
    BY <1>2, <1>6
  <2>4. \A k \in Calls : CallOK(k)
    BY <1>1, <1>2, <1>6 DEF CallOK, Resolving, Idle
  <2>5. QED
    BY <1>1, <1>2, <1>3, <2>1, <2>2, <2>3, <2>4 DEF Typed
<1>8. IdsAreOnce
  BY <1>1, <1>2, <1>3, <1>4, <1>6 DEF IdsAreOnce, At
<1>9. OneOpen
  BY <1>1, <1>5 DEF OneOpen, Open
<1>10. ClosedAdmits
  BY <1>1, <1>2, <1>3, <1>5, <1>6 DEF ClosedAdmits, ClosedHoldsOnlyAdmitted, At
<1>11. Carried
  BY <1>1, <1>3, <1>5, <1>6 DEF Carried, Stored, Exists
<1>12. Dated
  BY <1>1, <1>3, <1>5 DEF Dated, IsNewest
<1>13. QED
  BY <1>7, <1>8, <1>9, <1>10, <1>11, <1>12 DEF StoreInv, DatesInv

LEMMA InboxInitTypes ==
  ASSUME InboxInit
  PROVE  TypeInv
<1>1. \A c \in Convs : rows[c] = "absent" /\ listing.page[c] = "absent"
  BY DEF InboxInit, NoListing
<1>2. ListTyped
  <2>1. rows = NoListing.page /\ listing = [NoListing EXCEPT !.pc = "asked"]
    BY DEF InboxInit
  <2>2. NoListing \in Listings /\ NoListing.page \in [Convs -> RowStates]
    BY DEF NoListing, Listings, RowStates
  <2>3. listing \in Listings
    BY <2>1, <2>2 DEF Listings
  <2>4. QED
    BY <1>1, <2>1, <2>2, <2>3 DEF ListTyped, RowsExist, Listed
<1>3. ViewTyped
  BY NoWalkTyped, NoNewerTyped DEF InboxInit, ViewTyped, NoWalk
<1>4. EventsOK
  BY DEF InboxInit, EventsOK
<1>5. SlotsOK
  BY IdleCall DEF InboxInit, SlotsOK, SlotOK, At
<1>6. Shows
  BY DEF InboxInit, Shows, NoWalk, NoNewer, ToSet, IsInjective
<1>7. QED
  BY <1>2, <1>3, <1>4, <1>5, <1>6, InboxInitStore DEF TypeInv, InboxTyped

LEMMA NextKeepsTypes ==
  ASSUME TypeInv, InboxNext
  PROVE  TypeInv'
BY InboxKeepsStore, ListKept, ViewKept, EventsKept, SlotsKept, ShowsKept
   DEF TypeInv, InboxTyped

LEMMA StutterKeepsTypes ==
  ASSUME TypeInv, UNCHANGED everything
  PROVE  TypeInv'
<1>1. UNCHANGED <<store, inbox>>
  BY DEF everything
<1>2. StoreInv' /\ DatesInv'
  BY <1>1, StutterKeepsStore, StutterKeepsDates DEF TypeInv
<1>3. /\ UNCHANGED <<rows, listing, selected, thread, shown, seen, walk, newer>>
      /\ UNCHANGED <<link, wire, strayed, conv, messages, call>>
  BY <1>1 DEF inbox, list, view, connection, history, store, data
<1>4. ListTyped' /\ ViewTyped'
  BY <1>3 DEF TypeInv, InboxTyped, ListTyped, RowsExist, Listed, Exists, ViewTyped
<1>5. EventsOK'
  BY <1>3 DEF TypeInv, InboxTyped, EventsOK, EventOK, IdsOf, MessagesOf, Exists
<1>6. SlotsOK'
  BY <1>3 DEF TypeInv, InboxTyped, SlotsOK, SlotOK, At, IdsOf, MessagesOf
<1>7. Shows'
  BY <1>3 DEF TypeInv, Shows, IdsOf, MessagesOf
<1>8. QED
  BY <1>2, <1>4, <1>5, <1>6, <1>7 DEF TypeInv, InboxTyped

LEMMA Inductive == InboxSpec => []TypeInv
<1>1. TypeInv /\ [InboxNext]_everything => TypeInv'
  BY NextKeepsTypes, StutterKeepsTypes
<1>2. QED
  BY <1>1, InboxInitTypes, PTL DEF InboxSpec

\* The inbox is well formed: every row is of a conversation, the selected one is
\* listed, what is shown has been seen, and no event is under way to a socket
\* that is down (useAgentInbox.ts, inboxRealtime.ts).
THEOREM InboxTypeCorrect == InboxSpec => []InboxTypeOK
<1>1. TypeInv => InboxTypeOK
  <2>1. TypeInv => StoreTypeOK
    BY StoreTypeCorrect DEF TypeInv
  <2>2. TypeInv => rows \in [Convs -> {"absent", "open", "closed"}]
    BY DEF TypeInv, InboxTyped, ListTyped, RowStates
  <2>3. QED
    BY <2>1, <2>2 DEF TypeInv, InboxTyped, ViewTyped, EventsOK, Shows, InboxTypeOK
<1>2. QED
  BY <1>1, Inductive, PTL

\* lastMessageAt, by which the inbox is sorted, is behind the newest message of a
\* conversation nothing is being sent to only if a touch failed or two sends
\* overlapped (message.service.ts create, createFromAgent).
THEOREM DatesBehindOnly == InboxSpec => []LastMessageAtBehindOnly
<1>1. TypeInv => LastMessageAtBehindOnly
  BY DatesCorrect DEF TypeInv
<1>2. QED
  BY <1>1, Inductive, PTL

\* The thread of the inbox is a feed: whatever pages, live events and answers
\* come in, in whatever order, each step shows more of the selected conversation
\* without repeating or moving a message, or clears the list (useAgentInbox.ts
\* appendMessages, ADR-025, section 8).
THEOREM ThreadIsFeed == InboxSpec => ImplementsFeed
<1>1. InboxInit => Feed!Init
  BY DEF InboxInit, Feed!Init
<1>2. TypeInv /\ InboxNext => Feed!Next
  <2> SUFFICES ASSUME TypeInv, InboxNext
               PROVE  Feed!Next
    OBVIOUS
  <2>1. CASE UNCHANGED <<selected, shown, seen, strayed>>
    <3>1. Storing \subseteq Storing'
      BY <2>1, StoringGrows
    <3>2. Feed!Store
      BY <2>1, <3>1 DEF Feed!Store, Storing, IdsOf
    <3>3. QED
      BY <3>2 DEF Feed!Next
  <2>2. ASSUME NEW ids, Appending(ids), strayed \subseteq strayed'
        PROVE  Feed!Next
    <3>1. Storing \subseteq Storing'
      BY <2>2, StoringGrows DEF Appending
    <3>2. IsPrefix(shown, shown') /\ IsInjective(shown')
      BY <2>2, Appends DEF Appending
    <3>3. ToSet(shown') \subseteq Storing'
      BY ShowsKept DEF Shows, Storing, IdsOf, MessagesOf
    <3>4. Feed!IsPrefix(shown, shown') /\ Feed!IsInjective(shown')
      BY <3>2 DEF IsPrefix, Feed!IsPrefix, IsInjective, Feed!IsInjective
    <3>5. Feed!ToSet(shown') \subseteq Storing'
      BY <3>3 DEF ToSet, Feed!ToSet
    <3>6. Feed!Show
      BY <3>1, <3>4, <3>5 DEF Feed!Show, Storing, IdsOf
    <3>7. QED
      BY <3>6 DEF Feed!Next
  <2>3. CASE shown' = <<>>
    BY <2>3 DEF Feed!Next, Feed!Clear
  <2>4. QED
    BY <2>1, <2>2, <2>3, ShownMoves
<1>3. UNCHANGED everything => UNCHANGED <<MessagesOf(selected), strayed, shown>>
  BY DEF everything, inbox, view, history, store, data, MessagesOf
<1>4. TypeInv /\ [InboxNext]_everything
        => [Feed!Next]_<<{m.id : m \in MessagesOf(selected)} \cup strayed, shown>>
  BY <1>2, <1>3
<1>5. QED
  BY <1>1, <1>4, Inductive, PTL DEF InboxSpec, ImplementsFeed, Feed!Spec

----------------------------------------------------------------------------
(* RowsCurrent: what is on its way to a row.                               *)

Announcing(k, c) == At(k, "announce") /\ call[k].conv = c

\* This agent's change of c's status has been written and is being answered.
Answering(c) ==
  At(ActionSlot, "answered") /\ call[ActionSlot].answer # Failed
    /\ call[ActionSlot].conv = c

Update(i, c) == wire[i].kind = "updated" /\ wire[i].conv = c

\* The last update on its way to the row, or else the row, has the status.
Heard(c) ==
  /\ \A i \in DOMAIN wire :
       Update(i, c) /\ (\A j \in DOMAIN wire : Update(j, c) => j <= i)
         => wire[i].status = conv[c].status
  /\ (\A i \in DOMAIN wire : ~Update(i, c)) /\ Listed(c) => rows[c] = conv[c].status

\* Whatever will set the row last has the status of the conversation.
RowOK(c) ==
  /\ \A k \in Calls : Announcing(k, c) => call[k].arg = conv[c].status
  /\ Answering(c) => call[ActionSlot].arg = conv[c].status
  /\ listing.page[c] # "absent" => listing.page[c] = conv[c].status
  /\ (\A k \in Calls : ~Announcing(k, c)) => Heard(c)

RowsInv ==
  /\ \A c \in Convs : Answering(c) => Exists(c)
  /\ \A c \in Convs : c \notin crossed => RowOK(c)

----------------------------------------------------------------------------
(* ListComplete: where the conversations not listed are.                   *)

Unlisted == rows = NoListing.page

InPage(c) == listing.pc = "read" /\ listing.page[c] # "absent"

\* Not before the first page has been read: every conversation is listed, on its
\* way, after the cursor, or has moved.
Reached(c) ==
  \/ Listed(c) \/ c \in moved \/ InPage(c)
  \/ older # NoCursor /\ After(Position(c), older)

ListInv ==
  /\ listing.pc \in {"asked", "failed"} /\ Unlisted => older = NoCursor
  /\ older # NoCursor => ~Unlisted \/ \E c \in Convs : InPage(c)
  /\ ~Unlisted \/ listing.pc \in {"none", "read"} =>
       \A c \in Convs : Exists(c) => Reached(c)

----------------------------------------------------------------------------
(* ThreadComplete: where the messages not shown are.                       *)

Unbroken == gapless /\ ~reclicked /\ ~misled /\ thread # "error"

\* Shown, or being sent or broadcast, or stored by an insertion reported as failed.
Live(i) ==
  \/ i \in ToSet(shown) \cup misreported
  \/ \E k \in Calls : call[k].pc \in Stored /\ call[k].conv = selected /\ call[k].id = i
  \/ \E n \in DOMAIN wire :
       wire[n].kind = "message" /\ wire[n].conv = selected /\ wire[n].id = i

\* In a page that was read, or after it.
InOrAfter(i, page) ==
  i \in page.got \/ (page.more /\ i > Max(page.got \cup {page.after}))

\* Still to come in the pages of the effect, or after the cursor they left.
ToCome(i) ==
  \/ walk.pc = "page" /\ i > walk.after
  \/ walk.pc = "read" /\ InOrAfter(i, walk)
  \/ walk.pc = "none" /\ newer.cursor # 0 /\ i > newer.cursor

Asked == newer.fresh /\ newer.pc # "none"

ThreadInv ==
  /\ gapless => link
  /\ thread # "error" => seen = ToSet(shown)
  /\ thread = "error" => walk.pc = "none"
  /\ walk.pc = "read" /\ walk.more => walk.got # {}
  /\ ~reclicked /\ ~misled /\ newer.cursor # 0 => walk.pc = "none"
  /\ ~reclicked /\ ~misled /\ Asked =>
       newer.conv = selected /\ newer.after = newer.cursor /\ newer.cursor # 0
  /\ Unbroken => \A i \in IdsOf(selected) : Live(i) \/ ToCome(i)
  /\ Unbroken /\ Asked /\ newer.pc = "read" =>
       \A i \in IdsOf(selected) : i > newer.after => Live(i) \/ InOrAfter(i, newer)

----------------------------------------------------------------------------
(* Pages of the list and of a thread.                                      *)

Rest(cursor) ==
  {c \in Convs : Exists(c) /\ (cursor # NoCursor => After(Position(c), cursor))}

Before(rest, c) == {d \in rest : After(Position(c), Position(d))}

LEMMA PositionsOrder ==
  ASSUME StoreInv
  PROVE  /\ \A c \in Convs : Position(c) # NoCursor /\ ~After(Position(c), Position(c))
         /\ \A c, d \in Convs :
              c # d => After(Position(c), Position(d)) \/ After(Position(d), Position(c))
         /\ \A c, d, e \in Convs :
              After(Position(c), Position(d)) /\ After(Position(d), Position(e))
                => After(Position(c), Position(e))
<1>1. \A c \in Convs : conv[c].lastAt \in Nat /\ c \in Nat /\ c # 0
  BY ConversationsAssumption DEF StoreInv, Typed, Documents, Convs
<1>2. \A c, d \in Convs :
        After(Position(c), Position(d)) <=>
          \/ conv[c].lastAt < conv[d].lastAt
          \/ conv[c].lastAt = conv[d].lastAt /\ c < d
  BY DEF After, Position
<1>3. \A c \in Convs : Position(c) # NoCursor
  BY <1>1 DEF Position, NoCursor
<1>4. QED
  BY <1>1, <1>2, <1>3

LEMMA RowRanks ==
  ASSUME StoreInv, NEW rest \in SUBSET Convs
  PROVE  /\ \A c \in rest : Cardinality(Before(rest, c)) \in 0..MaxConvs
         /\ \A c, d \in rest : After(Position(c), Position(d)) =>
              Cardinality(Before(rest, d)) < Cardinality(Before(rest, c))
<1>1. IsFiniteSet(Convs) /\ Cardinality(Convs) = MaxConvs
  <2>1. /\ 1 \in Int /\ MaxConvs \in Int
        /\ 1 > MaxConvs => MaxConvs = 0
        /\ (MaxConvs - 1) + 1 = MaxConvs
    OBVIOUS
  <2>2. /\ IsFiniteSet(1..MaxConvs)
        /\ Cardinality(1..MaxConvs) = IF 1 > MaxConvs THEN 0 ELSE (MaxConvs - 1) + 1
    BY <2>1, FS_Interval
  <2>3. QED
    BY <2>1, <2>2 DEF Convs
<1>2. ASSUME NEW c \in rest
      PROVE  /\ IsFiniteSet(Before(rest, c)) /\ Cardinality(Before(rest, c)) \in Nat
             /\ Cardinality(Before(rest, c)) <= MaxConvs
  <2>1. Before(rest, c) \in SUBSET Convs
    BY DEF Before
  <2>2. QED
    BY <1>1, <2>1, FS_Subset, FS_CardinalityType
<1>3. ASSUME NEW c \in rest, NEW d \in rest, After(Position(c), Position(d))
      PROVE  Cardinality(Before(rest, d)) < Cardinality(Before(rest, c))
  <2>1. Before(rest, d) \cup {d} \in SUBSET Before(rest, c) /\ d \notin Before(rest, d)
    BY <1>3, PositionsOrder DEF Before
  <2>2. Cardinality(Before(rest, d) \cup {d}) = Cardinality(Before(rest, d)) + 1
    BY <1>2, <2>1, FS_AddElement
  <2>3. Cardinality(Before(rest, d) \cup {d}) <= Cardinality(Before(rest, c))
    BY <1>2, <2>1, FS_Subset
  <2>4. QED
    BY <1>2, <2>2, <2>3
<1>4. QED
  BY <1>2, <1>3, ConversationsAssumption

\* A page holds the first of the rest, if there are any; what it leaves comes
\* after the last of it, from which the cursor is taken.
LEMMA PageOfList ==
  ASSUME StoreInv, NEW cursor
  PROVE  /\ Page(cursor) \subseteq Rest(cursor)
         /\ Rest(cursor) # {} => Page(cursor) # {}
         /\ Page(cursor) # {} =>
              /\ LastOf(Page(cursor)) \in Page(cursor)
              /\ \A c \in Rest(cursor) \ Page(cursor) :
                   After(Position(c), Position(LastOf(Page(cursor))))
<1> DEFINE rest == Rest(cursor)
           page == Page(cursor)
           rank(c) == Cardinality(Before(rest, c))
           last == LastOf(page)
<1>1. rest \in SUBSET Convs
  BY DEF Rest
<1>2. page = {c \in rest : rank(c) < RowLimit}
  BY DEF Page, Rest, Before
<1> HIDE DEF rest, page
<1>3. /\ \A c \in rest : rank(c) \in 0..MaxConvs /\ rank(c) \in Nat
      /\ \A c, d \in rest : After(Position(c), Position(d)) => rank(d) < rank(c)
  BY <1>1, RowRanks, ConversationsAssumption
<1> HIDE DEF rank
<1>4. ASSUME rest # {}
      PROVE  page # {}
  <2> DEFINE ranks == {rank(c) : c \in rest}
  <2>1. ranks \in SUBSET Nat /\ ranks # {}
    BY <1>3, <1>4
  <2> HIDE DEF ranks
  <2>20. Min(ranks) \in ranks /\ \A r \in ranks : Min(ranks) <= r
    BY <2>1, LeastNumber
  <2>2. PICK c \in rest : \A d \in rest : rank(c) <= rank(d)
    BY <2>20 DEF ranks
  <2>3. \A d \in rest : ~After(Position(c), Position(d))
    BY <1>3, <2>2
  <2>4. Before(rest, c) = {}
    BY <2>3 DEF Before
  <2>5. rank(c) = 0
    BY <2>4, FS_EmptySet DEF rank
  <2>6. 0 < RowLimit
    BY InboxAssumption
  <2>7. QED
    BY <1>2, <2>5, <2>6
<1>5. ASSUME page # {}
      PROVE  /\ last \in page
             /\ \A d \in page : d = last \/ After(Position(last), Position(d))
  <2> DEFINE ranks == {rank(c) : c \in page}
  <2>1. ranks \in SUBSET (0..MaxConvs) /\ ranks # {}
    BY <1>2, <1>3, <1>5
  <2> HIDE DEF ranks
  <2>20. Max(ranks) \in ranks /\ \A r \in ranks : r <= Max(ranks)
    BY <2>1, GreatestNumber
  <2>2. PICK c \in page : \A d \in page : rank(d) <= rank(c)
    BY <2>20 DEF ranks
  <2>3. \A d \in page : d = c \/ After(Position(c), Position(d))
    BY <1>1, <1>2, <1>3, <2>2, PositionsOrder
  <2>4. QED
    BY <2>3 DEF LastOf
<1> HIDE DEF last
<1>6. ASSUME page # {}, NEW c \in rest \ page
      PROVE  After(Position(c), Position(last))
  <2>1. last \in page /\ last \in rest /\ c # last
    BY <1>2, <1>5, <1>6
  <2>2. rank(last) < RowLimit /\ ~(rank(c) < RowLimit) /\ RowLimit \in Nat
    BY <1>2, <2>1, InboxAssumption
  <2>3. ~After(Position(last), Position(c))
    BY <1>3, <2>1, <2>2
  <2>4. QED
    BY <1>1, <2>1, <2>3, PositionsOrder
<1>7. QED
  BY <1>2, <1>4, <1>5, <1>6 DEF page, rest, last

\* A page of a thread holds the first of the later messages; what it leaves
\* comes after it.
LEMMA PageOfThread ==
  ASSUME NEW later \in SUBSET Ids, NEW n \in Nat \ {0}
  PROVE  /\ Oldest(later, n) \subseteq later
         /\ later # {} => Oldest(later, n) # {}
         /\ \A i \in later \ Oldest(later, n), j \in Oldest(later, n) : j < i
<1>1. later \in SUBSET (1..MaxMessages) /\ MaxMessages \in Nat
  BY ConversationsAssumption DEF Ids
<1>2. /\ Cardinality(later) \in Nat
      /\ \A i \in later : Cardinality(Below(later, i)) \in 0..(Cardinality(later) - 1)
      /\ \A i, j \in later : j < i => Cardinality(Below(later, j)) < Cardinality(Below(later, i))
  BY <1>1, Ranks
<1>3. Oldest(later, n) = {i \in later : Cardinality(Below(later, i)) < n}
  BY DEF Oldest, Below
<1>4. \A i \in later : i \in Nat /\ Cardinality(Below(later, i)) \in Nat
  BY <1>1, <1>2
<1>5. ASSUME later # {}
      PROVE  Oldest(later, n) # {}
  <2>1. Min(later) \in later /\ \A i \in later : Min(later) <= i
    BY <1>4, <1>5, LeastNumber
  <2>20. \A i \in later : ~(i < Min(later))
    BY <1>4, <2>1
  <2>2. Below(later, Min(later)) = {}
    BY <2>20 DEF Below
  <2>3. Cardinality(Below(later, Min(later))) = 0
    BY <2>2, FS_EmptySet
  <2>4. QED
    BY <1>3, <2>1, <2>3
<1>6. ASSUME NEW i \in later \ Oldest(later, n), NEW j \in Oldest(later, n)
      PROVE  j < i
  <2>1. j \in later /\ i \in later
    BY <1>3
  <2>2. Cardinality(Below(later, j)) < n /\ ~(Cardinality(Below(later, i)) < n)
    BY <1>3, <2>1
  <2>3. ~(i < j) /\ i # j
    BY <1>2, <1>4, <2>1, <2>2
  <2>4. QED
    BY <1>4, <2>1, <2>3
<1>7. QED
  BY <1>3, <1>5, <1>6

----------------------------------------------------------------------------
(* ListComplete, step by step.                                             *)

ListStep == AskList \/ ReadList \/ ShowList \/ ListFails

LEMMA ListRests ==
  ASSUME TypeInv, InboxNext, ~ListStep
  PROVE  /\ UNCHANGED <<listing, older>>
         /\ \A c \in Convs : Listed(c)' => Listed(c)
<1>1. UNCHANGED older
  BY DEF ListStep, InboxNext, Browser, Server, QuietStep, PublishMessage, WriteStatus,
         WriteStatusUnheard, AnnounceUpdate, Select, ReadPage, ShowPage, LoadFails, LoadMore, ReadMore,
         ShowMore, LoadMoreFails, Reply, ReplyAnswered, ChangeStatus, ActionAnswered,
         Connect, Disconnect, OnMessage, OnConversationUpdate, list, inbox
<1>2. CASE UNCHANGED <<rows, listing>>
  BY <1>1, <1>2 DEF Listed
<1>3. DOMAIN rows = Convs
  BY DEF TypeInv, InboxTyped, ListTyped
<1>4. CASE ActionAnswered
  <2>1. /\ UNCHANGED listing
        /\ \/ rows' = rows
           \/ /\ Listed(call[ActionSlot].answer)
              /\ rows' = [rows EXCEPT ![call[ActionSlot].answer] = call[ActionSlot].arg]
    BY <1>4 DEF ActionAnswered
  <2>2. QED
    BY <1>1, <1>3, <2>1 DEF Listed
<1>5. CASE OnConversationUpdate
  <2>1. /\ UNCHANGED listing
        /\ \/ rows' = rows
           \/ /\ Listed(Head(wire).conv)
              /\ \E status : rows' = [rows EXCEPT ![Head(wire).conv] = status]
    BY <1>5 DEF OnConversationUpdate
  <2>2. QED
    BY <1>1, <1>3, <2>1 DEF Listed
<1>6. QED
  BY <1>2, <1>4, <1>5, ListMovers DEF ListStep

\* What a step of the inbox does to where the conversations are in the list.
LEMMA MovesTold ==
  ASSUME TypeInv, InboxNext, ~ReadList
  PROVE  /\ moved \subseteq moved'
         /\ \A c \in Convs :
              Exists(c)' => c \in moved' \/ (Exists(c) /\ Position(c)' = Position(c))
<1>1. CASE \E k \in Calls : QuietStep(k)
  BY <1>1 DEF QuietStep, Moves, Exists, Position
<1>2. CASE \E k \in Calls : WriteStatus(k) \/ WriteStatusUnheard(k)
  <2>1. PICK k \in Calls : WriteStatus(k) \/ WriteStatusUnheard(k)
    BY <1>2
  <2>2. /\ UNCHANGED conv \/ WriteStatusOf(k)
        /\ At(k, "setStatus") /\ moved' = moved /\ Typed
    BY <2>1 DEF WriteStatus, WriteStatusUnheard, SetStatus, SetStatusReplyLost, TypeInv,
                StoreInv
  <2>3. CASE UNCHANGED conv
    BY <2>2, <2>3 DEF Exists, Position
  <2>4. CASE WriteStatusOf(k)
    <3>1. /\ Exists(call[k].conv)
          /\ \A d \in Convs : /\ conv'[d].lastAt = conv[d].lastAt
                              /\ d # call[k].conv => conv'[d] = conv[d]
      BY <2>2, <2>4, StatusIsWritten
    <3>2. QED
      BY <2>2, <3>1 DEF Exists, Position
  <2>5. QED
    BY <2>2, <2>3, <2>4
<1>3. CASE UNCHANGED <<conv, moved>>
  BY <1>3 DEF Exists, Position
<1>4. \/ UNCHANGED <<conv, moved>>
      \/ \E k \in Calls : QuietStep(k) \/ WriteStatus(k) \/ WriteStatusUnheard(k)
  <2>1. CASE Browser \/ ReadPage \/ ReadMore
    BY <2>1 DEF Browser, AskList, ShowList, ListFails, Select, ReadPage, ShowPage,
         LoadFails, LoadMore, ReadMore, ShowMore, LoadMoreFails, Reply, ReplyAnswered,
         ChangeStatus, ActionAnswered, Connect, Disconnect, OnMessage,
         OnConversationUpdate, store, data, history, inbox
  <2>2. ASSUME NEW k \in Calls, PublishMessage(k) \/ AnnounceUpdate(k)
        PROVE  UNCHANGED <<conv, moved>>
    BY <2>2 DEF PublishMessage, AnnounceUpdate, Publish, AnnounceStatus, data, history
  <2>3. ASSUME NEW k \in StaffSlots, StaffCalls(k) \/ CustomerCalls(k), UNCHANGED inbox
        PROVE  UNCHANGED <<conv, moved>>
    BY <2>3 DEF StaffCalls, CustomerCalls, data, inbox, history
  <2>4. QED
    BY <2>1, <2>2, <2>3 DEF InboxNext, Server
<1>5. QED
  BY <1>1, <1>2, <1>3, <1>4

LEMMA NothingListed ==
  ASSUME TypeInv
  PROVE  Unlisted <=> \A c \in Convs : ~Listed(c)
<1>1. rows \in [Convs -> RowStates]
  BY DEF TypeInv, InboxTyped, ListTyped
<1>2. QED
  BY <1>1 DEF Unlisted, NoListing, Listed

\* The steps of others, and those on threads, leave every conversation where it
\* was reached.
LEMMA OthersKeepList ==
  ASSUME TypeInv, ListInv, InboxNext, ~ListStep
  PROVE  ListInv'
<1>1. /\ UNCHANGED <<listing, older>>
      /\ \A c \in Convs : Listed(c)' <=> Listed(c)
  BY ListRests, ListKept
<1>2. /\ moved \subseteq moved'
      /\ \A c \in Convs :
           Exists(c)' => c \in moved' \/ (Exists(c) /\ Position(c)' = Position(c))
  BY MovesTold DEF ListStep
<1>3. Unlisted' <=> Unlisted
  <2>1. rows' \in [Convs -> RowStates]
    BY NextKeepsTypes DEF TypeInv, InboxTyped, ListTyped
  <2>2. QED
    BY <1>1, <2>1, NothingListed DEF Unlisted, NoListing, Listed
<1>4. \A c \in Convs : InPage(c)' <=> InPage(c)
  BY <1>1 DEF InPage
<1>5. ASSUME NEW c \in Convs, Reached(c), Position(c)' = Position(c)
      PROVE  Reached(c)'
  BY <1>1, <1>2, <1>4, <1>5 DEF Reached, After
<1>6. ASSUME ~Unlisted \/ listing.pc \in {"none", "read"}, NEW c \in Convs, Exists(c)'
      PROVE  Reached(c)'
  <2>1. CASE c \in moved'
    BY <2>1 DEF Reached
  <2>2. CASE Exists(c) /\ Position(c)' = Position(c)
    BY <1>5, <1>6, <2>2 DEF ListInv
  <2>3. QED
    BY <1>2, <1>6, <2>1, <2>2
<1>7. QED
  BY <1>1, <1>3, <1>4, <1>6 DEF ListInv

LEMMA AskKeepsList ==
  ASSUME TypeInv, ListInv, AskList \/ ListFails \/ ShowList
  PROVE  ListInv'
<1>1. /\ UNCHANGED <<conv, older, moved>>
      /\ rows \in [Convs -> RowStates] /\ listing \in Listings
  BY DEF AskList, ListFails, ShowList, store, data, history, TypeInv, InboxTyped, ListTyped
<1>2. CASE AskList
  <2>1. /\ listing.pc = "none" /\ older # NoCursor /\ rows' = rows
        /\ listing' = [listing EXCEPT !.pc = "asked"]
    BY <1>2 DEF AskList
  <2>2. listing'.pc = "asked" /\ ~Unlisted
    BY <1>1, <2>1 DEF Listings, ListInv, InPage
  <2>3. \A c \in Convs : Exists(c) => Reached(c) /\ ~InPage(c)
    BY <2>1 DEF ListInv, InPage
  <2>4. QED
    BY <1>1, <2>1, <2>2, <2>3
       DEF ListInv, Unlisted, Reached, Listed, Exists, Position, After
<1>3. CASE ListFails
  <2>1. /\ listing.pc = "asked" /\ rows' = rows
        /\ Unlisted => listing' = [listing EXCEPT !.pc = "failed"]
        /\ ~Unlisted => listing' = NoListing
    BY <1>3 DEF ListFails, Unlisted
  <2>2. /\ Unlisted' <=> Unlisted
        /\ Unlisted => listing'.pc = "failed" /\ older = NoCursor
        /\ ~Unlisted => listing'.pc = "none"
    BY <1>1, <2>1 DEF Listings, NoListing, ListInv, Unlisted
  <2>3. \A c \in Convs : ~InPage(c)
    BY <2>1 DEF InPage
  <2>4. ~Unlisted => \A c \in Convs : Exists(c)' => Reached(c)'
    BY <1>1, <2>1, <2>3 DEF ListInv, Reached, Listed, Exists, Position, After
  <2>5. QED
    BY <1>1, <2>2, <2>4 DEF ListInv
<1>4. CASE ShowList
  <2>1. /\ listing.pc = "read"
        /\ rows' = [c \in Convs |-> IF Listed(c) THEN rows[c] ELSE listing.page[c]]
        /\ listing' = NoListing
    BY <1>4 DEF ShowList
  <2>2. \A c \in Convs : Listed(c) \/ InPage(c) => Listed(c)'
    BY <2>1 DEF Listed, InPage
  <2>3. older # NoCursor => ~Unlisted'
    <3>1. older # NoCursor => \E c \in Convs : Listed(c)'
      BY <2>2, NothingListed DEF ListInv
    <3>2. QED
      BY <3>1 DEF Unlisted, NoListing, Listed
  <2>4. \A c \in Convs : Exists(c)' => Reached(c)'
    <3>1. ASSUME NEW c \in Convs, Exists(c)'
          PROVE  Reached(c)
      BY <1>1, <2>1, <3>1 DEF ListInv, Exists
    <3>2. QED
      BY <1>1, <2>2, <3>1 DEF Reached, Position, After
  <2>5. listing'.pc = "none"
    BY <2>1 DEF NoListing
  <2>6. QED
    BY <1>1, <2>3, <2>4, <2>5 DEF ListInv
<1>5. QED
  BY <1>2, <1>3, <1>4

\* A page reaches what is first after the cursor, and leaves a cursor before the rest.
LEMMA ReadKeepsList ==
  ASSUME TypeInv, ListInv, ReadList
  PROVE  ListInv'
<1> DEFINE page == Page(older)
           rest == Rest(older)
<1>1. /\ listing.pc = "asked" /\ UNCHANGED <<conv, rows>>
      /\ listing' = [pc |-> "read", page |-> [c \in Convs |->
                       IF c \in page THEN conv[c].status ELSE "absent"]]
      /\ older' = IF HasMore(older, page) THEN Position(LastOf(page)) ELSE NoCursor
      /\ moved' = IF Unlisted THEN {} ELSE moved
  BY DEF ReadList, store, data, Unlisted
<1>2. HasMore(older, page) <=> \E c \in Convs \ page : c \in rest
  BY DEF HasMore, Rest
<1>3. StoreInv
  BY DEF TypeInv
<1>4. /\ page \subseteq rest /\ rest \subseteq Convs
      /\ rest # {} => page # {}
      /\ page # {} =>
           /\ LastOf(page) \in page
           /\ \A c \in rest \ page : After(Position(c), Position(LastOf(page)))
  BY <1>3, PageOfList DEF Rest
<1>5. \A c \in rest : Exists(c)
  BY DEF Rest
<1>6. \A c \in Convs : Exists(c) => c \in rest \/ Listed(c) \/ (~Unlisted /\ c \in moved)
  <2> SUFFICES ASSUME NEW c \in Convs, Exists(c), ~(c \in rest)
               PROVE  Listed(c) \/ (~Unlisted /\ c \in moved)
    OBVIOUS
  <2>1. ~Unlisted
    BY <1>1 DEF ListInv, Rest
  <2>2. Reached(c) /\ ~InPage(c)
    BY <1>1, <2>1 DEF ListInv, InPage
  <2>3. QED
    BY <2>1, <2>2 DEF Reached, Rest
<1> HIDE DEF page, rest
<1>7. /\ listing'.pc = "read"
      /\ \A c \in Convs : InPage(c)' <=> c \in page
  <2>1. /\ listing'.pc = "read"
        /\ \A c \in Convs :
             listing'.page[c] = IF c \in page THEN conv[c].status ELSE "absent"
    BY <1>1
  <2>2. QED
    BY <1>4, <1>5, <2>1 DEF InPage, Exists
<1>8. \A c \in Convs : Position(c)' = Position(c)
  BY <1>1 DEF Position
<1>9. older' # NoCursor => \E c \in Convs : InPage(c)'
  BY <1>1, <1>2, <1>4, <1>7
<1>10. ASSUME NEW c \in Convs, Exists(c)'
       PROVE  Reached(c)'
  <2>1. CASE Listed(c) \/ (~Unlisted /\ c \in moved)
    BY <1>1, <2>1 DEF Reached, Listed
  <2>2. CASE c \in page
    BY <1>7, <2>2 DEF Reached
  <2>3. CASE c \in rest \ page
    <3>1. HasMore(older, page) /\ LastOf(page) \in Convs
      BY <1>2, <1>4, <2>3
    <3>2. older' = Position(LastOf(page)) /\ older' # NoCursor
      BY <1>1, <1>3, <3>1, PositionsOrder
    <3>3. After(Position(c), older')
      BY <1>4, <2>3, <3>2
    <3>4. QED
      BY <1>8, <3>2, <3>3 DEF Reached, After
  <2>4. QED
    BY <1>1, <1>6, <1>10, <2>1, <2>2, <2>3 DEF Exists
<1>11. QED
  BY <1>7, <1>9, <1>10 DEF ListInv

\* Following the cursor of the list to its end lists every conversation, whatever
\* is created and touched meanwhile, but those (conversation.repository.ts
\* listByOrganization, useAgentInbox.ts loadMore).
THEOREM ListReachesAll == InboxSpec => []ListComplete
<1>1. InboxInit => ListInv
  BY DEF InboxInit, ListInv, Unlisted, NoListing, InPage
<1>2. TypeInv /\ ListInv /\ [InboxNext]_everything => ListInv'
  <2>1. TypeInv /\ ListInv /\ InboxNext => ListInv'
    BY OthersKeepList, AskKeepsList, ReadKeepsList DEF ListStep
  <2>2. ListInv /\ UNCHANGED everything => ListInv'
    BY DEF everything, inbox, list, history, store, data, ListInv, Unlisted, InPage,
           Reached, Listed, Exists, Position, After
  <2>3. QED
    BY <2>1, <2>2
<1>3. ListInv => ListComplete
  BY DEF ListInv, ListComplete, Reached, InPage
<1>4. QED
  BY <1>1, <1>2, <1>3, Inductive, PTL DEF InboxSpec

----------------------------------------------------------------------------
(* RowsCurrent, step by step.                                              *)

\* No change of c's status is written, announced or answered.
CallsRest(c) ==
  /\ \A k \in Calls : Announcing(k, c)' <=> Announcing(k, c)
  /\ \A k \in Calls : Announcing(k, c) => call'[k].arg = call[k].arg
  /\ Answering(c)' => Answering(c) /\ call'[ActionSlot].arg = call[ActionSlot].arg

LEMMA RowStays ==
  ASSUME NEW c \in Convs, RowOK(c), conv'[c].status = conv[c].status, CallsRest(c),
         listing'.page[c] \in {listing.page[c], "absent", conv[c].status},
         Heard(c) => Heard(c)'
  PROVE  RowOK(c)'
<1>1. \A k \in Calls : Announcing(k, c)' => call'[k].arg = conv[c].status
  BY DEF CallsRest, RowOK
<1>2. Answering(c)' => call'[ActionSlot].arg = conv[c].status
  BY DEF CallsRest, RowOK
<1>3. (\A k \in Calls : ~Announcing(k, c)') => Heard(c)'
  BY DEF CallsRest, RowOK
<1>4. listing'.page[c] # "absent" => listing'.page[c] = conv[c].status
  BY DEF RowOK
<1>5. QED
  BY <1>1, <1>2, <1>3, <1>4 DEF RowOK

LEMMA CallsRestIf ==
  ASSUME NEW c \in Convs, NEW k \in Calls, \A j \in Calls \ {k} : call'[j] = call[j],
         ~At(k, "announce"), call'[k].pc # "announce",
         k = ActionSlot => call'[k].pc # "answered"
  PROVE  CallsRest(c)
BY DEF CallsRest, Announcing, Answering, At

LEMMA SameWire ==
  ASSUME NEW c \in Convs, UNCHANGED wire, conv'[c].status = conv[c].status,
         Listed(c)' => Listed(c) /\ rows'[c] = rows[c]
  PROVE  Heard(c) => Heard(c)'
BY DEF Heard, Update

\* An operation on messages, or of resolveOpen.
LEMMA QuietCalls ==
  ASSUME TypeInv, NEW k \in Calls, Operation(k),
         ~SetStatus(k), ~SetStatusReplyLost(k), ~AnnounceStatus(k)
  PROVE  \A c \in Convs : CallsRest(c)
<1>1. Typed /\ SlotOK(k)
  BY DEF TypeInv, StoreInv, InboxTyped, SlotsOK
<1>2. call[k].pc \in Resolving \cup Sends
  BY DEF Operation, Find, Create, FindAgain, RefuseSend, AdmitSend, Insert, InsertFails,
         InsertReplyLost, Touch, TouchFails, Publish, At, Resolving, Sends
<1>3. ~At(k, "announce") /\ (k = ActionSlot => ~call[k].http)
  BY <1>1, <1>2 DEF SlotOK, At, Resolving, Sends
<1>4. ASSUME NEW pc \in Pcs, Goes(k, pc), pc \notin {"announce", "answered"}
      PROVE  call'[k].pc \notin {"announce", "answered"}
  BY <1>1, <1>4, GoesMoves
<1>5. ASSUME NEW answer \in Nat, Ends(k, answer)
      PROVE  call'[k].pc # "announce" /\ (k = ActionSlot => call'[k].pc # "answered")
  BY <1>1, <1>3, <1>5, EndsMoves, IdleCall
<1>6. /\ Failed \in Nat /\ call[k].id \in Nat /\ \A u : \A c \in OpenOf(u) : c \in Nat
      /\ {"create", "findAgain", "touch", "publish"} \subseteq Pcs
  BY <1>1, OpenOfConvs DEF Failed, Typed, CallRecords, Pcs
<1>7. Create(k) /\ UniqueOpenAdmits(call[k].customer) => Ends(k, NextConv) /\ NextConv \in Nat
  BY <1>1, CreateWrites DEF Convs
<1>8. AdmitSend(k) => call'[k].pc = "insert"
  BY <1>1, AdmitMoves
<1>9. call'[k].pc # "announce" /\ (k = ActionSlot => call'[k].pc # "answered")
  <2>1. CASE Find(k) \/ Create(k) \/ FindAgain(k)
    BY <1>4, <1>5, <1>6, <1>7, <2>1 DEF Find, Create, FindAgain
  <2>2. CASE RefuseSend(k) \/ InsertFails(k) \/ InsertReplyLost(k) \/ AdmitSend(k) \/ Publish(k)
    BY <1>5, <1>6, <1>8, <2>2 DEF RefuseSend, InsertFails, InsertReplyLost, Publish
  <2>3. CASE Insert(k) \/ Touch(k) \/ TouchFails(k)
    BY <1>4, <1>6, <2>3 DEF Insert, Touch, TouchFails
  <2>4. QED
    BY <2>1, <2>2, <2>3 DEF Operation
<1>10. \A j \in Calls \ {k} : call'[j] = call[j]
  BY OperationGrows DEF TypeInv
<1>11. QED
  BY <1>3, <1>9, <1>10, CallsRestIf

\* Beginnings and ends of calls in the agent's and others' slots.
LEMMA BegunCalls ==
  ASSUME TypeInv, NEW k \in Calls, At(k, "idle"),
         NEW pc, NEW u, NEW c, NEW arg, NEW http, Starts(k, pc, u, c, arg, http)
  PROVE  \A d \in Convs : CallsRest(d)
<1>1. /\ call'[k].pc = pc /\ pc \in {"find", "check", "setStatus"}
      /\ \A j \in Calls \ {k} : call'[j] = call[j]
  BY StartsMoves DEF TypeInv, StoreInv, Starts
<1>2. QED
  BY <1>1, CallsRestIf DEF At

LEMMA ForgottenCalls ==
  ASSUME TypeInv, NEW k \in Calls, At(k, "answered"), Forget(k)
  PROVE  \A d \in Convs : CallsRest(d)
<1>1. call'[k] = Idle /\ \A j \in Calls \ {k} : call'[j] = call[j]
  BY DEF Forget, TypeInv, StoreInv, Typed
<1>2. QED
  BY <1>1, CallsRestIf, IdleCall DEF At

LEMMA StoreCallsRest ==
  ASSUME UNCHANGED store
  PROVE  \A c \in Convs : CallsRest(c) /\ conv'[c] = conv[c]
BY DEF store, data, CallsRest, Announcing, Answering, At

\* Nothing is on its way to the row of a conversation that does not exist.
LEMMA RowOfAbsent ==
  ASSUME TypeInv, RowsInv, NEW c \in Convs, ~Exists(c)
  PROVE  /\ \A k \in Calls : ~Announcing(k, c)
         /\ ~Answering(c) /\ ~Listed(c) /\ listing.page[c] = "absent"
         /\ \A i \in DOMAIN wire : ~Update(i, c)
<1>1. \A k \in Calls : ~Announcing(k, c)
  BY DEF TypeInv, StoreInv, Typed, CallOK, Announcing, At
<1>2. \A i \in DOMAIN wire : ~Update(i, c)
  BY DEF TypeInv, InboxTyped, EventsOK, EventOK, Update
<1>3. QED
  BY <1>1, <1>2 DEF TypeInv, InboxTyped, ListTyped, RowsExist, RowsInv

LEMMA SameUpdates ==
  ASSUME NEW c \in Convs, conv'[c].status = conv[c].status,
         \A i \in DOMAIN wire : i \in DOMAIN wire' /\ wire'[i] = wire[i],
         \A i \in DOMAIN wire' : Update(i, c)' => i \in DOMAIN wire,
         Listed(c)' => Listed(c) /\ rows'[c] = rows[c]
  PROVE  Heard(c) => Heard(c)'
BY DEF Heard, Update

\* The publication of a message adds no update.
LEMMA MessageOnWire ==
  ASSUME TypeInv, NEW k \in Calls, PublishMessage(k)
  PROVE  /\ \A i \in DOMAIN wire : i \in DOMAIN wire' /\ wire'[i] = wire[i]
         /\ \A c : \A i \in DOMAIN wire' : Update(i, c)' => i \in DOMAIN wire
<1>1. /\ call[k].conv \in Convs /\ call[k].id \in 0..MaxMessages
      /\ Emit("message", call[k].conv, call[k].id, "none")
  BY PublishedEvent
<1> DEFINE e == [kind |-> "message", conv |-> call[k].conv, id |-> call[k].id,
                 status |-> "none"]
<1>2. e.kind = "message" /\ wire \in Seq(Events)
  BY DEF TypeInv, InboxTyped, EventsOK
<1> HIDE DEF e
<1>3. /\ ~link => wire' = wire
      /\ link => /\ wire'[Len(wire) + 1] = e
                 /\ \A i \in DOMAIN wire : i \in DOMAIN wire' /\ wire'[i] = wire[i]
                 /\ \A i \in DOMAIN wire' : i = Len(wire) + 1 \/ i \in DOMAIN wire
  BY <1>1, <1>2, Emitted DEF e
<1>4. link \in BOOLEAN
  BY DEF TypeInv, InboxTyped, EventsOK
<1>5. CASE link
  BY <1>2, <1>3, <1>5 DEF Update
<1>6. CASE ~link
  BY <1>3, <1>6
<1>7. QED
  BY <1>4, <1>5, <1>6

\* The operations that are not of setStatus change no status.
LEMMA QuietStatus ==
  ASSUME TypeInv, NEW k \in Calls, Operation(k), ~SetStatus(k), ~SetStatusReplyLost(k)
  PROVE  \A c \in Convs : Exists(c) => conv'[c].status = conv[c].status
<1>1. Typed
  BY DEF TypeInv, StoreInv
<1>2. CASE UNCHANGED conv
  BY <1>2
<1>3. CASE Create(k) /\ ~UNCHANGED conv
  BY <1>1, <1>3, CreateWrites DEF Create
<1>4. CASE Touch(k)
  <2>1. call[k].conv \in Convs /\ call[k].id \in 0..MaxMessages
    BY <1>1, <1>4, StoredCall DEF Touch, At, Stored
  <2>2. QED
    BY <1>1, <1>4, <2>1, TouchWrites DEF Touch
<1>5. QED
  BY <1>2, <1>3, <1>4
     DEF Operation, Find, FindAgain, RefuseSend, AdmitSend, Insert, InsertFails,
         InsertReplyLost, TouchFails, Publish, AnnounceStatus, data

LEMMA AnsweredExist ==
  ASSUME TypeInv, InboxNext, RowsInv, \A c \in Convs : CallsRest(c)
  PROVE  \A c \in Convs : Answering(c)' => Exists(c)'
BY InboxKeepsStore DEF RowsInv, CallsRest

LEMMA QuietKeepsRows ==
  ASSUME TypeInv, InboxNext, RowsInv, NEW k \in Calls, QuietStep(k) \/ PublishMessage(k)
  PROVE  RowsInv'
<1>1. Operation(k) /\ ~SetStatus(k) /\ ~SetStatusReplyLost(k) /\ ~AnnounceStatus(k)
  BY DEF QuietStep, PublishMessage, Operation, Find, Create, FindAgain, RefuseSend,
         SendStep, AdmitSend, Insert, Touch, TouchFails, InsertFails, InsertReplyLost,
         Publish, SetStatus, SetStatusReplyLost, AnnounceStatus, At
<1>2. \A c \in Convs : CallsRest(c)
  BY <1>1, QuietCalls
<1>3. UNCHANGED <<rows, listing, crossed>>
  BY DEF QuietStep, PublishMessage, list, history
<1>4. /\ \A i \in DOMAIN wire : i \in DOMAIN wire' /\ wire'[i] = wire[i]
      /\ \A c : \A i \in DOMAIN wire' : Update(i, c)' => i \in DOMAIN wire
  <2>1. CASE QuietStep(k)
    BY <2>1 DEF QuietStep, connection
  <2>2. QED
    BY <2>1, MessageOnWire
<1>5. ASSUME NEW c \in Convs, c \notin crossed
      PROVE  RowOK(c)'
  <2>1. CASE Exists(c)
    <3>1. conv'[c].status = conv[c].status
      BY <1>1, <2>1, QuietStatus
    <3>2. Heard(c) => Heard(c)'
      BY <1>3, <1>4, <3>1, SameUpdates DEF Listed
    <3>3. QED
      BY <1>2, <1>3, <1>5, <3>1, <3>2, RowStays DEF RowsInv
  <2>2. CASE ~Exists(c)
    <3>1. /\ \A j \in Calls : ~Announcing(j, c)
          /\ ~Answering(c) /\ ~Listed(c) /\ listing.page[c] = "absent"
          /\ \A i \in DOMAIN wire : ~Update(i, c)
      BY <2>2, RowOfAbsent
    <3>2. /\ \A j \in Calls : ~Announcing(j, c)'
          /\ ~Answering(c)' /\ ~Listed(c)' /\ listing'.page[c] = "absent"
      BY <1>2, <1>3, <3>1 DEF CallsRest, Listed
    <3>3. \A i \in DOMAIN wire' : ~Update(i, c)'
      BY <1>4, <3>1 DEF Update
    <3>4. QED
      BY <3>2, <3>3 DEF RowOK, Heard
  <2>3. QED
    BY <2>1, <2>2
<1>6. QED
  BY <1>2, <1>3, <1>5, AnsweredExist DEF RowsInv

\* What is written while nothing of c is on its way is announced by the writer alone.
LEMMA WriteKeepsRows ==
  ASSUME TypeInv, InboxNext, RowsInv, NEW k \in Calls, WriteStatus(k)
  PROVE  RowsInv'
<1>20. call[k].conv \in Convs
  BY DEF WriteStatus, SetStatus, TypeInv, StoreInv, Typed, CallOK, At
<1>10. PICK c, status : c \in Convs /\ c = call[k].conv /\ status = call[k].arg
  BY <1>20
<1>1. /\ Typed /\ SetStatus(k) /\ At(k, "setStatus")
      /\ UNCHANGED <<rows, listing, wire>>
      /\ crossed' = IF Crossing(k, c) THEN crossed \cup {c} ELSE crossed
  BY <1>10 DEF WriteStatus, SetStatus, TypeInv, StoreInv, list, connection
<1>2. \A j \in Calls \ {k} : call'[j] = call[j]
  BY <1>1, OperationGrows DEF TypeInv, Operation
<1>3. c \in Convs /\ Exists(c) /\ status \in {"open", "closed"}
  BY <1>1, <1>10 DEF Typed, CallOK, At
<1>4. CASE StatusRefused(k)
  <2>1. Ends(k, Failed) /\ UNCHANGED conv /\ Failed \in Nat
    BY <1>1, <1>4 DEF SetStatus, Failed
  <2>2. /\ call'[k].pc \in {"idle", "answered"}
        /\ call'[k].pc = "answered" => call'[k].answer = Failed
    BY <1>1, <2>1, EndsMoves, IdleCall
  <2>3. \A d \in Convs : CallsRest(d)
    BY <1>1, <1>2, <1>10, <2>2 DEF CallsRest, Announcing, Answering, At
  <2>4. ASSUME NEW d \in Convs, d \notin crossed
        PROVE  RowOK(d)'
    <3>1. Heard(d) => Heard(d)'
      BY <1>1, <2>1, SameWire DEF Listed
    <3>2. QED
      BY <1>1, <2>1, <2>3, <2>4, <3>1, RowStays DEF RowsInv
  <2>5. crossed \subseteq crossed'
    BY <1>1
  <2>6. QED
    BY <2>3, <2>4, <2>5, AnsweredExist DEF RowsInv
<1>5. CASE ~StatusRefused(k)
  <2>0. WriteStatusOf(k) /\ Goes(k, "announce")
    BY <1>1, <1>5 DEF SetStatus
  <2>1. /\ conv'[c].status = status /\ Goes(k, "announce")
        /\ \A d \in Convs \ {c} : conv'[d] = conv[d]
    BY <1>1, <1>10, <2>0, StatusIsWritten
  <2>2. /\ call'[k].pc = "announce" /\ call'[k].conv = c /\ call'[k].arg = status
    BY <1>1, <1>10, <2>1, GoesMoves DEF Pcs
  <2>3. \A d \in Convs \ {c} : CallsRest(d)
    BY <1>1, <1>2, <1>10, <2>2 DEF CallsRest, Announcing, Answering, At
  <2>4. \A d \in Convs : Answering(d)' => Answering(d)
    BY <1>2, <2>2 DEF Answering, At
  <2>5. \A d \in Convs : Answering(d)' => Exists(d)'
    BY <2>4, InboxKeepsStore DEF RowsInv
  <2>6. ASSUME NEW d \in Convs \ {c}, d \notin crossed
        PROVE  RowOK(d)'
    <3>1. Heard(d) => Heard(d)'
      BY <1>1, <2>1, SameWire DEF Listed
    <3>2. QED
      BY <1>1, <2>1, <2>3, <2>6, <3>1, RowStays DEF RowsInv
  <2>7. ASSUME ~Crossing(k, c)
        PROVE  RowOK(c)'
    <3>1. /\ listing.page[c] = "absent"
          /\ \A j \in Calls \ {k} : ~Announcing(j, c) /\ ~(j = ActionSlot /\ Answering(c))
      BY <2>7 DEF Crossing, Announcing, Answering
    <3>2. \A j \in Calls : Announcing(j, c)' => j = k
      BY <1>2, <3>1 DEF Announcing, At
    <3>3. ~Answering(c)'
      BY <1>2, <2>2, <3>1 DEF Answering, At
    <3>4. Announcing(k, c)'
      BY <2>2 DEF Announcing, At
    <3>5. QED
      BY <1>1, <2>1, <2>2, <3>1, <3>2, <3>3, <3>4 DEF RowOK
  <2>8. QED
    BY <1>1, <2>5, <2>6, <2>7 DEF RowsInv
<1>6. QED
  BY <1>4, <1>5

\* What is written unheard of is of a conversation that counts as crossed.
LEMMA UnheardKeepsRows ==
  ASSUME TypeInv, InboxNext, RowsInv, NEW k \in Calls, WriteStatusUnheard(k)
  PROVE  RowsInv'
<1>1. PICK c : c = call[k].conv
  OBVIOUS
<1>2. /\ Typed /\ SetStatusReplyLost(k) /\ At(k, "setStatus") /\ WriteStatusOf(k)
      /\ Ends(k, Failed) /\ Failed \in Nat
      /\ UNCHANGED <<rows, listing, wire>> /\ crossed' = crossed \cup {c}
  BY <1>1 DEF WriteStatusUnheard, SetStatusReplyLost, Failed, TypeInv, StoreInv, list,
              connection
<1>3. \A j \in Calls \ {k} : call'[j] = call[j]
  BY <1>2, OperationGrows DEF TypeInv, Operation
<1>4. \A d \in Convs \ {c} : conv'[d] = conv[d]
  BY <1>1, <1>2, StatusIsWritten
<1>5. /\ call'[k].pc \in {"idle", "answered"}
      /\ call'[k].pc = "answered" => call'[k].answer = Failed
  BY <1>2, EndsMoves, IdleCall
<1>6. \A d \in Convs : CallsRest(d)
  BY <1>2, <1>3, <1>5 DEF CallsRest, Announcing, Answering, At
<1>7. ASSUME NEW d \in Convs \ {c}, d \notin crossed
      PROVE  RowOK(d)'
  <2>1. Heard(d) => Heard(d)'
    BY <1>2, <1>4, SameWire DEF Listed
  <2>2. QED
    BY <1>2, <1>4, <1>6, <1>7, <2>1, RowStays DEF RowsInv
<1>8. QED
  BY <1>2, <1>6, <1>7, AnsweredExist DEF RowsInv

\* The announcement is the last update on its way, and has what was written last.
LEMMA AnnounceKeepsRows ==
  ASSUME TypeInv, InboxNext, RowsInv, NEW k \in Calls, AnnounceUpdate(k)
  PROVE  RowsInv'
<1>1. /\ call[k].conv \in Convs /\ Exists(call[k].conv) /\ call[k].arg \in {"open", "closed"}
      /\ Emit("updated", call[k].conv, 0, call[k].arg) /\ 0 \in 0..MaxMessages
  BY AnnouncedEvent
<1>2. PICK c \in Convs, status \in {"open", "closed"} :
        c = call[k].conv /\ status = call[k].arg
  BY <1>1
<1>3. /\ Typed /\ At(k, "announce") /\ Ends(k, c) /\ UNCHANGED <<data, rows, listing>>
      /\ crossed' = IF link THEN crossed ELSE crossed \cup {c}
      /\ link \in BOOLEAN /\ wire \in Seq(Events) /\ c \in Nat
  BY <1>2 DEF AnnounceUpdate, AnnounceStatus, TypeInv, StoreInv, list, InboxTyped,
         EventsOK, Convs
<1>4. /\ call'[k].pc \in {"idle", "answered"}
      /\ call'[k].pc = "answered" =>
           call'[k].conv = c /\ call'[k].arg = status /\ call'[k].answer = c
      /\ \A j \in Calls \ {k} : call'[j] = call[j]
  BY <1>2, <1>3, EndsMoves, IdleCall
<1> DEFINE e == [kind |-> "updated", conv |-> c, id |-> 0, status |-> status]
<1>5. e.kind = "updated" /\ e.conv = c /\ e.status = status
  OBVIOUS
<1> HIDE DEF e
<1>6. /\ ~link => wire' = wire
      /\ link => /\ DOMAIN wire = 1..Len(wire) /\ Len(wire) \in Nat
                 /\ DOMAIN wire' = 1..(Len(wire) + 1)
                 /\ wire'[Len(wire) + 1] = e
                 /\ \A i \in DOMAIN wire : i \in DOMAIN wire' /\ wire'[i] = wire[i]
                 /\ \A i \in DOMAIN wire' : i = Len(wire) + 1 \/ i \in DOMAIN wire
  BY <1>1, <1>2, <1>3, Emitted DEF e
<1>7. \A d \in Convs : conv'[d] = conv[d] /\ (Exists(d)' <=> Exists(d))
  BY <1>3 DEF data, Exists
<1>8. \A d \in Convs : Answering(d)' => Answering(d) \/ (d = c /\ call'[ActionSlot].arg = status)
  <2>1. CASE ActionSlot = k
    BY <1>4, <2>1 DEF Answering, At
  <2>2. CASE ActionSlot # k
    BY <1>4, <2>2 DEF Answering, At
  <2> QED BY <2>1, <2>2
<1>9. ASSUME NEW d \in Convs \ {c}, d \notin crossed
      PROVE  RowOK(d)'
  <2>1. CallsRest(d)
    BY <1>2, <1>3, <1>4 DEF CallsRest, Announcing, Answering, At
  <2>2. /\ \A i \in DOMAIN wire : i \in DOMAIN wire' /\ wire'[i] = wire[i]
        /\ \A i \in DOMAIN wire' : Update(i, d)' => i \in DOMAIN wire
    BY <1>3, <1>5, <1>6, <1>9 DEF Update
  <2>3. Heard(d) => Heard(d)'
    BY <1>3, <1>7, <2>2, SameUpdates DEF Listed
  <2>4. QED
    BY <1>3, <1>7, <1>9, <2>1, <2>3, RowStays DEF RowsInv
<1>10. ASSUME c \notin crossed, link
       PROVE  RowOK(c)'
  <2>1. RowOK(c) /\ status = conv[c].status
    BY <1>2, <1>3, <1>10 DEF RowsInv, RowOK, Announcing
  <2>2. \A j \in Calls : Announcing(j, c)' => call'[j].arg = conv[c].status
    <3>1. \A j \in Calls : Announcing(j, c)' => j # k /\ Announcing(j, c)
      BY <1>4 DEF Announcing, At
    <3>2. QED
      BY <1>4, <2>1, <3>1 DEF RowOK
  <2>3. Answering(c)' => call'[ActionSlot].arg = conv[c].status
    <3>1. CASE k = ActionSlot
      BY <1>4, <2>1, <3>1 DEF Answering, At
    <3>2. CASE k # ActionSlot
      BY <1>4, <2>1, <3>2 DEF Answering, At, RowOK
    <3>3. QED
      BY <3>1, <3>2
  <2>4. Heard(c)'
    <3>2. ASSUME NEW i \in DOMAIN wire', Update(i, c)',
                 \A j \in DOMAIN wire' : Update(j, c)' => j <= i
          PROVE  wire'[i].status = conv[c].status
      <4>1. Len(wire) + 1 <= i
        <5>1. wire'[Len(wire) + 1].kind = "updated" /\ wire'[Len(wire) + 1].conv = c
          BY <1>5, <1>6, <1>10
        <5>2. QED
          BY <1>6, <1>10, <3>2, <5>1 DEF Update
      <4>2. i = Len(wire) + 1
        BY <1>6, <1>10, <4>1
      <4>3. QED
        BY <1>5, <1>6, <1>10, <2>1, <4>2
    <3>3. ~(\A i \in DOMAIN wire' : ~Update(i, c)')
      <4>1. wire'[Len(wire) + 1].kind = "updated" /\ wire'[Len(wire) + 1].conv = c
        BY <1>5, <1>6, <1>10
      <4>2. QED
        BY <1>6, <1>10, <4>1 DEF Update
    <3>4. QED
      BY <1>7, <3>2, <3>3 DEF Heard
  <2>5. listing'.page[c] # "absent" => listing'.page[c] = conv[c].status
    BY <1>3, <2>1 DEF RowOK
  <2>6. QED
    BY <1>7, <2>2, <2>3, <2>4, <2>5 DEF RowOK
<1>11. \A d \in Convs : Answering(d)' => Exists(d)'
  BY <1>1, <1>2, <1>7, <1>8 DEF RowsInv
<1>12. QED
  BY <1>3, <1>9, <1>10, <1>11 DEF RowsInv

\* The socket delivers in order, so the row hears the last update last.
LEMMA DeliveryKeepsRows ==
  ASSUME TypeInv, InboxNext, RowsInv, OnMessage \/ OnConversationUpdate
  PROVE  RowsInv'
<1>1. UNCHANGED <<store, listing, crossed>>
  BY DEF OnMessage, OnConversationUpdate, list, history
<1>2. \A c \in Convs : CallsRest(c) /\ conv'[c] = conv[c]
  BY <1>1, StoreCallsRest
<1>3. PICK kind \in {"message", "updated"} : Delivers(kind)
  BY DEF OnMessage, OnConversationUpdate
<1>4. /\ wire[1].kind = kind /\ Len(wire) \in Nat \ {0} /\ 1 \in DOMAIN wire
      /\ DOMAIN wire = 1..Len(wire) /\ DOMAIN wire' = 1..(Len(wire) - 1)
      /\ \A i \in DOMAIN wire' : i + 1 \in DOMAIN wire /\ wire'[i] = wire[i + 1]
      /\ Head(wire) = wire[1] /\ wire[1] \in Events
  <2>1. wire \in Seq(Events)
    BY DEF TypeInv, InboxTyped, EventsOK
  <2>2. QED
    BY <1>3, <2>1, Delivered
<1>5. \A c : \A i \in DOMAIN wire' : Update(i, c)' <=> Update(i + 1, c)
  BY <1>4 DEF Update
<1>6. \A i \in DOMAIN wire : i = 1 \/ (i - 1 \in DOMAIN wire' /\ (i - 1) + 1 = i)
  BY <1>4
<1>7. /\ rows \in [Convs -> RowStates]
      /\ kind = "message" => rows' = rows
      /\ kind = "updated" =>
           rows' = IF Listed(wire[1].conv) THEN [rows EXCEPT ![wire[1].conv] = wire[1].status]
                                           ELSE rows
      /\ wire[1].conv \in Convs
  BY <1>3, <1>4 DEF OnMessage, OnConversationUpdate, Delivers, Merge, list, TypeInv,
         InboxTyped, ListTyped, Events
<1>8. ASSUME NEW c \in Convs, Heard(c)
      PROVE  Heard(c)'
  <2>1. ASSUME NEW i \in DOMAIN wire', Update(i, c)',
               \A j \in DOMAIN wire' : Update(j, c)' => j <= i
        PROVE  wire'[i].status = conv[c].status
    <3>1. i + 1 \in DOMAIN wire /\ Update(i + 1, c)
      BY <1>4, <1>5, <2>1
    <3>2. ASSUME NEW j \in DOMAIN wire, Update(j, c)
          PROVE  j <= i + 1
      <4>1. CASE j = 1
        BY <1>4, <2>1, <4>1
      <4>2. CASE j # 1
        <5>1. j - 1 \in DOMAIN wire' /\ Update(j - 1, c)'
          BY <1>5, <1>6, <3>2, <4>2
        <5>2. j - 1 <= i
          BY <2>1, <5>1 DEF Update
        <5>3. QED
          BY <1>4, <2>1, <5>2
      <4>3. QED
        BY <4>1, <4>2
    <3>3. QED
      BY <1>4, <1>8, <2>1, <3>1, <3>2 DEF Heard
  <2>2. ASSUME \A i \in DOMAIN wire' : ~Update(i, c)', Listed(c)'
        PROVE  rows'[c] = conv[c].status
    <3>1. \A i \in DOMAIN wire : i # 1 => ~Update(i, c)
      BY <1>5, <1>6, <2>2 DEF Update
    <3>2. CASE Update(1, c)
      <4>1. wire[1].status = conv[c].status
        BY <1>4, <1>8, <3>1, <3>2 DEF Heard
      <4>2. kind = "updated" /\ wire[1].conv = c
        BY <1>4, <3>2 DEF Update
      <4>3. QED
        BY <1>7, <2>2, <4>1, <4>2 DEF Listed
    <3>3. CASE ~Update(1, c)
      <4>1. rows'[c] = rows[c]
        BY <1>4, <1>7, <3>3 DEF Update
      <4>2. QED
        BY <1>8, <2>2, <3>1, <3>3, <4>1 DEF Heard, Listed
    <3>4. QED
      BY <3>2, <3>3
  <2>3. QED
    BY <1>2, <2>1, <2>2 DEF Heard
<1>9. ASSUME NEW c \in Convs, c \notin crossed
      PROVE  RowOK(c)'
  BY <1>1, <1>2, <1>8, <1>9, RowStays DEF RowsInv
<1>10. QED
  BY <1>1, <1>2, <1>9, AnsweredExist DEF RowsInv

\* What was on its way to a broken socket counts as crossed.
LEMMA DisconnectKeepsRows ==
  ASSUME TypeInv, InboxNext, RowsInv, Disconnect
  PROVE  RowsInv'
<1>1. /\ UNCHANGED <<store, rows, listing>> /\ wire' = <<>>
      /\ crossed \subseteq crossed'
      /\ \A i \in DOMAIN wire : wire[i].kind = "updated" => wire[i].conv \in crossed'
  BY DEF Disconnect, list
<1>2. \A c \in Convs : CallsRest(c) /\ conv'[c] = conv[c]
  BY <1>1, StoreCallsRest
<1>3. ASSUME NEW c \in Convs, c \notin crossed'
      PROVE  RowOK(c)'
  <2>1. DOMAIN wire' = {}
    BY <1>1
  <2>2. \A i \in DOMAIN wire : ~Update(i, c)
    BY <1>1, <1>3 DEF Update
  <2>3. Heard(c) => Heard(c)'
    BY <1>1, <1>2, <2>1, <2>2 DEF Heard, Listed
  <2>4. QED
    BY <1>1, <1>2, <1>3, <2>3, RowStays DEF RowsInv
<1>4. QED
  BY <1>2, <1>3, AnsweredExist DEF RowsInv

\* The answer replaces the row by what was written last.
LEMMA AnswerKeepsRows ==
  ASSUME TypeInv, InboxNext, RowsInv, ActionAnswered
  PROVE  RowsInv'
<1> DEFINE d == call[ActionSlot].answer
           status == call[ActionSlot].arg
<1>1. /\ UNCHANGED <<data, listing, wire, crossed>> /\ At(ActionSlot, "answered")
      /\ Forget(ActionSlot) /\ ActionSlot \in Calls
      /\ rows' = IF d # Failed /\ Listed(d) THEN [rows EXCEPT ![d] = status] ELSE rows
      /\ rows \in [Convs -> RowStates]
  BY DEF ActionAnswered, connection, history, TypeInv, InboxTyped, ListTyped
<1>2. /\ \A c \in Convs : CallsRest(c)
      /\ \A c \in Convs : conv'[c] = conv[c]
  BY <1>1, ForgottenCalls DEF data
<1>3. d # Failed => d = call[ActionSlot].conv /\ d \in Convs /\ Answering(d)
  BY <1>1 DEF TypeInv, InboxTyped, SlotsOK, SlotOK, At, Answering
<1> HIDE DEF d, status
<1>4. ASSUME NEW c \in Convs, RowOK(c), Heard(c)
      PROVE  Heard(c)'
  <2>1. CASE rows'[c] = rows[c]
    BY <1>1, <1>2, <1>4, <2>1, SameWire DEF Listed
  <2>2. CASE rows'[c] # rows[c]
    <3>1. c = d /\ d # Failed /\ rows'[c] = status
      BY <1>1, <2>2
    <3>2. status = conv[c].status
      BY <1>3, <1>4, <3>1 DEF RowOK, status
    <3>3. QED
      BY <1>1, <1>2, <1>4, <3>1, <3>2 DEF Heard, Update
  <2>3. QED
    BY <2>1, <2>2
<1>5. ASSUME NEW c \in Convs, c \notin crossed
      PROVE  RowOK(c)'
  BY <1>1, <1>2, <1>4, <1>5, RowStays DEF RowsInv
<1>6. QED
  BY <1>1, <1>2, <1>5, AnsweredExist DEF RowsInv

\* A page has the statuses of its reading; a row not yet held is set from it.
LEMMA ListKeepsRows ==
  ASSUME TypeInv, InboxNext, RowsInv, ListStep
  PROVE  RowsInv'
<1>1. /\ UNCHANGED <<store, wire, crossed>>
      /\ rows \in [Convs -> RowStates] /\ listing \in Listings
  BY DEF ListStep, AskList, ReadList, ShowList, ListFails, connection, history, TypeInv,
         InboxTyped, ListTyped
<1>2. \A c \in Convs : CallsRest(c) /\ conv'[c] = conv[c]
  BY <1>1, StoreCallsRest
<1>3. ASSUME NEW c \in Convs
      PROVE  /\ listing'.page[c] \in {listing.page[c], "absent", conv[c].status}
             /\ \/ rows'[c] = rows[c]
                \/ /\ ~Listed(c) /\ rows'[c] = listing.page[c]
  <2>1. CASE AskList \/ ListFails
    BY <1>1, <2>1 DEF AskList, ListFails, Listings, NoListing
  <2>2. CASE ReadList
    BY <1>1, <2>2 DEF ReadList
  <2>3. CASE ShowList
    BY <1>1, <2>3 DEF ShowList, NoListing
  <2>4. QED
    BY <2>1, <2>2, <2>3 DEF ListStep
<1>4. ASSUME NEW c \in Convs, RowOK(c), Heard(c)
      PROVE  Heard(c)'
  <2>1. CASE rows'[c] = rows[c]
    BY <1>1, <1>2, <1>4, <2>1, SameWire DEF Listed
  <2>2. CASE ~Listed(c) /\ rows'[c] = listing.page[c]
    BY <1>1, <1>2, <1>4, <2>2 DEF Heard, Update, RowOK, Listed
  <2>3. QED
    BY <1>3, <2>1, <2>2
<1>5. ASSUME NEW c \in Convs, c \notin crossed
      PROVE  RowOK(c)'
  BY <1>1, <1>2, <1>3, <1>4, <1>5, RowStays DEF RowsInv
<1>6. QED
  BY <1>1, <1>2, <1>5, AnsweredExist DEF RowsInv

\* The steps of threads, and the beginnings of calls.
LEMMA OthersKeepRows ==
  ASSUME TypeInv, InboxNext, RowsInv, UNCHANGED <<rows, listing, wire, crossed>>,
         \A c \in Convs : CallsRest(c) /\ conv'[c] = conv[c]
  PROVE  RowsInv'
<1>1. ASSUME NEW c \in Convs, c \notin crossed
      PROVE  RowOK(c)'
  BY <1>1, SameWire, RowStays DEF RowsInv, Listed
<1>2. QED
  BY <1>1, AnsweredExist DEF RowsInv

LEMMA NextKeepsRows ==
  ASSUME TypeInv, InboxNext, RowsInv
  PROVE  RowsInv'
<1>1. CASE \E k \in Calls : Server(k)
  BY <1>1, QuietKeepsRows, WriteKeepsRows, UnheardKeepsRows, AnnounceKeepsRows DEF Server
<1>2. CASE OnMessage \/ OnConversationUpdate \/ Disconnect \/ ActionAnswered \/ ListStep
  BY <1>2, DeliveryKeepsRows, DisconnectKeepsRows, AnswerKeepsRows, ListKeepsRows
<1>3. CASE \/ \E c \in Convs : Select(c)
           \/ ShowPage \/ LoadFails \/ LoadMore \/ ShowMore \/ LoadMoreFails
           \/ Connect \/ ReadPage \/ ReadMore
  <2>1. UNCHANGED <<store, rows, listing, wire, crossed>>
    BY <1>3 DEF Select, ShowPage, LoadFails, LoadMore, ShowMore, LoadMoreFails,
         Connect, ReadPage, ReadMore, list, connection, history
  <2>2. QED
    BY <2>1, StoreCallsRest, OthersKeepRows
<1>4. ASSUME NEW k \in Calls, At(k, "idle"), NEW pc, NEW u, NEW c, NEW arg, NEW http,
             Starts(k, pc, u, c, arg, http), UNCHANGED inbox
      PROVE  RowsInv'
  <2>1. \A d \in Convs : CallsRest(d) /\ conv'[d] = conv[d]
    BY <1>4, BegunCalls DEF Starts, data
  <2>2. QED
    BY <1>4, <2>1, OthersKeepRows DEF inbox, list, connection, history
<1>5. CASE Reply \/ ChangeStatus
  <2>1. UNCHANGED inbox
    BY <1>5 DEF Reply, ChangeStatus
  <2>2. QED
    BY <1>4, <1>5, <2>1, ReplyStarts, ChangeStatusStarts
<1>6. CASE ReplyAnswered
  <2>1. /\ UNCHANGED <<data, rows, listing, wire, crossed>> /\ ReplySlot \in Calls
        /\ At(ReplySlot, "answered") /\ Forget(ReplySlot)
    BY <1>6 DEF ReplyAnswered, list, connection
  <2>2. \A d \in Convs : CallsRest(d) /\ conv'[d] = conv[d]
    BY <2>1, ForgottenCalls DEF data
  <2>3. QED
    BY <2>1, <2>2, OthersKeepRows
<1>7. ASSUME NEW k \in StaffSlots, StaffCalls(k) \/ CustomerCalls(k), UNCHANGED inbox
      PROVE  RowsInv'
  <2>1. k \in Calls /\ StoreInv
    BY DEF TypeInv
  <2>2. QED
    BY <1>4, <1>7, <2>1, StaffCallsStart
<1>8. QED
  BY <1>1, <1>2, <1>3, <1>5, <1>6, <1>7 DEF InboxNext, Browser, ListStep

\* A row shows the status of its conversation, once nothing is on its way to it,
\* unless writes of it overlapped each other or a page, or an announcement met no
\* connection or never came, its write having been reported as failed
\* (useAgentInbox.ts runAction, onConversationUpdate, inboxRealtime.ts).
THEOREM RowsShowStatus == InboxSpec => []RowsCurrent
<1>1. InboxInit => RowsInv
  <2> SUFFICES ASSUME InboxInit
               PROVE  RowsInv
    OBVIOUS
  <2>1. /\ rows = [c \in Convs |-> "absent"] /\ listing.page = [c \in Convs |-> "absent"]
        /\ wire = <<>> /\ \A k \in Calls : call[k].pc = "idle"
    BY IdleCall DEF InboxInit, NoListing
  <2>2. DOMAIN wire = {} /\ ActionSlot \in Calls
    BY <2>1
  <2>3. \A c \in Convs : ~Listed(c) /\ listing.page[c] = "absent"
    BY <2>1 DEF Listed
  <2>4. \A c \in Convs : ~Answering(c) /\ \A k \in Calls : ~Announcing(k, c)
    BY <2>1, <2>2 DEF Answering, Announcing, At
  <2>5. QED
    BY <2>2, <2>3, <2>4 DEF RowsInv, RowOK, Heard
<1>2. TypeInv /\ RowsInv /\ [InboxNext]_everything => RowsInv'
  <2>1. RowsInv /\ UNCHANGED everything => RowsInv'
    BY DEF everything, inbox, list, connection, history, store, data, RowsInv, RowOK,
           Heard, Update, Announcing, Answering, At, Listed, Exists
  <2>2. QED
    BY <2>1, NextKeepsRows
<1>3. RowsInv => RowsCurrent
  <2> SUFFICES ASSUME RowsInv, NEW c \in Convs, Listed(c), RowSettled(c), c \notin crossed
               PROVE  rows[c] = conv[c].status
    BY DEF RowsCurrent
  <2>1. /\ \A k \in Calls : ~Announcing(k, c)
        /\ \A i \in DOMAIN wire : ~Update(i, c)
    BY DEF RowSettled, Announcing, Update, At, Sending
  <2>2. QED
    BY <2>1 DEF RowsInv, RowOK, Heard
<1>4. QED
  BY <1>1, <1>2, <1>3, Inductive, PTL DEF InboxSpec

----------------------------------------------------------------------------
(* ThreadComplete, step by step.                                           *)

\* The steps that move neither the effect nor loadMoreMessages: what is stored
\* is live, and what is live stays so.
LEMMA ThreadStays ==
  ASSUME TypeInv, ThreadInv,
         UNCHANGED <<selected, thread, walk, newer, gapless, reclicked, misled>>,
         gapless => link',
         thread # "error" => seen' = ToSet(shown'),
         Unbroken => \A i \in IdsOf(selected)' : i \in IdsOf(selected) \/ Live(i)',
         Unbroken => \A i \in IdsOf(selected) : Live(i) => Live(i)'
  PROVE  ThreadInv'
<1>1. /\ Unbroken' <=> Unbroken
      /\ Asked' <=> Asked
  BY DEF Unbroken, Asked
<1>2. \A i : (ToCome(i)' <=> ToCome(i)) /\ (InOrAfter(i, newer)' <=> InOrAfter(i, newer))
  BY DEF ToCome, InOrAfter
<1>3. Unbroken' => \A i \in IdsOf(selected)' : Live(i)' \/ ToCome(i)'
  BY <1>1, <1>2 DEF ThreadInv
<1>4. Unbroken' /\ Asked' /\ newer'.pc = "read" =>
        \A i \in IdsOf(selected)' : i > newer'.after => Live(i)' \/ InOrAfter(i, newer)'
  BY <1>1, <1>2 DEF ThreadInv
<1>5. /\ gapless' => link'
      /\ thread' # "error" => seen' = ToSet(shown')
      /\ thread' = "error" => walk'.pc = "none"
      /\ walk'.pc = "read" /\ walk'.more => walk'.got # {}
      /\ ~reclicked' /\ ~misled' /\ newer'.cursor # 0 => walk'.pc = "none"
      /\ ~reclicked' /\ ~misled' /\ Asked' =>
           newer'.conv = selected' /\ newer'.after = newer'.cursor /\ newer'.cursor # 0
  BY <1>1 DEF ThreadInv
<1>6. QED
  BY <1>3, <1>4, <1>5 DEF ThreadInv

SentOn ==
  /\ misreported \subseteq misreported'
  /\ \A j \in Calls : call[j].pc \in Stored =>
       call'[j].pc \in Stored /\ call'[j].conv = call[j].conv /\ call'[j].id = call[j].id

LEMMA LivesOn ==
  ASSUME selected' = selected, ToSet(shown) \subseteq ToSet(shown'), SentOn,
         \A n \in DOMAIN wire :
           wire[n].kind = "message" =>
             \/ wire[n].conv = selected => wire[n].id \in ToSet(shown')
             \/ \E p \in DOMAIN wire' : wire'[p] = wire[n],
         NEW i, Live(i)
  PROVE  Live(i)'
<1>1. CASE i \in ToSet(shown) \cup misreported
  BY <1>1 DEF Live, SentOn
<1>2. CASE \E k \in Calls : call[k].pc \in Stored /\ call[k].conv = selected /\ call[k].id = i
  BY <1>2 DEF Live, SentOn
<1>3. ASSUME NEW n \in DOMAIN wire, wire[n].kind = "message", wire[n].conv = selected,
             wire[n].id = i
      PROVE  Live(i)'
  BY <1>3 DEF Live
<1>4. QED
  BY <1>1, <1>2, <1>3 DEF Live

LEMMA OthersSendOn ==
  ASSUME NEW k \in Calls, call[k].pc \notin Stored, \A j \in Calls \ {k} : call'[j] = call[j],
         misreported \subseteq misreported'
  PROVE  SentOn
BY DEF SentOn

LEMMA MisreportsGrow ==
  ASSUME NEW k, Operation(k)
  PROVE  misreported \subseteq misreported'
BY DEF Operation, Find, Create, FindAgain, RefuseSend, AdmitSend, Insert, InsertFails,
       InsertReplyLost, Touch, TouchFails, Publish, SetStatus, SetStatusReplyLost,
       AnnounceStatus, data

\* A send past its insertion remains one until it publishes.
LEMMA OperationSendsOn ==
  ASSUME TypeInv, NEW k \in Calls, Operation(k), ~Publish(k)
  PROVE  SentOn
<1>1. \A j \in Calls \ {k} : call'[j] = call[j]
  BY OperationGrows DEF TypeInv
<1>5. misreported \subseteq misreported'
  BY MisreportsGrow
<1>2. CASE call[k].pc \notin Stored
  BY <1>1, <1>2, <1>5, OthersSendOn
<1>3. CASE call[k].pc \in Stored
  <2>1. Typed /\ Goes(k, "publish") /\ "publish" \in Pcs
    BY <1>3 DEF TypeInv, StoreInv, Pcs, Operation, Find, Create, FindAgain, RefuseSend,
         AdmitSend, Insert, InsertFails, InsertReplyLost, Touch, TouchFails, Publish,
         SetStatus, SetStatusReplyLost, AnnounceStatus, At, Stored
  <2>2. /\ call'[k].pc = "publish" /\ call'[k].conv = call[k].conv
        /\ call'[k].id = call[k].id
    BY <2>1, GoesMoves
  <2>3. QED
    BY <1>1, <1>5, <2>2 DEF SentOn, Stored
<1>4. QED
  BY <1>2, <1>3

\* Steps that send nothing on and store nothing.
LEMMA RestKeepsThread ==
  ASSUME TypeInv, ThreadInv, UNCHANGED <<view, gapless, reclicked, misled, messages>>,
         gapless => link', SentOn,
         \A n \in DOMAIN wire :
           wire[n].kind = "message" => \E p \in DOMAIN wire' : wire'[p] = wire[n]
  PROVE  ThreadInv'
<1>1. /\ UNCHANGED <<selected, thread, shown, seen, walk, newer>>
  BY DEF view
<1>2. \A i : Live(i) => Live(i)'
  BY <1>1, LivesOn
<1>3. IdsOf(selected)' = IdsOf(selected)
  BY <1>1 DEF IdsOf, MessagesOf
<1>4. thread # "error" => seen' = ToSet(shown')
  BY <1>1 DEF ThreadInv
<1>5. QED
  BY <1>1, <1>2, <1>3, <1>4, ThreadStays

\* What is stored is on its way, unless its insertion is reported as failed.
LEMMA InsertKeepsThread ==
  ASSUME TypeInv, ThreadInv, NEW k \in Calls, Insert(k) \/ InsertReplyLost(k), QuietStep(k)
  PROVE  ThreadInv'
<1>1. Typed /\ "touch" \in Pcs /\ Operation(k) /\ ~Publish(k)
  BY DEF TypeInv, StoreInv, Pcs, Insert, InsertReplyLost, Operation, Publish, At
<1>2. \/ /\ call'[k].pc = "touch" /\ call'[k].conv = call[k].conv
         /\ call'[k].id = call[k].id
      \/ call[k].id \in misreported'
  BY <1>1, GoesMoves DEF Insert, InsertReplyLost
<1>3. UNCHANGED <<selected, thread, shown, seen, walk, newer, gapless, reclicked, misled,
                  link, wire>>
  BY DEF QuietStep, view, connection
<1>4. \A i : Live(i) => Live(i)'
  BY <1>1, <1>3, OperationSendsOn, LivesOn
<1>5. ASSUME NEW i \in IdsOf(selected)'
      PROVE  i \in IdsOf(selected) \/ Live(i)'
  <2>1. PICK m \in messages' : m.conv = selected /\ m.id = i
    BY <1>3, <1>5 DEF IdsOf, MessagesOf
  <2>2. CASE m \in messages
    BY <2>1, <2>2 DEF IdsOf, MessagesOf
  <2>3. CASE m = Document(k)
    <3>1. call[k].conv = selected /\ call[k].id = i
      BY <2>1, <2>3 DEF Document
    <3>2. QED
      BY <1>2, <1>3, <3>1 DEF Live, Stored
  <2>4. QED
    BY <2>1, <2>2, <2>3 DEF Insert, InsertReplyLost
<1>6. thread # "error" => seen' = ToSet(shown')
  BY <1>3 DEF ThreadInv
<1>7. gapless => link'
  BY <1>3 DEF ThreadInv
<1>8. QED
  BY <1>3, <1>4, <1>5, <1>6, <1>7, ThreadStays

\* A message is broadcast before its send is forgotten.
LEMMA PublishKeepsThread ==
  ASSUME TypeInv, ThreadInv, NEW k \in Calls, PublishMessage(k)
  PROVE  ThreadInv'
<1>1. /\ Operation(k) /\ At(k, "publish")
      /\ UNCHANGED <<selected, thread, shown, seen, walk, newer, gapless, reclicked, misled,
                     link, messages, misreported>>
  BY DEF PublishMessage, Publish, Operation, view, history
<1>2. \A j \in Calls \ {k} : call'[j] = call[j]
  BY <1>1, OperationGrows DEF TypeInv
<1>3. /\ call[k].conv \in Convs /\ call[k].id \in 0..MaxMessages
      /\ Emit("message", call[k].conv, call[k].id, "none")
  BY PublishedEvent
<1> DEFINE e == [kind |-> "message", conv |-> call[k].conv, id |-> call[k].id,
                 status |-> "none"]
<1>4. /\ e.kind = "message" /\ e.conv = call[k].conv /\ e.id = call[k].id
      /\ wire \in Seq(Events)
  BY DEF TypeInv, InboxTyped, EventsOK
<1> HIDE DEF e
<1>5. link => /\ Len(wire) + 1 \in DOMAIN wire' /\ wire'[Len(wire) + 1] = e
              /\ \A i \in DOMAIN wire : i \in DOMAIN wire' /\ wire'[i] = wire[i]
  <2>1. link => /\ wire'[Len(wire) + 1] = e /\ Len(wire) \in Nat
                /\ DOMAIN wire' = 1..(Len(wire) + 1)
                /\ \A i \in DOMAIN wire : i \in DOMAIN wire' /\ wire'[i] = wire[i]
    BY <1>3, <1>4, Emitted DEF e
  <2>2. QED
    BY <2>1
<1>6. ASSUME link, NEW i, Live(i)
      PROVE  Live(i)'
  <2>1. CASE i \in ToSet(shown) \cup misreported
    BY <1>1, <2>1 DEF Live
  <2>2. ASSUME NEW j \in Calls, call[j].pc \in Stored, call[j].conv = selected, call[j].id = i
        PROVE  Live(i)'
    <3>1. CASE j = k
      BY <1>1, <1>4, <1>5, <1>6, <2>2, <3>1 DEF Live
    <3>2. CASE j # k
      BY <1>1, <1>2, <2>2, <3>2 DEF Live
    <3>3. QED
      BY <3>1, <3>2
  <2>3. ASSUME NEW n \in DOMAIN wire, wire[n].kind = "message", wire[n].conv = selected,
               wire[n].id = i
        PROVE  Live(i)'
    BY <1>1, <1>5, <1>6, <2>3 DEF Live
  <2>4. QED
    BY <1>6, <2>1, <2>2, <2>3 DEF Live
<1>7. IdsOf(selected)' = IdsOf(selected)
  BY <1>1 DEF IdsOf, MessagesOf
<1>8. /\ thread # "error" => seen' = ToSet(shown')
      /\ gapless => link' /\ link
  BY <1>1 DEF ThreadInv
<1>9. QED
  BY <1>1, <1>6, <1>7, <1>8, ThreadStays DEF Unbroken

LEMMA ServerKeepsThread ==
  ASSUME TypeInv, ThreadInv, NEW k \in Calls, Server(k)
  PROVE  ThreadInv'
<1>1. CASE PublishMessage(k)
  BY <1>1, PublishKeepsThread
<1>2. CASE QuietStep(k) /\ (Insert(k) \/ InsertReplyLost(k))
  BY <1>2, InsertKeepsThread
<1>3. CASE \/ QuietStep(k) /\ ~Insert(k) /\ ~InsertReplyLost(k)
           \/ WriteStatus(k) \/ WriteStatusUnheard(k)
  <2>1. Operation(k) /\ ~Publish(k)
    BY <1>3 DEF QuietStep, WriteStatus, WriteStatusUnheard, Operation, Find, Create,
         FindAgain, RefuseSend, SendStep, AdmitSend, Insert, Touch, TouchFails, InsertFails,
         SetStatus, SetStatusReplyLost, Publish, At
  <2>2. UNCHANGED <<view, gapless, reclicked, misled, messages, link, wire>>
    BY <1>3 DEF QuietStep, WriteStatus, WriteStatusUnheard, Find, Create, FindAgain,
         RefuseSend, SendStep, AdmitSend, Touch, TouchFails, InsertFails, SetStatus,
         SetStatusReplyLost, data, connection
  <2>3. gapless => link'
    BY <2>2 DEF ThreadInv
  <2>4. QED
    BY <2>1, <2>2, <2>3, OperationSendsOn, RestKeepsThread
<1>4. CASE AnnounceUpdate(k)
  <2>1. Operation(k) /\ ~Publish(k)
    BY <1>4 DEF AnnounceUpdate, AnnounceStatus, Operation, Publish, At
  <2>2. UNCHANGED <<view, gapless, reclicked, misled, messages, link>>
    BY <1>4 DEF AnnounceUpdate, AnnounceStatus, data
  <2>3. gapless => link'
    BY <2>2 DEF ThreadInv
  <2>4. /\ call[k].conv \in Convs /\ call[k].arg \in {"open", "closed"}
        /\ Emit("updated", call[k].conv, 0, call[k].arg) /\ 0 \in 0..MaxMessages
        /\ wire \in Seq(Events) /\ link \in BOOLEAN
    BY <1>4, AnnouncedEvent DEF TypeInv, InboxTyped, EventsOK
  <2> DEFINE e == [kind |-> "updated", conv |-> call[k].conv, id |-> 0,
                   status |-> call[k].arg]
  <2>5. /\ ~link => wire' = wire
        /\ link => \A i \in DOMAIN wire : i \in DOMAIN wire' /\ wire'[i] = wire[i]
    BY <2>4, Emitted DEF e
  <2>6. \A n \in DOMAIN wire :
          wire[n].kind = "message" => \E p \in DOMAIN wire' : wire'[p] = wire[n]
    BY <2>4, <2>5
  <2>7. QED
    BY <2>1, <2>2, <2>3, <2>6, OperationSendsOn, RestKeepsThread
<1>5. QED
  BY <1>1, <1>2, <1>3, <1>4 DEF Server

\* The beginnings and ends of calls that leave the thread alone.
LEMMA CallsKeepThread ==
  ASSUME TypeInv, ThreadInv, UNCHANGED <<view, gapless, reclicked, misled, messages, link, wire>>,
         misreported' = misreported,
         NEW k \in Calls, call[k].pc \notin Stored, \A j \in Calls \ {k} : call'[j] = call[j]
  PROVE  ThreadInv'
<1>1. gapless => link'
  BY DEF ThreadInv
<1>2. QED
  BY <1>1, OthersSendOn, RestKeepsThread

\* The steps on the list, a new connection, and an update that is delivered.
LEMMA AsideKeepsThread ==
  ASSUME TypeInv, ThreadInv, ListStep \/ Connect \/ OnConversationUpdate
  PROVE  ThreadInv'
<1>1. /\ UNCHANGED <<view, gapless, reclicked, misled, messages, misreported, call>>
      /\ gapless => link'
  BY DEF ListStep, AskList, ReadList, ShowList, ListFails, Connect, OnConversationUpdate,
         store, data, connection, history, ThreadInv
<1>2. SentOn
  BY <1>1 DEF SentOn
<1>3. \A n \in DOMAIN wire :
        wire[n].kind = "message" => \E p \in DOMAIN wire' : wire'[p] = wire[n]
  <2>1. CASE ListStep \/ Connect
    BY <2>1 DEF ListStep, AskList, ReadList, ShowList, ListFails, Connect, connection
  <2>2. CASE OnConversationUpdate
    <3>1. Delivers("updated") /\ wire \in Seq(Events)
      BY <2>2 DEF OnConversationUpdate, TypeInv, InboxTyped, EventsOK
    <3>2. /\ wire[1].kind = "updated" /\ Len(wire) \in Nat \ {0}
          /\ DOMAIN wire = 1..Len(wire) /\ DOMAIN wire' = 1..(Len(wire) - 1)
          /\ \A i \in DOMAIN wire' : i + 1 \in DOMAIN wire /\ wire'[i] = wire[i + 1]
      BY <3>1, Delivered
    <3>3. ASSUME NEW n \in DOMAIN wire, wire[n].kind = "message"
          PROVE  \E p \in DOMAIN wire' : wire'[p] = wire[n]
      <4>1. n # 1
        BY <3>2, <3>3
      <4>2. n - 1 \in DOMAIN wire' /\ (n - 1) + 1 = n
        BY <3>2, <3>3, <4>1
      <4>3. QED
        BY <3>2, <4>2
    <3>4. QED
      BY <3>3
  <2>3. QED
    BY <2>1, <2>2
<1>4. QED
  BY <1>1, <1>2, <1>3, RestKeepsThread

\* A message of the thread that is delivered is shown.
LEMMA DeliveryKeepsThread ==
  ASSUME TypeInv, ThreadInv, OnMessage
  PROVE  ThreadInv'
<1>1. /\ UNCHANGED <<selected, thread, walk, newer, gapless, reclicked, misled, messages,
                     misreported, call, link>>
      /\ Delivers("message")
      /\ wire \in Seq(Events) /\ \A i \in DOMAIN wire : EventOK(wire[i])
  BY DEF OnMessage, store, data, history, TypeInv, InboxTyped, EventsOK
<1>2. /\ wire[1].kind = "message" /\ Len(wire) \in Nat \ {0} /\ 1 \in DOMAIN wire
      /\ DOMAIN wire = 1..Len(wire) /\ DOMAIN wire' = 1..(Len(wire) - 1)
      /\ \A i \in DOMAIN wire' : i + 1 \in DOMAIN wire /\ wire'[i] = wire[i + 1]
      /\ Head(wire) = wire[1]
  BY <1>1, Delivered
<1>3. wire[1].id \in Ids
  BY <1>1, <1>2, GotTyped DEF EventOK
<1>4. /\ wire[1].conv # selected => UNCHANGED <<shown, seen>>
      /\ wire[1].conv = selected => AppendMessages({wire[1].id})
  BY <1>2 DEF OnMessage
<1>5. /\ ToSet(shown) \subseteq ToSet(shown')
      /\ thread # "error" =>
           seen' = ToSet(shown') /\ (wire[1].conv = selected => wire[1].id \in ToSet(shown'))
  <2>1. CASE wire[1].conv = selected
    <3>1. /\ ToSet(shown') = ToSet(shown) \cup ({wire[1].id} \ seen)
          /\ seen' = seen \cup {wire[1].id}
      BY <1>3, <1>4, <2>1, Appends
    <3>2. QED
      BY <3>1 DEF ThreadInv
  <2>2. CASE wire[1].conv # selected
    BY <1>4, <2>2 DEF ThreadInv
  <2>3. QED
    BY <2>1, <2>2
<1>6. ASSUME thread # "error", NEW i, Live(i)
      PROVE  Live(i)'
  <2>1. SentOn
    BY <1>1 DEF SentOn
  <2>2. ASSUME NEW n \in DOMAIN wire
        PROVE  \/ wire[n].conv = selected => wire[n].id \in ToSet(shown')
               \/ \E p \in DOMAIN wire' : wire'[p] = wire[n]
    <3>1. CASE n = 1
      BY <1>5, <1>6, <3>1
    <3>2. CASE n # 1
      <4>1. n - 1 \in DOMAIN wire' /\ (n - 1) + 1 = n
        BY <1>2, <3>2
      <4>2. QED
        BY <1>2, <4>1
    <3>3. QED
      BY <3>1, <3>2
  <2>3. QED
    BY <1>1, <1>5, <1>6, <2>1, <2>2, LivesOn
<1>7. IdsOf(selected)' = IdsOf(selected)
  BY <1>1 DEF IdsOf, MessagesOf
<1>8. gapless => link'
  BY <1>1 DEF ThreadInv
<1>9. QED
  BY <1>1, <1>5, <1>6, <1>7, <1>8, ThreadStays DEF Unbroken

\* The answer of a reply is appended, whatever is shown.
LEMMA ReplyKeepsThread ==
  ASSUME TypeInv, ThreadInv, ReplyAnswered
  PROVE  ThreadInv'
<1> DEFINE i == call[ReplySlot].answer
<1>1. /\ UNCHANGED <<selected, thread, walk, newer, gapless, reclicked, misled, messages,
                     misreported, link, wire>>
      /\ At(ReplySlot, "answered") /\ Forget(ReplySlot) /\ ReplySlot \in Calls /\ Typed
      /\ \/ UNCHANGED <<shown, seen>>
         \/ i # Failed /\ AppendMessages({i})
  BY DEF ReplyAnswered, data, connection, TypeInv, StoreInv
<1>2. i # Failed => i \in Ids
  <2>1. i # Failed => i \in IdsOf(call[ReplySlot].conv)
    BY <1>1 DEF TypeInv, InboxTyped, SlotsOK, SlotOK, At
  <2>2. QED
    BY <2>1, GotTyped
<1>3. /\ ToSet(shown) \subseteq ToSet(shown')
      /\ thread # "error" => seen' = ToSet(shown')
  <2>1. CASE UNCHANGED <<shown, seen>>
    BY <2>1 DEF ThreadInv
  <2>2. CASE i # Failed /\ AppendMessages({i})
    <3>1. {i} \in SUBSET Ids
      BY <1>2, <2>2
    <3> HIDE DEF i
    <3>2. ToSet(shown') = ToSet(shown) \cup ({i} \ seen) /\ seen' = seen \cup {i}
      BY <2>2, <3>1, Appends
    <3>3. QED
      BY <3>2 DEF ThreadInv
  <2>3. QED
    BY <1>1, <2>1, <2>2
<1>4. SentOn
  BY <1>1 DEF SentOn, Forget, Typed, At, Stored
<1>5. ASSUME NEW m, Live(m)
      PROVE  Live(m)'
  <2>1. \A n \in DOMAIN wire : \E p \in DOMAIN wire' : wire'[p] = wire[n]
    BY <1>1
  <2>2. QED
    BY <1>1, <1>3, <1>4, <1>5, <2>1, LivesOn
<1>6. IdsOf(selected)' = IdsOf(selected)
  BY <1>1 DEF IdsOf, MessagesOf
<1>7. gapless => link'
  BY <1>1 DEF ThreadInv
<1>8. QED
  BY <1>1, <1>3, <1>5, <1>6, <1>7, ThreadStays

\* What was live is live when the list has grown.
LEMMA LiveStill ==
  ASSUME UNCHANGED <<call, misreported, wire, selected>>, ToSet(shown) \subseteq ToSet(shown'),
         NEW i, Live(i)
  PROVE  Live(i)'
BY DEF Live

\* A page holds the next of the messages, and says whether there are more.
LEMMA PageHolds ==
  ASSUME TypeInv, NEW c, NEW after \in 0..MaxMessages, NEW page, NEW more,
         page = Oldest(IdsAfter(c, after), PageSize), more = (page # IdsAfter(c, after))
  PROVE  /\ more => page # {}
         /\ \A i \in IdsOf(c) : i > after => i \in page \/ (more /\ i > Max(page \cup {after}))
<1> DEFINE later == IdsAfter(c, after)
<1>1. later \in SUBSET Ids /\ PageSize \in Nat \ {0}
  BY PageRead
<1>2. \A i \in IdsOf(c) : i > after => i \in later
  BY DEF IdsOf, MessagesOf, IdsAfter
<1>3. page = Oldest(later, PageSize) /\ more = (page # later)
  OBVIOUS
<1>4. \A i \in later : i > after
  BY DEF IdsAfter
<1> HIDE DEF later
<1>5. /\ page \subseteq later /\ (later # {} => page # {})
      /\ \A i \in later \ page, j \in page : j < i
  BY <1>1, <1>3, PageOfThread
<1>6. page \in SUBSET Ids
  BY <1>1, <1>5
<1>7. Max(page \cup {after}) \in page \cup {after}
  BY <1>6, CursorTyped
<1>8. ASSUME NEW i \in later \ page
      PROVE  i > Max(page \cup {after})
  <2>1. CASE Max(page \cup {after}) \in page
    BY <1>1, <1>5, <1>6, <1>8, <2>1 DEF Ids
  <2>2. CASE Max(page \cup {after}) = after
    BY <1>4, <1>8, <2>2
  <2>3. QED
    BY <1>7, <2>1, <2>2
<1>9. more => page # {}
  BY <1>3, <1>5
<1>10. ASSUME NEW i \in IdsOf(c), i > after
       PROVE  i \in page \/ (more /\ i > Max(page \cup {after}))
  BY <1>2, <1>3, <1>8, <1>10
<1>11. QED
  BY <1>9, <1>10

LEMMA SelectKeepsThread ==
  ASSUME TypeInv, ThreadInv, NEW c \in Convs, Select(c)
  PROVE  ThreadInv'
<1>1. /\ thread' = "loading" /\ shown' = <<>> /\ seen' = {} /\ selected' = c
      /\ link' = link /\ misled' = FALSE /\ UNCHANGED <<messages, call, wire>>
      /\ c = selected => reclicked' = TRUE /\ gapless' = gapless
      /\ c # selected => reclicked' = FALSE /\ gapless' = link
  BY DEF Select, ForgetThread, store, data, connection
<1>2. /\ c = selected => walk' = walk
      /\ c # selected => walk'.pc = "page" /\ walk'.after = 0
      /\ newer'.cursor = 0 /\ newer'.fresh = FALSE
  BY SelectMoves
<1>3. ToSet(shown') = {} /\ DOMAIN <<>> = {}
  BY <1>1 DEF ToSet
<1>4. ~Asked'
  BY <1>2 DEF Asked
<1>5. Unbroken' => \A i \in IdsOf(selected)' : ToCome(i)'
  <2> SUFFICES ASSUME Unbroken', NEW i \in IdsOf(selected)'
               PROVE  ToCome(i)'
    OBVIOUS
  <2>1. c # selected
    BY <1>1 DEF Unbroken
  <2>2. i \in Ids
    <3>1. IdsOf(selected)' = IdsOf(c)
      BY <1>1 DEF IdsOf, MessagesOf
    <3>2. QED
      BY <3>1, GotTyped
  <2>3. i > 0
    BY <2>2 DEF Ids
  <2>4. QED
    BY <1>2, <2>1, <2>3 DEF ToCome
<1>6. /\ gapless' => link'
      /\ walk'.pc = "read" /\ walk'.more => walk'.got # {}
  BY <1>1, <1>2 DEF ThreadInv
<1>7. QED
  BY <1>1, <1>2, <1>3, <1>4, <1>5, <1>6 DEF ThreadInv

LEMMA ReadPageKeepsThread ==
  ASSUME TypeInv, ThreadInv, ReadPage
  PROVE  ThreadInv'
<1>1. /\ UNCHANGED <<selected, thread, shown, seen, newer, link, wire, call, messages,
                     misreported, gapless, reclicked, misled>>
      /\ walk.pc = "page" /\ walk.after \in 0..MaxMessages
  BY DEF ReadPage, store, data, connection, history, TypeInv, InboxTyped, ViewTyped, Walks
<1>2. /\ walk'.pc = "read" /\ walk'.after = walk.after
      /\ walk'.got = Oldest(IdsAfter(selected, walk.after), PageSize)
      /\ walk'.more = (walk'.got # IdsAfter(selected, walk.after))
  BY ReadPageMoves
<1>3. /\ walk'.more => walk'.got # {}
      /\ \A i \in IdsOf(selected) : i > walk.after =>
           i \in walk'.got \/ (walk'.more /\ i > Max(walk'.got \cup {walk.after}))
  BY <1>1, <1>2, PageHolds
<1>4. \A i : Live(i) => Live(i)'
  BY <1>1, LiveStill
<1>5. IdsOf(selected)' = IdsOf(selected)
  BY <1>1 DEF IdsOf, MessagesOf
<1>6. /\ Unbroken' <=> Unbroken
      /\ Asked' <=> Asked
      /\ \A i : InOrAfter(i, newer)' <=> InOrAfter(i, newer)
  BY <1>1 DEF Unbroken, Asked, InOrAfter
<1>7. ASSUME Unbroken, NEW i \in IdsOf(selected)
      PROVE  Live(i)' \/ ToCome(i)'
  <2>1. CASE Live(i)
    BY <1>4, <2>1
  <2>2. CASE ToCome(i)
    <3>1. i > walk.after
      BY <1>1, <2>2 DEF ToCome
    <3>2. i \in walk'.got \/ (walk'.more /\ i > Max(walk'.got \cup {walk'.after}))
      BY <1>2, <1>3, <3>1
    <3>3. QED
      BY <1>2, <3>2 DEF ToCome, InOrAfter
  <2>3. QED
    BY <1>7, <2>1, <2>2 DEF ThreadInv
<1>8. /\ gapless' => link'
      /\ thread' # "error" => seen' = ToSet(shown')
      /\ thread' # "error"
      /\ walk'.pc = "read" /\ walk'.more => walk'.got # {}
      /\ ~(~reclicked' /\ ~misled' /\ newer'.cursor # 0)
      /\ ~reclicked' /\ ~misled' /\ Asked' =>
           newer'.conv = selected' /\ newer'.after = newer'.cursor /\ newer'.cursor # 0
  BY <1>1, <1>3, <1>6 DEF ThreadInv
<1>9. Unbroken' /\ Asked' /\ newer'.pc = "read" =>
        \A i \in IdsOf(selected)' : i > newer'.after => Live(i)' \/ InOrAfter(i, newer)'
  BY <1>1, <1>4, <1>5, <1>6 DEF ThreadInv
<1>10. Unbroken' => \A i \in IdsOf(selected)' : Live(i)' \/ ToCome(i)'
  BY <1>5, <1>6, <1>7
<1>11. QED
  BY <1>8, <1>9, <1>10 DEF ThreadInv

LEMMA ShowPageKeepsThread ==
  ASSUME TypeInv, ThreadInv, ShowPage
  PROVE  ThreadInv'
<1> DEFINE cursor == Max(walk.got \cup {walk.after})
<1>1. /\ UNCHANGED <<selected, link, wire, call, messages, misreported, gapless, reclicked,
                     misled>>
      /\ walk.pc = "read" /\ AppendMessages(walk.got)
      /\ thread' \in {"ready", thread} /\ thread # "error"
  BY DEF ShowPage, store, data, connection, history, ThreadInv
<1>2. PICK goOn \in BOOLEAN :
        /\ cursor \in 0..MaxMessages /\ \A i \in walk.got \cup {walk.after} : i <= cursor
        /\ goOn => /\ walk'.pc = "page" /\ walk'.after = cursor
                   /\ newer' = newer /\ walk.more
        /\ ~goOn => /\ walk'.pc = "none"
                    /\ newer'.cursor = IF walk.more THEN cursor ELSE 0
                    /\ newer'.pc = newer.pc /\ newer'.fresh = newer.fresh
  BY ShowPageMoves
<1> HIDE DEF cursor
<1>3. walk.got \in SUBSET Ids
  BY GotTyped
<1>4. /\ ToSet(shown') = ToSet(shown) \cup (walk.got \ seen)
      /\ seen' = seen \cup walk.got /\ seen = ToSet(shown)
  BY <1>1, <1>3, Appends DEF ThreadInv
<1>5. \A i : Live(i) => Live(i)'
  BY <1>1, <1>4, LiveStill
<1>6. \A i \in walk.got : Live(i)'
  BY <1>4 DEF Live
<1>7. IdsOf(selected)' = IdsOf(selected)
  BY <1>1 DEF IdsOf, MessagesOf
<1>8. ~reclicked /\ ~misled => newer.cursor = 0 /\ ~Asked
  BY <1>1 DEF ThreadInv
<1>9. Asked' <=> Asked
  BY <1>2 DEF Asked
<1>10. ASSUME Unbroken, NEW i \in IdsOf(selected)
       PROVE  Live(i)' \/ ToCome(i)'
  <2>1. CASE Live(i)
    BY <1>5, <2>1
  <2>2. CASE ToCome(i) /\ i \notin walk.got
    <3>1. walk.more /\ i > cursor
      BY <1>1, <2>2 DEF ToCome, InOrAfter, cursor
    <3>2. PICK j \in walk.got : j \in Ids
      BY <1>1, <1>3, <3>1 DEF ThreadInv
    <3>3. cursor # 0
      BY <1>2, <3>2 DEF Ids
    <3>4. QED
      BY <1>2, <3>1, <3>3 DEF ToCome
  <2>3. QED
    BY <1>6, <1>10, <2>1, <2>2 DEF ThreadInv
<1>11. /\ gapless' => link'
       /\ thread' # "error" /\ seen' = ToSet(shown')
       /\ walk'.pc # "read"
       /\ ~reclicked' /\ ~misled' /\ newer'.cursor # 0 => walk'.pc = "none"
       /\ ~(~reclicked' /\ ~misled' /\ Asked')
  BY <1>1, <1>2, <1>4, <1>8, <1>9 DEF ThreadInv
<1>12. Unbroken' => Unbroken /\ ~Asked'
  BY <1>1, <1>8, <1>9 DEF Unbroken
<1>13. Unbroken' => \A i \in IdsOf(selected)' : Live(i)' \/ ToCome(i)'
  BY <1>7, <1>10, <1>12
<1>14. QED
  BY <1>11, <1>12, <1>13 DEF ThreadInv

\* An error, or a socket that breaks, ends what ThreadComplete says of the thread.
LEMMA BreakKeepsThread ==
  ASSUME TypeInv, ThreadInv, LoadFails \/ Disconnect
  PROVE  ThreadInv'
<1>1. CASE LoadFails
  <2>1. /\ UNCHANGED <<selected, newer, link, gapless, reclicked, misled>>
        /\ thread' = "error" /\ walk' = NoWalk
    BY <1>1 DEF LoadFails, connection, history
  <2>2. walk'.pc = "none"
    BY <2>1 DEF NoWalk
  <2>3. Asked' <=> Asked
    BY <2>1 DEF Asked
  <2>4. QED
    BY <2>1, <2>2, <2>3 DEF ThreadInv, Unbroken
<1>2. CASE Disconnect
  <2>1. /\ UNCHANGED <<selected, thread, shown, seen, walk, newer, reclicked, misled>>
        /\ gapless' = FALSE
    BY <1>2 DEF Disconnect, view
  <2>2. Asked' <=> Asked
    BY <2>1 DEF Asked
  <2>3. QED
    BY <2>1, <2>2 DEF ThreadInv, Unbroken
<1>3. QED
  BY <1>1, <1>2

LEMMA MoreKeepsThread ==
  ASSUME TypeInv, ThreadInv, LoadMore \/ ReadMore \/ LoadMoreFails
  PROVE  ThreadInv'
<1>1. UNCHANGED <<selected, thread, shown, seen, walk, link, wire, call, messages,
                  misreported, gapless, reclicked, misled>>
  BY DEF LoadMore, ReadMore, LoadMoreFails, store, data, connection, history
<1>2. /\ newer'.cursor = newer.cursor
      /\ LoadMore => /\ newer'.pc = "page" /\ newer'.conv = selected
                     /\ newer'.after = newer.cursor /\ newer.cursor # 0
      /\ LoadMoreFails => newer'.fresh = FALSE
  BY LoadMoreMoves, LoadMoreFailsMoves, ReadMoreMoves DEF LoadMore
<1>3. ReadMore => /\ newer.pc = "page" /\ newer'.pc = "read"
                  /\ newer'.after = newer.after /\ newer'.conv = newer.conv
                  /\ newer'.fresh = newer.fresh
                  /\ newer'.got = Oldest(IdsAfter(newer.conv, newer.after), PageSize)
                  /\ newer'.more = (newer'.got # IdsAfter(newer.conv, newer.after))
  BY ReadMoreMoves DEF ReadMore
<1>4. /\ \A i : Live(i) => Live(i)'
      /\ \A i : ToCome(i)' <=> ToCome(i)
      /\ IdsOf(selected)' = IdsOf(selected)
      /\ Unbroken' <=> Unbroken
  <2>1. \A i : Live(i) => Live(i)'
    BY <1>1, LiveStill
  <2>2. \A i : ToCome(i)' <=> ToCome(i)
    BY <1>1, <1>2 DEF ToCome, InOrAfter
  <2>3. IdsOf(selected)' = IdsOf(selected)
    BY <1>1 DEF IdsOf, MessagesOf
  <2>4. Unbroken' <=> Unbroken
    BY <1>1 DEF Unbroken
  <2>5. QED
    BY <2>1, <2>2, <2>3, <2>4
<1>5. /\ gapless' => link'
      /\ thread' # "error" => seen' = ToSet(shown')
      /\ thread' = "error" => walk'.pc = "none"
      /\ walk'.pc = "read" /\ walk'.more => walk'.got # {}
      /\ ~reclicked' /\ ~misled' /\ newer'.cursor # 0 => walk'.pc = "none"
  BY <1>1, <1>2 DEF ThreadInv
<1>6. ~reclicked' /\ ~misled' /\ Asked' =>
        newer'.conv = selected' /\ newer'.after = newer'.cursor /\ newer'.cursor # 0
  <2>1. CASE LoadMore
    BY <1>1, <1>2, <2>1
  <2>2. CASE LoadMoreFails
    BY <1>2, <2>2 DEF Asked
  <2>3. CASE ReadMore
    BY <1>1, <1>2, <1>3, <2>3 DEF ThreadInv, Asked
  <2>4. QED
    BY <2>1, <2>2, <2>3
<1>7. Unbroken' => \A i \in IdsOf(selected)' : Live(i)' \/ ToCome(i)'
  BY <1>4 DEF ThreadInv
<1>8. Unbroken' /\ Asked' /\ newer'.pc = "read" =>
        \A i \in IdsOf(selected)' : i > newer'.after => Live(i)' \/ InOrAfter(i, newer)'
  <2>1. CASE LoadMore \/ LoadMoreFails
    BY <1>2, <2>1 DEF Asked
  <2>2. CASE ReadMore
    <3>1. newer.after \in 0..MaxMessages
      BY DEF TypeInv, InboxTyped, ViewTyped, Newers
    <3>2. \A i \in IdsOf(newer.conv) : i > newer.after =>
            i \in newer'.got \/ (newer'.more /\ i > Max(newer'.got \cup {newer.after}))
      BY <1>3, <2>2, <3>1, PageHolds
    <3>3. Unbroken /\ Asked' => newer.conv = selected
      BY <1>3, <2>2 DEF ThreadInv, Asked, Unbroken
    <3>4. QED
      BY <1>3, <1>4, <2>2, <3>2, <3>3 DEF InOrAfter
  <2>3. QED
    BY <2>1, <2>2
<1>9. QED
  BY <1>5, <1>6, <1>7, <1>8 DEF ThreadInv

LEMMA ShowMoreKeepsThread ==
  ASSUME TypeInv, ThreadInv, ShowMore
  PROVE  ThreadInv'
<1> DEFINE cursor == Max(newer.got \cup {newer.after})
<1>1. /\ UNCHANGED <<selected, thread, walk, link, wire, call, messages, misreported, gapless,
                     reclicked>>
      /\ newer.pc = "read"
      /\ newer.conv # selected => UNCHANGED <<shown, seen, misled>>
      /\ newer.conv = selected =>
           AppendMessages(newer.got) /\ misled' = (misled \/ ~newer.fresh)
  BY DEF ShowMore, store, data, connection
<1>2. /\ newer'.pc = "none" /\ newer'.fresh = FALSE
      /\ newer.conv # selected => newer'.cursor = newer.cursor
      /\ newer.conv = selected => newer'.cursor = IF newer.more THEN cursor ELSE 0
  BY ShowMoreMoves
<1>3. newer.got \in SUBSET Ids /\ newer.after \in 0..MaxMessages
  BY GotTyped DEF TypeInv, InboxTyped, ViewTyped, Newers
<1>4. cursor \in 0..MaxMessages /\ \A i \in newer.got \cup {newer.after} : i <= cursor
  BY <1>3, CursorTyped
<1> HIDE DEF cursor
<1>5. /\ ToSet(shown) \subseteq ToSet(shown')
      /\ thread # "error" =>
           /\ seen' = ToSet(shown')
           /\ newer.conv = selected => newer.got \subseteq ToSet(shown')
  <2>1. CASE newer.conv = selected
    <3>1. /\ ToSet(shown') = ToSet(shown) \cup (newer.got \ seen)
          /\ seen' = seen \cup newer.got
      BY <1>1, <1>3, <2>1, Appends
    <3>2. QED
      BY <3>1 DEF ThreadInv
  <2>2. CASE newer.conv # selected
    BY <1>1, <2>2 DEF ThreadInv
  <2>3. QED
    BY <2>1, <2>2
<1>6. \A i : Live(i) => Live(i)'
  BY <1>1, <1>5, LiveStill
<1>7. IdsOf(selected)' = IdsOf(selected)
  BY <1>1 DEF IdsOf, MessagesOf
<1>8. ~Asked'
  BY <1>2 DEF Asked
<1>9. ~misled' => ~misled /\ (newer.conv = selected => Asked)
  BY <1>1 DEF Asked
<1>10. Unbroken' => Unbroken
  BY <1>1, <1>9 DEF Unbroken
<1>11. ASSUME Unbroken', NEW i \in IdsOf(selected)
       PROVE  Live(i)' \/ ToCome(i)'
  <2>1. CASE Live(i)
    BY <1>6, <2>1
  <2>2. CASE ToCome(i) /\ newer.conv # selected
    BY <1>1, <1>2, <2>2 DEF ToCome, InOrAfter
  <2>3. CASE ToCome(i) /\ ~Live(i) /\ newer.conv = selected
    <3>1. Asked /\ ~reclicked /\ ~misled /\ thread # "error"
      BY <1>9, <1>10, <1>11, <2>3 DEF Unbroken
    <3>2. newer.after = newer.cursor /\ newer.cursor # 0 /\ walk.pc = "none"
      BY <3>1 DEF ThreadInv
    <3>3. i > newer.after
      BY <2>3, <3>2 DEF ToCome
    <3>4. InOrAfter(i, newer)
      BY <1>1, <1>10, <1>11, <2>3, <3>1, <3>3 DEF ThreadInv
    <3>5. CASE i \in newer.got
      BY <1>5, <2>3, <3>1, <3>5 DEF Live
    <3>6. CASE newer.more /\ i > cursor
      <4>1. cursor # 0
        BY <1>3, <1>4, <3>2
      <4>2. QED
        BY <1>1, <1>2, <2>3, <3>2, <3>6, <4>1 DEF ToCome
    <3>7. QED
      BY <3>4, <3>5, <3>6 DEF InOrAfter, cursor
  <2>4. QED
    BY <1>10, <1>11, <2>1, <2>2, <2>3 DEF ThreadInv
<1>12. ~reclicked' /\ ~misled' /\ newer'.cursor # 0 => walk'.pc = "none"
  BY <1>1, <1>2, <1>9 DEF ThreadInv
<1>13. /\ gapless' => link'
       /\ thread' # "error" => seen' = ToSet(shown')
       /\ thread' = "error" => walk'.pc = "none"
       /\ walk'.pc = "read" /\ walk'.more => walk'.got # {}
  BY <1>1, <1>5 DEF ThreadInv
<1>14. Unbroken' => \A i \in IdsOf(selected)' : Live(i)' \/ ToCome(i)'
  BY <1>7, <1>11
<1>15. QED
  BY <1>8, <1>12, <1>13, <1>14 DEF ThreadInv

LEMMA NextKeepsThread ==
  ASSUME TypeInv, ThreadInv, InboxNext
  PROVE  ThreadInv'
<1>1. CASE \E k \in Calls : Server(k)
  BY <1>1, ServerKeepsThread
<1>2. CASE ListStep \/ Connect \/ OnConversationUpdate \/ OnMessage \/ ReplyAnswered
  BY <1>2, AsideKeepsThread, DeliveryKeepsThread, ReplyKeepsThread
<1>3. CASE \E c \in Convs : Select(c)
  BY <1>3, SelectKeepsThread
<1>4. CASE ReadPage \/ ShowPage \/ LoadFails \/ Disconnect \/ LoadMore \/ ReadMore
             \/ ShowMore \/ LoadMoreFails
  BY <1>4, ReadPageKeepsThread, ShowPageKeepsThread, BreakKeepsThread, MoreKeepsThread,
     ShowMoreKeepsThread
<1>5. ASSUME NEW k \in Calls, At(k, "idle"), NEW pc, NEW u, NEW c, NEW arg, NEW http,
             Starts(k, pc, u, c, arg, http), UNCHANGED inbox
      PROVE  ThreadInv'
  <2>1. \A j \in Calls \ {k} : call'[j] = call[j]
    BY <1>5, StartsMoves DEF TypeInv, StoreInv
  <2>2. /\ UNCHANGED <<view, gapless, reclicked, misled, messages, misreported, link, wire>>
        /\ call[k].pc \notin Stored
    BY <1>5 DEF Starts, data, inbox, connection, history, At, Stored
  <2>3. QED
    BY <2>1, <2>2, CallsKeepThread
<1>6. CASE Reply \/ ChangeStatus
  <2>1. UNCHANGED inbox
    BY <1>6 DEF Reply, ChangeStatus
  <2>2. QED
    BY <1>5, <1>6, <2>1, ReplyStarts, ChangeStatusStarts
<1>7. CASE ActionAnswered
  <2>1. /\ UNCHANGED <<view, gapless, reclicked, misled, messages, misreported, link, wire>>
        /\ Forget(ActionSlot) /\ ActionSlot \in Calls /\ At(ActionSlot, "answered") /\ Typed
    BY <1>7 DEF ActionAnswered, data, connection, history, TypeInv, StoreInv
  <2>2. /\ call[ActionSlot].pc \notin Stored
        /\ \A j \in Calls \ {ActionSlot} : call'[j] = call[j]
    BY <2>1 DEF Forget, At, Stored, Typed
  <2>3. QED
    BY <2>1, <2>2, CallsKeepThread
<1>8. ASSUME NEW k \in StaffSlots, StaffCalls(k) \/ CustomerCalls(k), UNCHANGED inbox
      PROVE  ThreadInv'
  <2>1. k \in Calls /\ StoreInv
    BY DEF TypeInv
  <2>2. QED
    BY <1>5, <1>8, <2>1, StaffCallsStart
<1>9. QED
  BY <1>1, <1>2, <1>3, <1>4, <1>6, <1>7, <1>8 DEF InboxNext, Browser, ListStep

\* Pages and live events together show the whole thread, in whatever order they
\* come and however many pages there are, if the socket stayed up, the row was not
\* clicked again, and no page asked for on an earlier visit took the cursor; but for
\* messages whose insertion was reported as failed, which nobody hears of
\* (useAgentInbox.ts: the effect that loads the thread, loadMoreMessages, onMessage).
THEOREM ThreadsAreWhole == InboxSpec => []ThreadComplete
<1>1. InboxInit => ThreadInv
  <2> SUFFICES ASSUME InboxInit
               PROVE  ThreadInv
    OBVIOUS
  <2>1. /\ gapless = FALSE /\ seen = {} /\ shown = <<>> /\ thread = "idle"
        /\ walk.pc = "none" /\ newer.cursor = 0 /\ newer.pc = "none"
    BY DEF InboxInit, NoWalk, NoNewer
  <2>2. ToSet(shown) = {} /\ DOMAIN <<>> = {}
    BY <2>1 DEF ToSet
  <2>3. QED
    BY <2>1, <2>2 DEF ThreadInv, Unbroken, Asked
<1>2. TypeInv /\ ThreadInv /\ [InboxNext]_everything => ThreadInv'
  <2>1. ASSUME TypeInv, ThreadInv, UNCHANGED everything
        PROVE  ThreadInv'
    <3>1. /\ UNCHANGED <<view, gapless, reclicked, misled, messages, misreported, link,
                         wire, call>>
          /\ gapless => link'
      BY <2>1 DEF everything, inbox, connection, history, store, data, ThreadInv
    <3>2. SentOn
      BY <3>1 DEF SentOn
    <3>3. QED
      BY <2>1, <3>1, <3>2, RestKeepsThread
  <2>2. QED
    BY <2>1, NextKeepsThread
<1>3. TypeInv /\ ThreadInv => ThreadComplete
  <2> SUFFICES ASSUME TypeInv, ThreadInv, ThreadSettled, gapless, ~reclicked, ~misled,
                      NEW m \in MessagesOf(selected)
               PROVE  m.id \in ToSet(shown) \cup misreported
    BY DEF ThreadComplete
  <2>1. m.id \in IdsOf(selected) /\ Unbroken
    BY DEF IdsOf, ThreadSettled, Unbroken
  <2>2. ~ToCome(m.id)
    BY DEF ThreadSettled, ToCome
  <2>3. Live(m.id)
    BY <2>1, <2>2 DEF ThreadInv
  <2>4. QED
    BY <2>3 DEF Live, ThreadSettled, Stored, Sending, At
<1>4. QED
  BY <1>1, <1>2, <1>3, Inductive, PTL DEF InboxSpec
=============================================================================
