--------------------------- MODULE Conversations ---------------------------
(***************************************************************************)
(* The conversations and messages of one organization                      *)
(* (conversations/conversation.{service,repository,model}.ts,              *)
(* messages/message.{service,repository}.ts).                              *)
(*                                                                         *)
(* A call is one run of a service method, for a customer or for staff; an  *)
(* action of a call is one database operation with the code that follows   *)
(* it up to the next await:                                                *)
(*                                                                         *)
(*   resolveOpen   find -> create -> (duplicate key) find again            *)
(*   create        check -> insert -> touch -> publish                     *)
(*   setStatus     write -> announce                                       *)
(*                                                                         *)
(* Conversations are numbered as they are created and messages as their    *)
(* ids are drawn, which Mongoose does in the process before the insertion. *)
(* A date is the number of the newest message whose id had been drawn.     *)
(* Who calls, and what becomes of answers and publications, is left to the *)
(* modules that extend this one.                                           *)
(***************************************************************************)
EXTENDS Naturals, FiniteSets, FiniteSetsExt

CONSTANTS
  Customers, NoCustomer,
  Calls,        \* service calls that may be in flight at once
  Bodies,       \* what a message can say
  MaxConvs,     \* bound: conversations ever created
  MaxMessages,  \* bound: messages ever sent
  MaxChanges,   \* bound: closings and reopenings
  Faults        \* failures that may happen

\* A touch or an insertion fails; or an insertion, or the write of a status, is
\* applied and reported as failed, its reply being lost.
AllFaults == {"touchFails", "insertFails", "insertLost", "statusLost"}

ASSUME ConversationsAssumption ==
  /\ MaxConvs \in Nat /\ MaxMessages \in Nat /\ MaxChanges \in Nat
  /\ NoCustomer \notin Customers
  /\ Faults \subseteq AllFaults

VARIABLES
  conv,       \* the collection of conversations
  messages,   \* the collection of messages
  issued,     \* message ids drawn so far
  call,       \* the calls in flight
  changes,    \* how many closings and reopenings were written
  closedAt,   \* history: ids drawn when a closed conversation was closed
  untouched,  \* history: messages whose touch of lastMessageAt failed or
              \* never came
  overtaken,  \* history: messages a newer one was stored before they were
              \* published, if they ever were
  misreported \* history: messages stored by an insertion reported as failed

data == <<conv, messages, issued, changes, closedAt, untouched, overtaken, misreported>>

store == <<data, call>>

NoConv == 0

Convs == 1..MaxConvs

Ids == 1..MaxMessages

Absent == [status |-> "absent", customer |-> NoCustomer, lastAt |-> 0]

Documents == [status : {"absent", "open", "closed"},
              customer : Customers \cup {NoCustomer}, lastAt : 0..MaxMessages]

MessageDocs == [id : Ids, conv : Convs, body : Bodies]

Idle == [pc |-> "idle", customer |-> NoCustomer, conv |-> NoConv, id |-> 0,
         arg |-> "none", since |-> 0, http |-> FALSE, answer |-> 0]

At(k, pc) == call[k].pc = pc

Exists(c) == conv[c].status # "absent"

Open(c) == conv[c].status = "open"

OpenOf(u) == {c \in Convs : Open(c) /\ conv[c].customer = u}

MessagesOf(c) == {m \in messages : m.conv = c}

\* The way every list of messages is sorted: the n-th of a set of ids.
InOrder(ids) ==
  [n \in 1..Cardinality(ids) |->
     CHOOSE i \in ids : Cardinality({j \in ids : j < i}) = n - 1]

Newer(i) == \E m \in messages : m.id > i

\* The body of the message being sent by a call is its argument.
Sending(k) == At(k, "check") \/ At(k, "insert") \/ At(k, "touch") \/ At(k, "publish")

----------------------------------------------------------------------------
(* The life of a call.                                                     *)

\* A request reaches the service, its ids validated.  "http" says that
\* somebody waits for the answer in a response.
Begun(pc, u, c, arg, http) ==
  [pc |-> pc, customer |-> u, conv |-> c, id |-> 0, arg |-> arg,
   since |-> IF pc = "find" THEN changes ELSE 0, http |-> http, answer |-> 0]

Begin(k, pc, u, c, arg, http) ==
  call' = [call EXCEPT ![k] = Begun(pc, u, c, arg, http)]

Goes(k, pc) == call' = [call EXCEPT ![k].pc = pc]

\* What a method that throws answers.
Failed == 0

\* The method returns a number (a conversation's or a message's) or throws.
Ends(k, answer) ==
  call' = [call EXCEPT ![k] =
             IF @.http THEN [@ EXCEPT !.pc = "answered", !.answer = answer]
                              ELSE Idle]

\* The response has been received, or nobody is there to receive it.
Forget(k) == call' = [call EXCEPT ![k] = Idle]

----------------------------------------------------------------------------
(* resolveOpen.                                                            *)

Find(k) ==
  /\ At(k, "find")
  /\ LET found == OpenOf(call[k].customer)
     IN  IF found = {} THEN Goes(k, "create")
                       ELSE \E c \in found : Ends(k, c)
  /\ UNCHANGED data

\* The next conversation, with the defaults of its schema.
NextConv == Min({c \in Convs : ~Exists(c)})

\* Mutant: the partial index is not unique.
UniqueOpenIgnored(u) == TRUE

\* The partial unique index on { organization, customer, status: open }.
UniqueOpenAdmits(u) == OpenOf(u) = {}

Create(k) ==
  /\ At(k, "create")
  /\ IF UniqueOpenAdmits(call[k].customer)
     THEN /\ \E c \in Convs : ~Exists(c)
          /\ conv' = [conv EXCEPT ![NextConv] =
                        [status |-> "open", customer |-> call[k].customer,
                         lastAt |-> issued]]
          /\ Ends(k, NextConv)
     ELSE /\ Goes(k, "findAgain")
          /\ UNCHANGED conv
  /\ UNCHANGED <<messages, issued, changes, closedAt, untouched, overtaken, misreported>>

\* Mutant: the duplicate key is reported to the caller.
RethrowDuplicate(k) ==
  /\ At(k, "findAgain")
  /\ Ends(k, Failed)
  /\ UNCHANGED data

\* The race was lost: the winner's conversation, unless it is closed by now.
FindAgain(k) ==
  /\ At(k, "findAgain")
  /\ LET found == OpenOf(call[k].customer)
     IN  IF found = {} THEN Ends(k, Failed)
                       ELSE \E c \in found : Ends(k, c)
  /\ UNCHANGED data

----------------------------------------------------------------------------
(* create and createFromAgent of the message service.                      *)

\* Mutant: the conversation is required to exist, not to be open.
RequireConversation(c) == Exists(c)

RequireOpenConversation(c) == Open(c)

RefuseSend(k) ==
  /\ At(k, "check") /\ ~RequireOpenConversation(call[k].conv)
  /\ Ends(k, Failed)
  /\ UNCHANGED data

\* The conversation was read open; the document gets its id and is sent off.
AdmitSend(k) ==
  /\ At(k, "check") /\ RequireOpenConversation(call[k].conv)
  /\ issued < MaxMessages
  /\ issued' = issued + 1
  /\ call' = [call EXCEPT ![k].pc = "insert", ![k].id = issued + 1]
  /\ UNCHANGED <<conv, messages, changes, closedAt, untouched, overtaken, misreported>>

\* The document a send stores.
Document(k) == [id |-> call[k].id, conv |-> call[k].conv, body |-> call[k].arg]

Insert(k) ==
  /\ At(k, "insert")
  /\ messages' = messages \cup {Document(k)}
  /\ Goes(k, "touch")
  /\ UNCHANGED <<conv, issued, changes, closedAt, untouched, overtaken, misreported>>

InsertFails(k) ==
  /\ At(k, "insert") /\ "insertFails" \in Faults
  /\ Ends(k, Failed)
  /\ UNCHANGED data

\* messageRepository.create rejects although the document was stored: nothing
\* is touched or published.
InsertReplyLost(k) ==
  /\ At(k, "insert") /\ "insertLost" \in Faults
  /\ messages' = messages \cup {Document(k)}
  /\ untouched' = untouched \cup {call[k].id}
  /\ misreported' = misreported \cup {call[k].id}
  /\ Ends(k, Failed)
  /\ UNCHANGED <<conv, issued, changes, closedAt, overtaken>>

\* Mutant: only an open conversation is touched.
TouchOpenOnly(k) ==
  /\ At(k, "touch")
  /\ conv' = IF Open(call[k].conv) THEN [conv EXCEPT ![call[k].conv].lastAt = call[k].id]
                                   ELSE conv
  /\ Goes(k, "publish")
  /\ UNCHANGED <<messages, issued, changes, closedAt, untouched, overtaken, misreported>>

Touch(k) ==
  /\ At(k, "touch")
  /\ conv' = [conv EXCEPT ![call[k].conv].lastAt = call[k].id]
  /\ Goes(k, "publish")
  /\ UNCHANGED <<messages, issued, changes, closedAt, untouched, overtaken, misreported>>

\* A failed touch is logged and swallowed.
TouchFails(k) ==
  /\ At(k, "touch") /\ "touchFails" \in Faults
  /\ untouched' = untouched \cup {call[k].id}
  /\ Goes(k, "publish")
  /\ UNCHANGED <<conv, messages, issued, changes, closedAt, overtaken, misreported>>

\* messageEvents.publish, then the answer, in one turn.
Publish(k) ==
  /\ At(k, "publish")
  /\ overtaken' = IF Newer(call[k].id) THEN overtaken \cup {call[k].id} ELSE overtaken
  /\ Ends(k, call[k].id)
  /\ UNCHANGED <<conv, messages, issued, changes, closedAt, untouched, misreported>>

----------------------------------------------------------------------------
(* setStatus.                                                              *)

\* findOneAndUpdate sets the status whatever it was; the index may refuse to
\* reopen.
StatusRefused(k) ==
  /\ call[k].arg = "open" /\ ~Open(call[k].conv)
  /\ ~UniqueOpenAdmits(conv[call[k].conv].customer)

WriteStatusOf(k) ==
  LET c == call[k].conv
      status == call[k].arg
  IN  /\ conv' = [conv EXCEPT ![c].status = status]
      /\ changes' = changes + 1
      /\ closedAt' = [closedAt EXCEPT ![c] =
                        CASE status = "open" -> 0
                          [] status = "closed" /\ Open(c) -> issued
                          [] OTHER -> @]

\* The status as written is what will be announced and answered.
SetStatus(k) ==
  /\ At(k, "setStatus")
  /\ IF StatusRefused(k)
     THEN Ends(k, Failed) /\ UNCHANGED <<conv, changes, closedAt>>
     ELSE WriteStatusOf(k) /\ Goes(k, "announce")
  /\ UNCHANGED <<messages, issued, untouched, overtaken, misreported>>

\* Written, and reported as failed: nothing is announced.
SetStatusReplyLost(k) ==
  /\ At(k, "setStatus") /\ "statusLost" \in Faults /\ ~StatusRefused(k)
  /\ WriteStatusOf(k)
  /\ Ends(k, Failed)
  /\ UNCHANGED <<messages, issued, untouched, overtaken, misreported>>

\* conversationEvents.publish, then the answer.
AnnounceStatus(k) ==
  /\ At(k, "announce")
  /\ Ends(k, call[k].conv)
  /\ UNCHANGED data

----------------------------------------------------------------------------
(* The process.                                                            *)

\* The process dies with its calls: whoever waits for a response hears of it.
\* A message stored by then stays, undated or unpublished.
ProcessDies ==
  LET stored == {k \in Calls : At(k, "touch") \/ At(k, "publish")}
  IN  /\ call' = [k \in Calls |-> IF call[k].http
                     THEN [Idle EXCEPT !.pc = "answered", !.http = TRUE] ELSE Idle]
      /\ untouched' = untouched \cup {call[k].id : k \in {x \in stored : At(x, "touch")}}
      /\ overtaken' = overtaken \cup {call[k].id : k \in {x \in stored : Newer(call[x].id)}}
      /\ UNCHANGED <<conv, messages, issued, changes, closedAt, misreported>>

----------------------------------------------------------------------------
(* The specification, for the modules that say who calls.                  *)

StoreInit ==
  /\ conv = [c \in Convs |-> Absent]
  /\ messages = {}
  /\ issued = 0
  /\ changes = 0
  /\ closedAt = [c \in Convs |-> 0]
  /\ untouched = {}
  /\ overtaken = {}
  /\ misreported = {}
  /\ call = [k \in Calls |-> Idle]

\* Staff write to a conversation or change its status, as far as the bounds go.
StaffCalls(k) ==
  /\ At(k, "idle")
  /\ \E c \in Convs :
       /\ Exists(c)
       /\ \/ /\ issued < MaxMessages
             /\ Begin(k, "check", conv[c].customer, c, "reply", FALSE)
          \/ /\ changes < MaxChanges
             /\ \E status \in {"open", "closed"} \ {conv[c].status} :
                  Begin(k, "setStatus", conv[c].customer, c, status, FALSE)
  /\ UNCHANGED data

\* A send goes on without publishing.
SendStep(k) == AdmitSend(k) \/ Insert(k) \/ Touch(k) \/ TouchFails(k)

----------------------------------------------------------------------------
(* Properties.                                                             *)

\* A customer never has two open conversations, whatever first sends, closings
\* and reopenings race: the partial index stands behind create and setStatus.
OneOpenPerCustomer == \A u \in Customers : Cardinality(OpenOf(u)) <= 1

\* The collections are well formed, and calls know what they are about.
StoreTypeOK ==
  /\ conv \in [Convs -> Documents]
  /\ messages \subseteq MessageDocs
  /\ issued \in 0..MaxMessages
  /\ changes \in Nat
  /\ closedAt \in [Convs -> 0..MaxMessages]
  /\ untouched \subseteq Ids /\ overtaken \subseteq Ids
  /\ misreported \subseteq {m.id : m \in messages}
  /\ \A k \in Calls : call[k].conv \in Convs \cup {NoConv} /\ call[k].id \in 0..issued
  /\ Cardinality({m.id : m \in messages}) = Cardinality(messages)
  /\ OneOpenPerCustomer

\* Nothing is added to a conversation by a send that began after it was closed
\* (message.service.ts checks first and inserts later, so sends admitted before
\* the closing may still land in it).
ClosedHoldsOnlyAdmitted ==
  \A m \in messages : conv[m.conv].status = "closed" => m.id <= closedAt[m.conv]

\* resolveOpen fails on a duplicate key only if a conversation was closed while
\* it ran: losing the race to create is not an error.
ResolveFailsOnlyByClosing ==
  \A k \in Calls :
    At(k, "answered") /\ call[k].arg = "resolve" /\ call[k].answer = Failed
      => changes > call[k].since

Newest(c) == Max({m.id : m \in MessagesOf(c)} \cup {0})

\* No send to c is being stored or dated.
Quiet(c) == \A k \in Calls : call[k].conv = c => ~Sending(k)

\* lastMessageAt, by which the inbox is sorted, is written unconditionally.
\* Once nothing is being sent it lies behind the newest message only if that
\* message's touch failed or never came, or if two sends overlapped.
LastMessageAtBehindOnly ==
  \A c \in Convs :
    Quiet(c) /\ (\E m \in messages : m.conv = c /\ conv[c].lastAt < m.id)
      => Newest(c) \in untouched \/ \E m \in MessagesOf(c) : m.id \in overtaken
=============================================================================
