---------------------------- MODULE WidgetSessions ----------------------------
(***************************************************************************)
(* Opening a visitor's widget session (widget/widgetSession.service,       *)
(* widgetToken, originPolicy, customers/customer.repository; the client's  *)
(* session and storage).                                                   *)
(*                                                                         *)
(* A tab shows a page of one tenant at a time, whose snippet embeds a      *)
(* widget key; its sessionStorage holds a visitor token per widget key.  A *)
(* token stands for the customer and the tenant it names.  Opening the     *)
(* widget makes a request, which the server takes in up to three steps:    *)
(*                                                                         *)
(*   find (tenant, origin) -> resume | create -> answer                    *)
(***************************************************************************)
EXTENDS Tenants, Sequences

CONSTANTS
  Tabs,          \* visitors' browser tabs
  MaxCustomers,  \* bound: customers ever created
  MaxVisits,     \* bound: session requests ever made
  VisitFaults    \* of "lost", "expires", "noStorage"

ASSUME WidgetSessionsAssumption ==
  /\ MaxCustomers \in Nat /\ MaxVisits \in Nat
  /\ VisitFaults \subseteq {"lost", "expires", "noStorage"}

VARIABLES
  customer,  \* the customers collection: the tenant of each
  embedded,  \* the key in each tenant's website
  page,      \* what each tab shows, the state of the widget in it, the customer
             \* of the widget's token and the one whose conversation it shows
  storage,   \* each tab's sessionStorage: the customer of the token by key
  visit,     \* the session requests, in the order in which they were made
  expired,   \* customers none of whose tokens verifies any more
  dropped    \* history: customers whose token was lost: with an answer, with the
             \* page or tab, by a browser without storage, or cleared for another's

sessions == <<customer, embedded, page, storage, visit, expired, dropped>>

Nobody == 0

Keys == 0..MaxKeys

Customers == 1..Len(customer)

\* A request: the page's key, the token it carries, whom it is answered with.
Visits == DOMAIN visit

Under(v, step) == visit[v].step = step

Advanced(v, step, o, c) ==
  visit' = [visit EXCEPT ![v].step = step, ![v].org = o, ![v].customer = c]

Over == [step |-> "over", key |-> NoKey, org |-> "none", token |-> Nobody, customer |-> Nobody]

Ended(v) == visit' = [visit EXCEPT ![v] = Over]

\* The customer of a request whose token nothing keeps.
Unkept(v) == {visit[v].customer} \ {storage[t][k] : t \in Tabs, k \in Keys}

Waits(t, v) == page[t].visit = v

\* A page that has just loaded, or that has no session any more.
Page(o, k, status) == [org |-> o, key |-> k, status |-> status, visit |-> 0,
                       customer |-> Nobody, shown |-> Nobody]

----------------------------------------------------------------------------
(* The tab.                                                                *)

\* A page of a tenant is loaded; whatever the old one waited for is dropped.
Load(t, o) ==
  /\ embedded[o] # NoKey
  /\ page[t].org # o \/ page[t].key # embedded[o] \/ page[t].status # "closed"
  /\ page' = [page EXCEPT ![t] = Page(o, embedded[o], "closed")]
  /\ UNCHANGED <<tenants, customer, embedded, storage, visit, expired, dropped>>

Request(t, status, token) ==
  /\ Len(visit) < MaxVisits
  /\ page' = [page EXCEPT ![t].status = status, ![t].visit = Len(visit) + 1]
  /\ visit' = Append(visit, [step |-> "find", key |-> page[t].key, org |-> "none",
                             token |-> token, customer |-> Nobody])
  /\ UNCHANGED <<tenants, customer, embedded, storage, expired, dropped>>

\* openSession, with the token that is stored.
OpenWidget(t) ==
  /\ page[t].status \in {"closed", "error"}
  /\ Request(t, "loading", storage[t][page[t].key])

\* submitDetails, with the token that the widget holds; its form goes once the
\* details are saved.
SubmitDetails(t) ==
  /\ page[t].status = "ready" /\ page[t].visit = 0
  /\ Request(t, "ready", page[t].customer)

\* Mutant: one slot for the tokens of all widget keys.
StoreInOneSlot(t, v) == [k \in Keys |-> visit[v].customer]

\* storeToken, under the page's widget key.
Store(t, v) == [storage[t] EXCEPT ![page[t].key] = visit[v].customer]

\* The answer reaches the page that waits for it, or nobody.
Answered(v) ==
  /\ Under(v, "answer") /\ Ended(v)
  /\ \/ \E t \in Tabs :
          /\ Waits(t, v)
          /\ page' = [page EXCEPT
               ![t].visit = 0, ![t].customer = visit[v].customer,
               ![t].status = IF @ = "ready" THEN "saved" ELSE "resolving"]
          /\ \/ storage' = [storage EXCEPT ![t] = Store(t, v)] /\ UNCHANGED dropped
             \/ /\ "noStorage" \in VisitFaults /\ UNCHANGED storage
                /\ dropped' = dropped \cup Unkept(v)
     \/ /\ ~\E t \in Tabs : Waits(t, v)
        /\ dropped' = dropped \cup Unkept(v)
        /\ UNCHANGED <<page, storage>>
  /\ UNCHANGED <<tenants, customer, embedded, expired>>

\* An opening that fails shows an error; details that fail are forgotten.
FailPage(v) == page' = [t \in Tabs |->
  IF Waits(t, v)
  THEN [page[t] EXCEPT !.visit = 0, !.status = IF @ = "ready" THEN "ready" ELSE "error"]
  ELSE page[t]]

\* A refusal: one message, whatever the reason.
Refused(v) ==
  /\ Under(v, "refuse") /\ Ended(v) /\ FailPage(v)
  /\ UNCHANGED <<tenants, customer, embedded, storage, expired, dropped>>

\* The request or its answer does not get through.
Lost(v) ==
  /\ "lost" \in VisitFaults /\ ~Under(v, "over")
  /\ Ended(v) /\ FailPage(v)
  /\ dropped' = dropped \cup (Unkept(v) \ {Nobody})
  /\ UNCHANGED <<tenants, customer, embedded, storage, expired>>

\* The conversation and its history have been read.
Resolved(t) ==
  /\ page[t].status = "resolving" /\ page[t].customer \notin expired
  /\ page' = [page EXCEPT ![t].status = "ready", ![t].shown = page[t].customer]
  /\ UNCHANGED <<tenants, customer, embedded, storage, visit, expired, dropped>>

\* clearStoredToken, whichever token is stored.
ClearStored(t) ==
  LET held == storage[t][page[t].key]
  IN  /\ storage' = [storage EXCEPT ![t][page[t].key] = Nobody]
      /\ dropped' = dropped \cup ({held} \ (expired \cup {Nobody}))

\* They are refused with a 401.
TokenRefused(t) ==
  /\ page[t].status = "resolving" /\ page[t].customer \in expired
  /\ page' = [page EXCEPT ![t] = Page(page[t].org, page[t].key, "error")]
  /\ ClearStored(t)
  /\ UNCHANGED <<tenants, customer, embedded, visit, expired>>

\* onAuthFailure: a handshake with the token of the opening is refused, which
\* expires before the one that saving details has brought.
HandshakeRefused(t) ==
  /\ \/ page[t].status \in {"ready", "saved"} /\ page[t].shown \in expired
     \/ page[t].status = "saved" /\ "expires" \in VisitFaults
  /\ storage[t][page[t].key] # Nobody
  /\ ClearStored(t)
  /\ UNCHANGED <<tenants, customer, embedded, page, visit, expired>>

\* A closed tab takes its storage with it.
CloseTab(t) ==
  /\ page[t].status # "none"
  /\ page' = [page EXCEPT ![t] = Page(page[t].org, NoKey, "none")]
  /\ storage' = [storage EXCEPT ![t] = [k \in Keys |-> Nobody]]
  /\ dropped' = dropped \cup ({storage[t][k] : k \in Keys} \ {Nobody})
  /\ UNCHANGED <<tenants, customer, embedded, visit, expired>>

\* A tenant copies the key in force into its website.
Embed(o) ==
  /\ org[o].exists /\ embedded[o] # org[o].key
  /\ embedded' = [embedded EXCEPT ![o] = org[o].key]
  /\ UNCHANGED <<tenants, customer, page, storage, visit, expired, dropped>>

----------------------------------------------------------------------------
(* createSession.                                                          *)

\* Mutant: a visitor's token is not looked at.
ResumesNobody(v, o) == FALSE

\* The token verifies, and names the tenant that the widget key resolved to.
Resumes(v, o) ==
  /\ visit[v].token # Nobody /\ visit[v].token \notin expired
  /\ customer[visit[v].token] = o

\* The tenant of the widget key, if the page's website is among its origins.
Find(v) ==
  /\ Under(v, "find")
  /\ LET found == {o \in Orgs : org[o].exists /\ org[o].key # NoKey /\ org[o].key = visit[v].key}
     IN  \/ /\ \A o \in found : ~org[o].listed
            /\ Advanced(v, "refuse", "none", Nobody)
         \/ \E o \in found :
              /\ org[o].listed
              /\ IF Resumes(v, o) THEN Advanced(v, "resume", o, visit[v].token)
                                  ELSE Advanced(v, "create", o, Nobody)
  /\ UNCHANGED <<tenants, customer, embedded, page, storage, expired, dropped>>

\* recordVisit
Resume(v) ==
  /\ Under(v, "resume")
  /\ visit' = [visit EXCEPT ![v].step = "answer"]
  /\ UNCHANGED <<tenants, customer, embedded, page, storage, expired, dropped>>

CreateCustomer(v) ==
  /\ Under(v, "create") /\ Len(customer) < MaxCustomers
  /\ customer' = Append(customer, visit[v].org)
  /\ Advanced(v, "answer", visit[v].org, Len(customer) + 1)
  /\ UNCHANGED <<tenants, embedded, page, storage, expired, dropped>>

\* A customer's tokens are not renewed for their lifetime.
Expire(c) ==
  /\ "expires" \in VisitFaults /\ c \notin expired
  /\ \A v \in Visits : ~Under(v, "over") => visit[v].customer # c
  /\ expired' = expired \cup {c}
  /\ UNCHANGED <<tenants, customer, embedded, page, storage, visit, dropped>>

----------------------------------------------------------------------------
(* The specification.                                                      *)

WidgetSessionsInit ==
  /\ TenantsInit
  /\ customer = <<>> /\ visit = <<>> /\ expired = {} /\ dropped = {}
  /\ embedded = [o \in Orgs |-> org[o].key]
  /\ \E o \in Orgs :
       page = [t \in Tabs |-> Page(o, NoKey, "none")]
  /\ storage = [t \in Tabs |-> [k \in Keys |-> Nobody]]

WidgetSessionsNext ==
  \/ TenantsNext /\ UNCHANGED sessions
  \/ \E t \in Tabs :
       \/ OpenWidget(t) \/ SubmitDetails(t) \/ Resolved(t)
       \/ TokenRefused(t) \/ HandshakeRefused(t) \/ CloseTab(t)
       \/ \E o \in Orgs : Load(t, o)
  \/ \E o \in Orgs : Embed(o)
  \/ \E v \in Visits :
       \/ Find(v) \/ Resume(v) \/ CreateCustomer(v) \/ Answered(v) \/ Refused(v) \/ Lost(v)
  \/ \E c \in Customers : Expire(c)

WidgetSessionsSpec ==
  WidgetSessionsInit /\ [][WidgetSessionsNext]_<<tenants, sessions>>

----------------------------------------------------------------------------
(* Properties.                                                             *)

WidgetSessionsTypeOK ==
  /\ TenantsTypeOK
  /\ \A c \in Customers : org[customer[c]].exists
  /\ \A t \in Tabs, k \in Keys : storage[t][k] \in Customers \cup {Nobody}
  /\ \A t \in Tabs : page[t].visit \in Visits \cup {0}
  /\ \A t \in Tabs : page[t].shown # Nobody <=> page[t].status \in {"ready", "saved"}
  /\ expired \cup dropped \subseteq Customers

OnItsWay(c) ==
  \E v \in Visits : visit[v].step \in {"resume", "answer"} /\ visit[v].customer = c

\* ADR-019, section 6 and ADR-021, section 6: a visitor is a new customer only
\* once.  Every customer is kept by a tab's token, or its token is on its way,
\* but for those whose token expired or was lost on the way, with its page or
\* tab, by a browser that stores nothing, or by the clearing of an older token.
\* No token is stored under a key of another tenant, and the token a widget
\* holds is its conversation's customer's, unless that customer's had expired
\* when details were saved.
CustomersHeld ==
  /\ \A c \in Customers \ (dropped \cup expired) :
       OnItsWay(c) \/ \E t \in Tabs, k \in Keys : storage[t][k] = c
  /\ \A t \in Tabs, o \in Orgs :
       org[o].key # NoKey /\ storage[t][org[o].key] # Nobody
         => customer[storage[t][org[o].key]] = o
  /\ \A t \in Tabs :
       page[t].shown \notin {Nobody, page[t].customer} => page[t].shown \in expired
=============================================================================
