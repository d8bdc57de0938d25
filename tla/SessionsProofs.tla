--------------------------- MODULE SessionsProofs ---------------------------
(***************************************************************************)
(* Theorems about staff sessions, for every number of people, browsers,    *)
(* sessions and concurrent requests, every length of the remembered        *)
(* history and of the grace window, and every combination of faults.       *)
(***************************************************************************)
EXTENDS Sessions, TLAPS, SequenceTheorems

----------------------------------------------------------------------------
(* What a handler's moves leave behind.                                    *)

LEMMA IdleHandler == Idle \in Handlers /\ HandlerOK(Idle)
BY DEF Idle, Handlers, HandlerOK, Pcs, Ops

\* The other requests stay where they are.
LEMMA GotoMoves ==
  ASSUME TypeOK, NEW r \in Requests, NEW pc \in Pcs, Goto(r, pc)
  PROVE  /\ req' \in [Requests -> Handlers]
         /\ req'[r].pc = pc /\ req'[r].op = req[r].op
         /\ req'[r].browser = req[r].browser /\ req'[r].cookie = req[r].cookie
         /\ req'[r].reply = req[r].reply /\ req'[r].todo = req[r].todo
         /\ \A q \in Requests \ {r} : req'[q] = req[q]
BY DEF TypeOK, Goto, Handlers

LEMMA FinishMoves ==
  ASSUME TypeOK, NEW r \in Requests, Finish(r)
  PROVE  /\ req' \in [Requests -> Handlers]
         /\ req'[r] = Idle
         /\ \A q \in Requests \ {r} : req'[q] = req[q]
BY IdleHandler DEF TypeOK, Finish

LEMMA AnswerMoves ==
  ASSUME TypeOK, NEW r \in Requests, NEW c \in Cookies \cup {NoCookie}, Answer(r, c)
  PROVE  /\ req' \in [Requests -> Handlers]
         /\ req'[r].pc = "reply" /\ req'[r].op = req[r].op
         /\ req'[r].browser = req[r].browser /\ req'[r].cookie = req[r].cookie
         /\ req'[r].reply = c
         /\ \A q \in Requests \ {r} : req'[q] = req[q]
BY DEF TypeOK, Answer, Handlers, Pcs

LEMMA AnswerFailureMoves ==
  ASSUME TypeOK, NEW r \in Requests, AnswerFailure(r)
  PROVE  /\ req' \in [Requests -> Handlers]
         /\ req'[r].pc = "failed" /\ req'[r].op = req[r].op
         /\ req'[r].browser = req[r].browser /\ req'[r].cookie = req[r].cookie
         /\ req'[r].reply = req[r].reply
         /\ \A q \in Requests \ {r} : req'[q] = req[q]
BY DEF TypeOK, AnswerFailure, Handlers, Pcs

LEMMA SendMoves ==
  ASSUME TypeOK, NEW r \in Requests, NEW b \in Browsers, NEW op \in Ops,
         NEW c \in Cookies \cup {NoCookie}, Send(r, b, op, c)
  PROVE  /\ req' \in [Requests -> Handlers]
         /\ req'[r].pc = "sent" /\ req'[r].op = op /\ req'[r].browser = b
         /\ req'[r].cookie = c /\ req'[r].reply = NoCookie
         /\ \A q \in Requests \ {r} : req'[q] = req[q]
BY DEF TypeOK, Send, Idle, Handlers, Pcs

----------------------------------------------------------------------------
(* The history of retired secrets.                                         *)

\* $slice keeps the newest HistoryBound secrets, the outgoing one last.
LEMMA RetireKeepsNewest ==
  ASSUME NEW p \in Seq(Nat), NEW n \in Nat, Len(p) <= HistoryBound
  PROVE  /\ Retire(p, n) \in Seq(Nat)
         /\ Len(Retire(p, n)) = IF Len(p) < HistoryBound THEN Len(p) + 1 ELSE HistoryBound
         /\ \A i \in 1..Len(Retire(p, n)) :
              Retire(p, n)[i] = IF i = Len(Retire(p, n)) THEN n
                                ELSE p[i + Len(p) + 1 - Len(Retire(p, n))]
<1> DEFINE h == Append(p, n)
<1>1. h \in Seq(Nat) /\ Len(h) = Len(p) + 1 /\ HistoryBound \in Nat \ {0}
      /\ \A i \in 1..Len(h) : h[i] = IF i = Len(p) + 1 THEN n ELSE p[i]
  BY SessionsAssumption
<1>2. CASE Len(h) <= HistoryBound
  BY <1>1, <1>2 DEF Retire
<1>3. CASE ~(Len(h) <= HistoryBound)
  <2>1. Len(p) = HistoryBound /\ Retire(p, n) = SubSeq(h, 2, Len(h))
    BY <1>1, <1>3 DEF Retire
  <2>2. /\ Retire(p, n) \in Seq(Nat)
        /\ Len(Retire(p, n)) = HistoryBound
        /\ \A i \in 1..HistoryBound : Retire(p, n)[i] = h[i + 1]
    BY <1>1, <2>1
  <2>3. ASSUME NEW i \in 1..HistoryBound
        PROVE  Retire(p, n)[i] = IF i = HistoryBound THEN n ELSE p[i + 1]
    BY <1>1, <2>1, <2>2
  <2>4. /\ ~(Len(p) < HistoryBound)
        /\ \A i \in 1..HistoryBound : i + Len(p) + 1 - HistoryBound = i + 1
    BY <1>1, <2>1
  <2>5. QED
    BY <2>2, <2>3, <2>4
<1>4. QED
  BY <1>2, <1>3

----------------------------------------------------------------------------
(* What a step may do to one session.                                      *)

\* Its secrets stay and it may come closer to its end.
Ages(s) ==
  /\ sessions'[s].user = sessions[s].user
  /\ sessions'[s].current = sessions[s].current
  /\ sessions'[s].previous = sessions[s].previous
  /\ sessions'[s].rotated = sessions[s].rotated
  /\ sessions'[s].rotatedAt = sessions[s].rotatedAt
  /\ sessions'[s].expiresAt = sessions[s].expiresAt
  /\ \/ sessions'[s].state = sessions[s].state
     \/ Live(s) /\ sessions'[s].state = "revoked"
     \/ Stored(s) /\ sessions'[s].state = "purged"

Rotates(s) ==
  /\ Stored(s)
  /\ sessions'[s].user = sessions[s].user
  /\ sessions'[s].current = sessions[s].current + 1
  /\ sessions'[s].previous = Retire(sessions[s].previous, sessions[s].current)
  /\ sessions'[s].rotated
  /\ sessions'[s].expiresAt = sessions[s].expiresAt
  /\ sessions'[s].state = sessions[s].state

Begins(s) ==
  /\ sessions[s].state = "none"
  /\ sessions'[s].state = "live"
  /\ sessions'[s].current = 0
  /\ sessions'[s].previous = <<>>

LEMMA RotateWrites ==
  ASSUME TypeOK, NEW s \in Sids, Stored(s),
         sessions' = [sessions EXCEPT ![s] = Rotated(s)]
  PROVE  /\ sessions' \in [Sids -> Session]
         /\ \A q \in Sids : Len(sessions'[q].previous) <= HistoryBound
         /\ Rotates(s)
         /\ \A q \in Sids \ {s} : sessions'[q] = sessions[q]
<1> DEFINE x == sessions[s]
<1>1. x \in Session /\ Len(x.previous) <= HistoryBound /\ now \in Nat
  BY DEF TypeOK
<1>2. x.current \in Nat /\ x.previous \in Seq(Nat)
  BY <1>1 DEF Session
<1>3. /\ Retire(x.previous, x.current) \in Seq(Nat)
      /\ Len(Retire(x.previous, x.current)) <= HistoryBound
  BY <1>1, <1>2, RetireKeepsNewest, SessionsAssumption
<1> DEFINE y == [x EXCEPT !.previous = Retire(x.previous, x.current)]
           z == [y EXCEPT !.current = x.current + 1]
<1>4. /\ y \in Session /\ y.previous = Retire(x.previous, x.current)
      /\ y.state = x.state /\ y.user = x.user /\ y.expiresAt = x.expiresAt
  BY <1>1, <1>3 DEF Session
<1>5. /\ z \in Session /\ z.previous = y.previous /\ z.current = x.current + 1
      /\ z.state = x.state /\ z.user = x.user /\ z.expiresAt = x.expiresAt
  <2>1. x.current + 1 \in Nat
    BY <1>2
  <2> DEFINE next == x.current + 1
  <2> HIDE DEF y, next
  <2>2. QED
    BY <1>4, <2>1 DEF Session, next
<1>6. /\ Rotated(s) \in Session /\ Rotated(s).previous = z.previous
      /\ Rotated(s).current = z.current /\ Rotated(s).state = z.state
      /\ Rotated(s).user = z.user /\ Rotated(s).expiresAt = z.expiresAt
      /\ Rotated(s).rotated
  <2>1. Rotated(s) = [[z EXCEPT !.rotated = TRUE] EXCEPT !.rotatedAt = now]
    BY DEF Rotated
  <2> HIDE DEF z
  <2>2. QED
    BY <1>1, <1>5, <2>1 DEF Session
<1> HIDE DEF y, z
<1>7. sessions'[s] = Rotated(s) /\ \A q \in Sids \ {s} : sessions'[q] = sessions[q]
  BY DEF TypeOK
<1>8. QED
  BY <1>3, <1>4, <1>5, <1>6, <1>7 DEF TypeOK, Rotates

LEMMA RevokeWrites ==
  ASSUME TypeOK, NEW s \in Sids, sessions' = WithRevoked(s)
  PROVE  /\ sessions' \in [Sids -> Session]
         /\ \A q \in Sids : Ages(q)
         /\ sessions'[s].state # "live"
<1> DEFINE x == sessions[s]
<1>1. x \in Session
  BY DEF TypeOK
<1>2. sessions'[s] =
        [state |-> IF x.state = "live" THEN "revoked" ELSE x.state, user |-> x.user,
         current |-> x.current, previous |-> x.previous, rotated |-> x.rotated,
         rotatedAt |-> x.rotatedAt, expiresAt |-> x.expiresAt]
  BY <1>1 DEF WithRevoked, TypeOK, Session
<1>3. \A q \in Sids \ {s} : sessions'[q] = sessions[q]
  BY DEF WithRevoked, TypeOK
<1>4. sessions'[s] \in Session
  BY <1>1, <1>2 DEF Session
<1>5. sessions' \in [Sids -> Session]
  BY <1>3, <1>4 DEF WithRevoked, TypeOK
<1>6. QED
  BY <1>2, <1>3, <1>5 DEF Ages, Live

LEMMA PurgeWrites ==
  ASSUME TypeOK, NEW s \in Sids, Purge(s)
  PROVE  /\ sessions' \in [Sids -> Session]
         /\ \A q \in Sids : Ages(q)
<1>1. sessions[s] \in Session
  BY DEF TypeOK
<1>2. /\ sessions'[s] = [sessions[s] EXCEPT !.state = "purged"]
      /\ \A q \in Sids \ {s} : sessions'[q] = sessions[q]
  BY DEF Purge, TypeOK
<1>3. sessions'[s] \in Session
  BY <1>1, <1>2 DEF Session
<1>4. sessions' \in [Sids -> Session]
  BY <1>2, <1>3 DEF Purge, TypeOK
<1>5. QED
  BY <1>1, <1>2, <1>4 DEF Ages, Purge, Session

LEMMA CreateWrites ==
  ASSUME TypeOK, NEW r \in Requests, CreateSession(r)
  PROVE  /\ sessions' \in [Sids -> Session]
         /\ \A q \in Sids : Len(sessions'[q].previous) <= HistoryBound
         /\ \E s \in Sids : /\ Begins(s)
                            /\ Answer(r, [sid |-> s, n |-> 0])
                            /\ \A q \in Sids \ {s} : sessions'[q] = sessions[q]
<1>1. PICK s \in Sids :
        /\ sessions[s].state = "none"
        /\ sessions' = [sessions EXCEPT ![s] =
             [state |-> "live", user |-> UserOf[BrowserAt(r)], current |-> 0,
              previous |-> <<>>, rotated |-> FALSE, rotatedAt |-> 0,
              expiresAt |-> now + Ttl]]
        /\ Answer(r, [sid |-> s, n |-> 0])
  BY DEF CreateSession
<1>2. UserOf[BrowserAt(r)] \in Users /\ now + Ttl \in Nat
  BY SessionsAssumption DEF TypeOK, HandlerOK, CreateSession, At, BrowserAt
<1>3. [state |-> "live", user |-> UserOf[BrowserAt(r)], current |-> 0,
       previous |-> <<>>, rotated |-> FALSE, rotatedAt |-> 0,
       expiresAt |-> now + Ttl] \in Session
  BY <1>2 DEF Session
<1>4. Len(<<>>) <= HistoryBound
  BY SessionsAssumption
<1>5. QED
  BY <1>1, <1>3, <1>4 DEF TypeOK, Begins

----------------------------------------------------------------------------
(* Type correctness.                                                       *)

LEMMA InitTyped == Init => TypeOK
<1>1. SUFFICES ASSUME Init PROVE TypeOK
  OBVIOUS
<1>2. <<>> \in Seq(Nat) /\ Len(<<>>) <= HistoryBound
  BY SessionsAssumption
<1>3. [state |-> "none", user |-> NoUser, current |-> 0, previous |-> <<>>,
       rotated |-> FALSE, rotatedAt |-> 0, expiresAt |-> 0] \in Session
  BY <1>2 DEF Session
<1>4. QED
  BY <1>1, <1>2, <1>3, IdleHandler DEF Init, TypeOK

\* A step that moves one request and leaves sessions where they began.
LEMMA MoveTyped ==
  ASSUME TypeOK, NEW r \in Requests,
         req' \in [Requests -> Handlers],
         \A q \in Requests \ {r} : req'[q] = req[q],
         HandlerOK(req[r])',
         sessions' \in [Sids -> Session],
         \A s \in Sids : /\ Len(sessions'[s].previous) <= HistoryBound
                         /\ sessions[s].state # "none" => sessions'[s].state # "none",
         disabled' \in SUBSET Users,
         jar' \in [Browsers -> Cookies \cup {NoCookie}],
         now' \in Nat, estranged' \in SUBSET Sids, late' \in [Sids -> Nat]
  PROVE  TypeOK'
<1>1. ASSUME NEW q \in Requests, q # r
      PROVE  HandlerOK(req[q])'
  BY <1>1 DEF TypeOK, HandlerOK, Handlers, Cookies
<1>2. QED
  BY <1>1 DEF TypeOK

\* What a request holds by the time it addresses a session.
LEMMA AddressedSession ==
  ASSUME TypeOK, NEW r \in Requests,
         Addresses(r) \/ req[r].pc \in {"entitle", "rotate", "revoke", "revokeAll", "sweep"}
  PROVE  /\ Presented(r) \in Cookies /\ Presented(r).sid \in Sids
         /\ sessions[Presented(r).sid].state # "none"
<1>1. req[r] \in Handlers /\ HandlerOK(req[r])
  BY DEF TypeOK
<1>2. Presented(r) \in Cookies
  BY <1>1 DEF Handlers, HandlerOK, Addresses, Presented
<1>3. QED
  BY <1>1, <1>2 DEF Cookies, HandlerOK, Addresses, Usable, Live, Presented

\* Only requests move, and no further than the next point of their operation.
Quiet == UNCHANGED <<sessions, disabled, jar, now, estranged, late>>

LEMMA QuietTyped ==
  ASSUME TypeOK, Quiet, NEW r \in Requests,
         \/ \E b \in Browsers, op \in Ops, c \in Cookies \cup {NoCookie} : Send(r, b, op, c)
         \/ ~At(r, "idle") /\ \/ Finish(r)
                              \/ \E c \in Cookies \cup {NoCookie} : Answer(r, c)
                              \/ AnswerFailure(r)
                              \/ Goto(r, "create")
         \/ \E pc \in {"entitle", "rotate", "revoke", "revokeAll"} :
              /\ ~At(r, "idle") /\ Goto(r, pc)
              /\ Addresses(r) \/ At(r, "entitle")
  PROVE  TypeOK'
<1>1. req[r] \in Handlers /\ HandlerOK(req[r])
  BY DEF TypeOK
<1>2. /\ req' \in [Requests -> Handlers] /\ HandlerOK(req[r])'
      /\ \A q \in Requests \ {r} : req'[q] = req[q]
  <2>1. CASE \E b \in Browsers, op \in Ops, c \in Cookies \cup {NoCookie} : Send(r, b, op, c)
    BY <2>1, SendMoves DEF HandlerOK
  <2>2. CASE Finish(r)
    BY <2>2, FinishMoves DEF HandlerOK, Idle
  <2>3. CASE ~At(r, "idle") /\ \E c \in Cookies \cup {NoCookie} : Answer(r, c)
    BY <1>1, <2>3, AnswerMoves DEF HandlerOK, At
  <2>4. CASE ~At(r, "idle") /\ AnswerFailure(r)
    BY <1>1, <2>4, AnswerFailureMoves DEF HandlerOK, At
  <2>5. CASE ~At(r, "idle") /\ Goto(r, "create")
    BY <1>1, <2>5, GotoMoves DEF HandlerOK, At, Pcs
  <2>6. ASSUME NEW pc \in {"entitle", "rotate", "revoke", "revokeAll"},
               ~At(r, "idle"), Goto(r, pc), Addresses(r) \/ At(r, "entitle")
        PROVE  /\ req' \in [Requests -> Handlers] /\ HandlerOK(req[r])'
               /\ \A q \in Requests \ {r} : req'[q] = req[q]
    <3>1. Presented(r) \in Cookies /\ sessions[Presented(r).sid].state # "none"
      BY <2>6, AddressedSession DEF At
    <3>2. pc \in Pcs
      BY DEF Pcs
    <3>3. QED
      BY <1>1, <2>6, <3>1, <3>2, GotoMoves DEF HandlerOK, At, Presented, Quiet
  <2>7. QED
    BY <2>1, <2>2, <2>3, <2>4, <2>5, <2>6
<1>3. QED
  <2>1. sessions' = sessions
    BY DEF Quiet
  <2>2. QED
    BY <1>2, <2>1, MoveTyped DEF TypeOK, Quiet

LEMMA CreateTyped ==
  ASSUME TypeOK, NEW r \in Requests, CreateSession(r)
  PROVE  TypeOK'
<1>1. req[r] \in Handlers /\ HandlerOK(req[r]) /\ req[r].pc # "idle"
  BY DEF TypeOK, CreateSession, At
<1>2. PICK s \in Sids : /\ Begins(s)
                        /\ Answer(r, [sid |-> s, n |-> 0])
                        /\ \A q \in Sids \ {s} : sessions'[q] = sessions[q]
  BY CreateWrites
<1>3. [sid |-> s, n |-> 0] \in Cookies
  BY DEF Cookies
<1>4. /\ req' \in [Requests -> Handlers] /\ HandlerOK(req[r])'
      /\ \A q \in Requests \ {r} : req'[q] = req[q]
  BY <1>1, <1>2, <1>3, AnswerMoves DEF HandlerOK
<1>5. \A q \in Sids : sessions[q].state # "none" => sessions'[q].state # "none"
  BY <1>2 DEF Begins
<1>6. QED
  BY <1>4, <1>5, CreateWrites, MoveTyped DEF CreateSession, TypeOK

LEMMA RotateTyped ==
  ASSUME TypeOK, NEW r \in Requests, Rotate(r)
  PROVE  TypeOK'
<1> DEFINE s == Presented(r).sid
<1>1. /\ req[r] \in Handlers /\ HandlerOK(req[r]) /\ At(r, "rotate")
      /\ s \in Sids
  BY AddressedSession DEF TypeOK, Rotate, At
<1>2. CASE ~(Stored(s) /\ IsCurrent(s, Presented(r).n))
  BY <1>1, <1>2, QuietTyped DEF Rotate, Quiet, At
<1>3. CASE Stored(s) /\ IsCurrent(s, Presented(r).n)
  <2>1. /\ sessions' = [sessions EXCEPT ![s] = Rotated(s)]
        /\ late' = [late EXCEPT ![s] = IF Ended(s) THEN @ + 1 ELSE @]
        /\ Answer(r, [sid |-> s, n |-> sessions[s].current + 1])
        /\ UNCHANGED <<disabled, jar, now, estranged>>
    BY <1>3 DEF Rotate
  <2>2. [sid |-> s, n |-> sessions[s].current + 1] \in Cookies
    BY <1>1 DEF Cookies, TypeOK, Session
  <2>3. /\ req' \in [Requests -> Handlers] /\ HandlerOK(req[r])'
        /\ \A q \in Requests \ {r} : req'[q] = req[q]
    BY <1>1, <2>1, <2>2, AnswerMoves DEF HandlerOK, At
  <2>4. late' \in [Sids -> Nat]
    BY <1>1, <2>1 DEF TypeOK
  <2>5. /\ sessions' \in [Sids -> Session]
        /\ \A q \in Sids : Len(sessions'[q].previous) <= HistoryBound
        /\ Rotates(s)
        /\ \A q \in Sids \ {s} : sessions'[q] = sessions[q]
    BY <1>1, <1>3, <2>1, RotateWrites
  <2>6. \A q \in Sids : sessions[q].state # "none" => sessions'[q].state # "none"
    BY <1>1, <2>5 DEF Rotates
  <2>7. QED
    BY <2>1, <2>3, <2>4, <2>5, <2>6, MoveTyped DEF TypeOK
<1>4. QED
  BY <1>2, <1>3

\* The steps that only bring sessions closer to their end.
LEMMA AgesTyped ==
  ASSUME TypeOK, NEW r \in Requests,
         req' \in [Requests -> Handlers], HandlerOK(req[r])',
         \A q \in Requests \ {r} : req'[q] = req[q],
         sessions' \in [Sids -> Session], \A s \in Sids : Ages(s),
         UNCHANGED <<disabled, jar, now, estranged, late>>
  PROVE  TypeOK'
<1>1. \A s \in Sids : /\ Len(sessions'[s].previous) <= HistoryBound
                      /\ sessions[s].state # "none" => sessions'[s].state # "none"
  BY DEF Ages, TypeOK
<1>2. QED
  BY <1>1, MoveTyped DEF TypeOK

LEMMA RevokeTyped ==
  ASSUME TypeOK, NEW r \in Requests, Revoke(r)
  PROVE  TypeOK'
<1>1. /\ req[r] \in Handlers /\ HandlerOK(req[r]) /\ At(r, "revoke")
      /\ Presented(r).sid \in Sids
  BY AddressedSession DEF TypeOK, Revoke, At
<1>2. Answer(r, NoCookie) /\ sessions' = WithRevoked(Presented(r).sid)
  BY DEF Revoke
<1>3. /\ req' \in [Requests -> Handlers] /\ HandlerOK(req[r])'
      /\ \A q \in Requests \ {r} : req'[q] = req[q]
  BY <1>1, <1>2, AnswerMoves DEF HandlerOK, At
<1>4. QED
  BY <1>1, <1>2, <1>3, RevokeWrites, AgesTyped DEF Revoke

\* The sweep starts with the sessions that are live, and ends with none.
LEMMA RevokeAllMoves ==
  ASSUME TypeOK, NEW r \in Requests, RevokeAll(r)
  PROVE  /\ req' \in [Requests -> Handlers] /\ HandlerOK(req[r])'
         /\ req'[r].pc = "sweep" /\ req'[r].op = req[r].op
         /\ req'[r].cookie = req[r].cookie /\ req'[r].reply = req[r].reply
         /\ req'[r].todo = {s \in Sids : Live(s) /\
                              sessions[s].user = sessions[Presented(r).sid].user}
         /\ \A q \in Requests \ {r} : req'[q] = req[q]
<1> DEFINE todo == {s \in Sids : Live(s) /\
                     sessions[s].user = sessions[Presented(r).sid].user}
<1>1. req[r] \in Handlers /\ HandlerOK(req[r]) /\ At(r, "revokeAll")
  BY DEF TypeOK, RevokeAll
<1>2. req' = [req EXCEPT ![r].pc = "sweep", ![r].todo = todo] /\ todo \in SUBSET Sids
  BY DEF RevokeAll
<1> HIDE DEF todo
<1>3. /\ req' \in [Requests -> Handlers]
      /\ req'[r].pc = "sweep" /\ req'[r].op = req[r].op
      /\ req'[r].browser = req[r].browser
      /\ req'[r].cookie = req[r].cookie /\ req'[r].reply = req[r].reply
      /\ req'[r].todo = todo
      /\ \A q \in Requests \ {r} : req'[q] = req[q]
  BY <1>1, <1>2 DEF TypeOK, Handlers, Pcs
<1>4. HandlerOK(req[r])'
  BY <1>1, <1>3 DEF HandlerOK, At, RevokeAll
<1>5. QED
  BY <1>3, <1>4 DEF todo

LEMMA RevokeNextMoves ==
  ASSUME TypeOK, NEW r \in Requests, RevokeNext(r)
  PROVE  /\ req' \in [Requests -> Handlers] /\ HandlerOK(req[r])'
         /\ req'[r].pc = "sweep" /\ req'[r].op = req[r].op
         /\ req'[r].cookie = req[r].cookie /\ req'[r].reply = req[r].reply
         /\ \E s \in Sids : sessions' = WithRevoked(s) /\ req'[r].todo = req[r].todo \ {s}
         /\ \A q \in Requests \ {r} : req'[q] = req[q]
<1>1. req[r] \in Handlers /\ HandlerOK(req[r]) /\ At(r, "sweep")
  BY DEF TypeOK, RevokeNext
<1>2. PICK s \in req[r].todo : /\ sessions' = WithRevoked(s)
                               /\ req' = [req EXCEPT ![r].todo = @ \ {s}]
  BY DEF RevokeNext
<1>3. /\ req' \in [Requests -> Handlers]
      /\ req'[r].pc = "sweep" /\ req'[r].op = req[r].op
      /\ req'[r].browser = req[r].browser
      /\ req'[r].cookie = req[r].cookie /\ req'[r].reply = req[r].reply
      /\ req'[r].todo = req[r].todo \ {s}
      /\ \A q \in Requests \ {r} : req'[q] = req[q]
  BY <1>1, <1>2 DEF TypeOK, Handlers, At
<1>4. s \in Sids /\ req[r].cookie \in Cookies /\ req[r].cookie.sid \in Sids
  BY <1>1, AddressedSession DEF Handlers, Presented, At
<1>5. sessions'[req[r].cookie.sid].state # "none"
  BY <1>1, <1>2, <1>4, RevokeWrites DEF Ages, HandlerOK, At, Stored
<1>6. HandlerOK(req[r])'
  BY <1>1, <1>3, <1>4, <1>5 DEF HandlerOK, At
<1>7. QED
  BY <1>2, <1>3, <1>4, <1>6

\* The response is taken in, or lost: the request is over.
LEMMA DeliverTyped ==
  ASSUME TypeOK, NEW r \in Requests, Deliver(r) \/ Vanish(r)
  PROVE  TypeOK'
<1>1. /\ req[r] \in Handlers /\ HandlerOK(req[r]) /\ req[r].pc # "idle"
  BY DEF TypeOK, Deliver, Vanish, Answered, At
<1>2. /\ req' \in [Requests -> Handlers] /\ HandlerOK(req[r])'
      /\ \A q \in Requests \ {r} : req'[q] = req[q]
  BY FinishMoves DEF HandlerOK, Idle, Deliver, Vanish
<1>3. /\ jar' \in [Browsers -> Cookies \cup {NoCookie}]
      /\ estranged' \in SUBSET Sids
  BY <1>1 DEF TypeOK, Deliver, Vanish, Handlers, HandlerOK, GivenUp, BrowserAt
<1>4. sessions' = sessions
  BY DEF Deliver, Vanish
<1>5. QED
  BY <1>2, <1>3, <1>4, MoveTyped DEF TypeOK, Deliver, Vanish

LEMMA EnvironmentTyped ==
  ASSUME TypeOK, Environment
  PROVE  TypeOK'
<1>1. CASE Tick
  <2>1. now' \in Nat /\ UNCHANGED <<sessions, disabled, jar, req, estranged, late>>
    BY <1>1 DEF TypeOK, Tick
  <2>2. QED
    BY <2>1 DEF TypeOK, HandlerOK
<1>2. ASSUME NEW s \in Sids, Purge(s)
      PROVE  TypeOK'
  <2>1. sessions' \in [Sids -> Session] /\ \A q \in Sids : Ages(q)
    BY <1>2, PurgeWrites
  <2>2. \A r \in Requests : HandlerOK(req[r])'
    <3>1. SUFFICES ASSUME NEW r \in Requests PROVE HandlerOK(req[r])'
      OBVIOUS
    <3>2. req[r] \in Handlers /\ HandlerOK(req[r]) /\ req' = req
      BY <1>2 DEF TypeOK, Purge
    <3>3. QED
      BY <2>1, <3>2 DEF HandlerOK, Ages, Cookies
  <2>3. QED
    BY <1>2, <2>1, <2>2 DEF TypeOK, Ages, Purge
<1>3. ASSUME NEW u \in Users, Disable(u)
      PROVE  TypeOK'
  BY <1>3 DEF TypeOK, Disable, HandlerOK
<1>4. QED
  BY <1>1, <1>2, <1>3 DEF Environment

LEMMA AskTyped ==
  ASSUME TypeOK, NEW r \in Requests, Ask(r)
  PROVE  TypeOK'
<1>1. PICK b \in Browsers : SendRefresh(r, b) \/ SendLogin(r, b) \/ SendLogout(r, b)
  BY DEF Ask
<1>2. jar[b] \in Cookies \cup {NoCookie}
  BY DEF TypeOK
<1>3. \E op \in Ops, c \in Cookies \cup {NoCookie} : Send(r, b, op, c)
  BY <1>1, <1>2 DEF SendRefresh, SendLogin, SendLogout, Ops
<1>4. QED
  BY <1>3, QuietTyped DEF Send, Quiet

\* The steps of a handler that touch nothing but the handler.
LEMMA QuietServes ==
  ASSUME TypeOK, NEW r \in Requests,
         \/ LoginRefused(r) \/ LoginAllowed(r)
         \/ RefuseRefresh(r) \/ RefuseRace(r) \/ DetectReplay(r) \/ AcceptCurrent(r)
         \/ CheckAccount(r) \/ LogoutNoop(r) \/ LogoutResolved(r)
         \/ RevokedAll(r) \/ RevokeFails(r) \/ Crash(r)
  PROVE  /\ Quiet /\ ~At(r, "idle")
         /\ \/ Finish(r)
            \/ Answer(r, NoCookie)
            \/ AnswerFailure(r)
            \/ Goto(r, "create")
            \/ \E pc \in {"entitle", "rotate", "revoke", "revokeAll"} :
                 Goto(r, pc) /\ (Addresses(r) \/ At(r, "entitle"))
<1>1. CASE LoginRefused(r) \/ LoginAllowed(r)
  BY <1>1 DEF LoginRefused, LoginAllowed, Quiet, At
<1>2. CASE RefuseRefresh(r) \/ RefuseRace(r) \/ DetectReplay(r) \/ AcceptCurrent(r)
  BY <1>2 DEF RefuseRefresh, RefuseRace, DetectReplay, AcceptCurrent, Arrived, Quiet, At
<1>3. CASE CheckAccount(r)
  BY <1>3 DEF CheckAccount, Quiet, At
<1>4. CASE LogoutNoop(r) \/ LogoutResolved(r)
  BY <1>4 DEF LogoutNoop, LogoutResolved, Arrived, Resolves, Quiet, At
<1>5. CASE RevokedAll(r) \/ RevokeFails(r) \/ Crash(r)
  BY <1>5 DEF RevokedAll, RevokeFails, Crash, Quiet, At
<1>6. QED
  BY <1>1, <1>2, <1>3, <1>4, <1>5

LEMMA StepTyped == TypeOK /\ [Next]_vars => TypeOK'
<1>1. SUFFICES ASSUME TypeOK, [Next]_vars PROVE TypeOK'
  OBVIOUS
<1>2. CASE UNCHANGED vars
  BY <1>1, <1>2 DEF TypeOK, HandlerOK, vars
<1>3. CASE Environment
  BY <1>1, <1>3, EnvironmentTyped
<1>4. ASSUME NEW r \in Requests,
             Ask(r) \/ Serve(r) \/ RevokeFails(r) \/ Crash(r) \/ Deliver(r) \/ Vanish(r)
      PROVE  TypeOK'
  <2>1. CASE Ask(r)
    BY <1>1, <2>1, AskTyped
  <2>2. CASE RevokeAll(r)
    <3>1. sessions' = sessions
      BY <2>2 DEF RevokeAll
    <3>2. /\ req' \in [Requests -> Handlers] /\ HandlerOK(req[r])'
          /\ \A q \in Requests \ {r} : req'[q] = req[q]
      BY <1>1, <2>2, RevokeAllMoves
    <3>3. QED
      BY <1>1, <2>2, <3>1, <3>2, MoveTyped DEF RevokeAll, TypeOK
  <2>3. CASE RevokeNext(r)
    BY <1>1, <2>3, RevokeNextMoves, RevokeWrites, AgesTyped DEF RevokeNext
  <2>4. CASE \/ CreateSession(r) \/ Rotate(r) \/ Revoke(r) \/ Deliver(r) \/ Vanish(r)
    BY <1>1, <2>4, CreateTyped, RotateTyped, RevokeTyped, DeliverTyped
  <2>5. CASE ~Ask(r) /\ ~RevokeAll(r) /\ ~RevokeNext(r) /\ ~Rotate(r) /\ ~CreateSession(r)
             /\ ~Revoke(r) /\ ~Deliver(r) /\ ~Vanish(r)
    BY <1>1, <1>4, <2>5, QuietServes, QuietTyped DEF Serve
  <2>6. QED
    BY <2>1, <2>2, <2>3, <2>4, <2>5
<1>5. QED
  BY <1>1, <1>2, <1>3, <1>4 DEF Next

\* Every handler and every session keeps its type, and a handler that has
\* addressed a session goes on with one that was created.
THEOREM TypeCorrect == Spec => []TypeOK
<1>1. Init => TypeOK
  BY InitTyped
<1>2. TypeOK /\ [Next]_vars => TypeOK'
  BY StepTyped
<1>3. QED
  BY <1>1, <1>2, PTL DEF Spec

----------------------------------------------------------------------------
(* How secrets circulate.                                                  *)

\* A request carries a cookie back only in its answer.
Carried == \A r \in Requests : ~At(r, "reply") => req[r].reply = NoCookie

\* A step that issues no secret and delivers none.
Settles ==
  /\ \A s \in Sids : Ages(s)
  /\ \A q \in Requests :
       /\ \/ req'[q].cookie \in {req[q].cookie, NoCookie}
          \/ \E b \in Browsers : req'[q].cookie = jar[b]
       /\ req'[q].reply = req[q].reply
  /\ UNCHANGED <<jar, estranged, late>>

\* The answer of r brings the first or the next secret of session s.
Issues(r, s) ==
  /\ req'[r].cookie = req[r].cookie
  /\ req'[r].reply = [sid |-> s, n |-> sessions'[s].current]
  /\ req[r].reply = NoCookie
  /\ \A q \in Requests \ {r} : req'[q] = req[q]
  /\ \/ Begins(s) /\ UNCHANGED late
     \/ /\ Rotates(s) /\ At(r, "rotate") /\ Presented(r) = CurrentCookie(s)
        /\ late' = [late EXCEPT ![s] = IF Ended(s) THEN @ + 1 ELSE @]
  /\ \A q \in Sids \ {s} : sessions'[q] = sessions[q]
  /\ UNCHANGED <<disabled, jar, now, estranged>>

LEMMA UnchangedAges == ASSUME sessions' = sessions PROVE \A s \in Sids : Ages(s)
BY DEF Ages

LEMMA QuietSettles ==
  ASSUME TypeOK, Carried, NEW r \in Requests,
         \/ LoginRefused(r) \/ LoginAllowed(r)
         \/ RefuseRefresh(r) \/ RefuseRace(r) \/ DetectReplay(r) \/ AcceptCurrent(r)
         \/ CheckAccount(r) \/ LogoutNoop(r) \/ LogoutResolved(r)
         \/ RevokedAll(r) \/ RevokeFails(r) \/ Crash(r)
  PROVE  Settles /\ Carried'
<1>1. /\ Quiet /\ (\A s \in Sids : Ages(s)) /\ Idle.cookie = NoCookie
      /\ Idle.reply = NoCookie
  BY QuietServes, UnchangedAges DEF Quiet, Idle
<1>2. ~At(r, "reply")
  BY DEF LoginRefused, LoginAllowed, RefuseRefresh, RefuseRace, DetectReplay, AcceptCurrent,
         CheckAccount, LogoutNoop, LogoutResolved, RevokedAll, RevokeFails, Crash, Arrived,
         Answered, At
<1>3. req[r].reply = NoCookie
  BY <1>2 DEF Carried
<1>4. /\ req'[r].cookie \in {req[r].cookie, NoCookie}
      /\ req'[r].reply = NoCookie
      /\ \A q \in Requests \ {r} : req'[q] = req[q]
  <2>1. CASE Finish(r)
    BY <1>1, <2>1, FinishMoves
  <2>2. CASE Answer(r, NoCookie)
    BY <2>2, AnswerMoves
  <2>3. CASE AnswerFailure(r)
    BY <1>3, <2>3, AnswerFailureMoves
  <2>4. ASSUME NEW pc \in {"create", "entitle", "rotate", "revoke", "revokeAll"}, Goto(r, pc)
        PROVE  /\ req'[r].cookie \in {req[r].cookie, NoCookie}
               /\ req'[r].reply = NoCookie
               /\ \A q \in Requests \ {r} : req'[q] = req[q]
    BY <1>3, <2>4, GotoMoves DEF Pcs
  <2>5. QED
    BY <2>1, <2>2, <2>3, <2>4, QuietServes
<1>5. QED
  BY <1>1, <1>3, <1>4 DEF Settles, Carried, Quiet, At

LEMMA AskSettles ==
  ASSUME TypeOK, Carried, NEW r \in Requests, Ask(r)
  PROVE  Settles /\ Carried'
<1>1. PICK b \in Browsers : SendRefresh(r, b) \/ SendLogin(r, b) \/ SendLogout(r, b)
  BY DEF Ask
<1>2. jar[b] \in Cookies \cup {NoCookie}
  BY DEF TypeOK
<1>3. PICK op \in Ops, c \in {NoCookie, jar[b]} : Send(r, b, op, c)
  BY <1>1 DEF SendRefresh, SendLogin, SendLogout, Ops
<1>4. /\ req'[r].cookie = c /\ req'[r].reply = NoCookie
      /\ \A q \in Requests \ {r} : req'[q] = req[q]
  BY <1>2, <1>3, SendMoves
<1>5. req[r].reply = NoCookie /\ \A s \in Sids : Ages(s)
  BY <1>3, UnchangedAges DEF Send, Carried, At
<1>6. QED
  BY <1>3, <1>4, <1>5 DEF Settles, Carried, At, Send

LEMMA RevokingSettles ==
  ASSUME TypeOK, Carried, NEW r \in Requests, Revoke(r) \/ RevokeAll(r) \/ RevokeNext(r)
  PROVE  Settles /\ Carried'
<1>1. req[r].reply = NoCookie
  BY DEF Carried, Revoke, RevokeAll, RevokeNext, At
<1>2. CASE Revoke(r)
  <2>1. /\ Answer(r, NoCookie) /\ Presented(r).sid \in Sids
        /\ sessions' = WithRevoked(Presented(r).sid)
    BY <1>2, AddressedSession DEF Revoke, At
  <2>2. /\ req'[r].cookie = req[r].cookie /\ req'[r].reply = NoCookie
        /\ \A q \in Requests \ {r} : req'[q] = req[q]
    BY <2>1, AnswerMoves
  <2>3. \A s \in Sids : Ages(s)
    BY <2>1, RevokeWrites
  <2>4. QED
    BY <1>1, <1>2, <2>2, <2>3 DEF Settles, Carried, At, Revoke
<1>3. CASE RevokeAll(r)
  <2>1. /\ req'[r].cookie = req[r].cookie /\ req'[r].reply = NoCookie
        /\ \A q \in Requests \ {r} : req'[q] = req[q]
    BY <1>1, <1>3, RevokeAllMoves
  <2>2. \A s \in Sids : Ages(s)
    BY <1>3, UnchangedAges DEF RevokeAll
  <2>3. QED
    BY <1>1, <1>3, <2>1, <2>2 DEF Settles, Carried, At, RevokeAll
<1>4. CASE RevokeNext(r)
  <2>1. /\ req'[r].cookie = req[r].cookie /\ req'[r].reply = NoCookie
        /\ \A q \in Requests \ {r} : req'[q] = req[q]
        /\ \E s \in Sids : sessions' = WithRevoked(s)
    BY <1>1, <1>4, RevokeNextMoves
  <2>2. \A s \in Sids : Ages(s)
    BY <2>1, RevokeWrites
  <2>3. QED
    BY <1>1, <1>4, <2>1, <2>2 DEF Settles, Carried, At, RevokeNext
<1>5. QED
  BY <1>2, <1>3, <1>4

LEMMA CreateIssues ==
  ASSUME TypeOK, Carried, NEW r \in Requests, CreateSession(r)
  PROVE  (\E s \in Sids : Issues(r, s)) /\ Carried'
<1>1. PICK s \in Sids : /\ Begins(s)
                        /\ Answer(r, [sid |-> s, n |-> 0])
                        /\ \A q \in Sids \ {s} : sessions'[q] = sessions[q]
  BY CreateWrites
<1>2. [sid |-> s, n |-> 0] \in Cookies
  BY DEF Cookies
<1>3. /\ req'[r].cookie = req[r].cookie /\ req'[r].reply = [sid |-> s, n |-> 0]
      /\ req'[r].pc = "reply"
      /\ \A q \in Requests \ {r} : req'[q] = req[q]
  BY <1>1, <1>2, AnswerMoves
<1>4. req[r].reply = NoCookie /\ UNCHANGED <<disabled, jar, now, estranged, late>>
  BY DEF CreateSession, Carried, At
<1>5. sessions'[s].current = 0
  BY <1>1 DEF Begins
<1>6. Issues(r, s)
  BY <1>1, <1>3, <1>4, <1>5 DEF Issues
<1>7. QED
  BY <1>3, <1>6 DEF Carried, At

LEMMA RotateIssues ==
  ASSUME TypeOK, Carried, NEW r \in Requests, Rotate(r)
  PROVE  (Settles \/ \E s \in Sids : Issues(r, s)) /\ Carried'
<1> DEFINE s == Presented(r).sid
<1>1. /\ Presented(r) \in Cookies /\ s \in Sids /\ req[r].reply = NoCookie
      /\ sessions[s] \in Session
  BY AddressedSession DEF Rotate, Carried, At, TypeOK
<1>2. CASE ~(Stored(s) /\ IsCurrent(s, Presented(r).n))
  <2>1. Finish(r) /\ Quiet /\ \A q \in Sids : Ages(q)
    BY <1>2, UnchangedAges DEF Rotate, Quiet
  <2>2. /\ req'[r].cookie = NoCookie /\ req'[r].reply = NoCookie
        /\ \A q \in Requests \ {r} : req'[q] = req[q]
    BY <2>1, FinishMoves DEF Idle
  <2>3. QED
    BY <1>1, <2>1, <2>2 DEF Settles, Carried, At, Quiet
<1>3. CASE Stored(s) /\ IsCurrent(s, Presented(r).n)
  <2>1. /\ sessions' = [sessions EXCEPT ![s] = Rotated(s)]
        /\ late' = [late EXCEPT ![s] = IF Ended(s) THEN @ + 1 ELSE @]
        /\ Answer(r, [sid |-> s, n |-> sessions[s].current + 1])
        /\ UNCHANGED <<disabled, jar, now, estranged>>
    BY <1>3 DEF Rotate
  <2>2. Rotates(s) /\ \A q \in Sids \ {s} : sessions'[q] = sessions[q]
    BY <1>1, <1>3, <2>1, RotateWrites
  <2>3. [sid |-> s, n |-> sessions[s].current + 1] \in Cookies
    BY <1>1 DEF Cookies, Session
  <2>4. /\ req'[r].cookie = req[r].cookie
        /\ req'[r].reply = [sid |-> s, n |-> sessions[s].current + 1]
        /\ req'[r].pc = "reply"
        /\ \A q \in Requests \ {r} : req'[q] = req[q]
    BY <2>1, <2>3, AnswerMoves
  <2>5. sessions'[s].current = sessions[s].current + 1
    BY <2>2 DEF Rotates
  <2>6. Presented(r) = CurrentCookie(s)
    BY <1>1, <1>3 DEF CurrentCookie, IsCurrent, Cookies
  <2>7. Issues(r, s)
    BY <1>1, <2>1, <2>2, <2>4, <2>5, <2>6 DEF Issues, Rotate
  <2>8. QED
    BY <1>1, <2>4, <2>7 DEF Carried, At
<1>4. QED
  BY <1>2, <1>3

LEMMA StepKinds ==
  ASSUME TypeOK, Carried, [Next]_vars
  PROVE  /\ Carried'
         /\ \/ Settles
            \/ \E r \in Requests, s \in Sids : Issues(r, s)
            \/ \E r \in Requests : Deliver(r) \/ Vanish(r)
<1>1. CASE UNCHANGED vars
  BY <1>1, UnchangedAges DEF Settles, Carried, vars, At
<1>2. CASE Environment
  <2>1. \A s \in Sids : Ages(s)
    BY <1>2, UnchangedAges, PurgeWrites DEF Environment, Tick, Disable
  <2>2. UNCHANGED <<req, jar, estranged, late>>
    BY <1>2 DEF Environment, Tick, Purge, Disable
  <2>3. QED
    BY <2>1, <2>2 DEF Settles, Carried, At
<1>3. ASSUME NEW r \in Requests,
             Ask(r) \/ Serve(r) \/ RevokeFails(r) \/ Crash(r)
      PROVE  Carried' /\ (Settles \/ \E q \in Requests, s \in Sids : Issues(q, s))
  BY <1>3, AskSettles, QuietSettles, RevokingSettles, CreateIssues, RotateIssues DEF Serve
<1>4. ASSUME NEW r \in Requests, Deliver(r) \/ Vanish(r)
      PROVE  Carried'
  <2>1. req'[r] = Idle /\ \A q \in Requests \ {r} : req'[q] = req[q]
    BY <1>4, FinishMoves DEF Deliver, Vanish
  <2>2. QED
    BY <2>1 DEF Carried, At, Idle
<1>5. QED
  BY <1>1, <1>2, <1>3, <1>4 DEF Next

\* A cookie in a jar, or attached to a request.
Held(c) == (\E b \in Browsers : jar[b] = c) \/ (\E r \in Requests : req[r].cookie = c)

\* Nobody holds a secret its session has not issued, and an answer on its way
\* brings the only copy of the current one.
HeldIssued ==
  \A c \in Cookies : Held(c) =>
    sessions[c.sid].state # "none" /\ c.n <= sessions[c.sid].current

AnswersAreNews ==
  \A r \in Requests : req[r].reply \in Cookies =>
    LET c == req[r].reply
    IN  /\ sessions[c.sid].state # "none"
        /\ c.n = sessions[c.sid].current
        /\ \A q \in Requests : req[q].reply \in Cookies /\ req[q].reply.sid = c.sid => q = r
        /\ \A d \in Cookies : Held(d) /\ d.sid = c.sid => d.n < c.n

Circulation == Carried /\ HeldIssued /\ AnswersAreNews

\* What the three kinds of step do to the cookies that are held and carried.
LEMMA SettledCookies ==
  ASSUME Settles, NEW c \in Cookies, Held(c)'
  PROVE  Held(c)
BY SessionsAssumption DEF Settles, Held

LEMMA IssuedCookies ==
  ASSUME NEW r \in Requests, NEW s \in Sids, Issues(r, s)
  PROVE  /\ \A c \in Cookies : Held(c)' <=> Held(c)
         /\ \A q \in Requests \ {r} : req'[q].reply = req[q].reply
BY DEF Issues, Held

LEMMA DeliveredCookies ==
  ASSUME TypeOK, NEW r \in Requests, Deliver(r) \/ Vanish(r)
  PROVE  /\ \A c \in Cookies : Held(c)' => Held(c) \/ (Deliver(r) /\ c = req[r].reply)
         /\ req'[r].reply = NoCookie
         /\ \A q \in Requests \ {r} : req'[q].reply = req[q].reply
<1>1. /\ req'[r] = Idle /\ (\A q \in Requests \ {r} : req'[q] = req[q])
      /\ Idle.cookie = NoCookie /\ Idle.reply = NoCookie
  BY FinishMoves DEF Deliver, Vanish, Idle
<1>2. \A b \in Browsers : \/ jar'[b] = jar[b]
                          \/ Deliver(r) /\ jar'[b] = req[r].reply
  BY DEF Deliver, Vanish, TypeOK
<1>3. QED
  BY <1>1, <1>2, SessionsAssumption DEF Held

LEMMA CirculationSettles ==
  ASSUME TypeOK, Circulation, Carried', Settles
  PROVE  Circulation'
<1>1. HeldIssued'
  <2>1. SUFFICES ASSUME NEW c \in Cookies, Held(c)'
                 PROVE  sessions'[c.sid].state # "none" /\ c.n <= sessions'[c.sid].current
    BY DEF HeldIssued
  <2>2. c.sid \in Sids /\ sessions[c.sid].state # "none" /\ c.n <= sessions[c.sid].current
    BY <2>1, SettledCookies DEF Circulation, HeldIssued, Cookies
  <2>3. QED
    BY <2>2 DEF Settles, Ages
<1>2. AnswersAreNews'
  <2>1. SUFFICES ASSUME NEW r \in Requests, req'[r].reply \in Cookies
                 PROVE  LET c == req'[r].reply
                        IN  /\ sessions'[c.sid].state # "none"
                            /\ c.n = sessions'[c.sid].current
                            /\ \A q \in Requests :
                                 req'[q].reply \in Cookies /\ req'[q].reply.sid = c.sid => q = r
                            /\ \A d \in Cookies : Held(d)' /\ d.sid = c.sid => d.n < c.n
    BY DEF AnswersAreNews
  <2>2. \A q \in Requests : req'[q].reply = req[q].reply
    BY DEF Settles
  <2>3. req[r].reply.sid \in Sids /\ Ages(req[r].reply.sid)
    BY <2>1, <2>2 DEF Settles, Cookies
  <2>4. QED
    BY <2>1, <2>2, <2>3, SettledCookies DEF Circulation, AnswersAreNews, Ages
<1>3. QED
  BY <1>1, <1>2 DEF Circulation

\* Before an issue nobody holds the secret it brings.
LEMMA NewsToAll ==
  ASSUME TypeOK, Circulation, NEW r \in Requests, NEW s \in Sids, Issues(r, s)
  PROVE  /\ sessions'[s].state # "none"
         /\ \A c \in Cookies : Held(c) /\ c.sid = s =>
              /\ sessions[s].state # "none" /\ c.n < sessions'[s].current
         /\ \A q \in Requests : req[q].reply \in Cookies => req[q].reply.sid # s
<1>1. CASE Begins(s)
  BY <1>1 DEF Circulation, HeldIssued, AnswersAreNews, Begins
<1>2. CASE Rotates(s) /\ Presented(r) = CurrentCookie(s)
  <2>1. sessions[s].current \in Nat /\ sessions'[s].current = sessions[s].current + 1
    BY <1>2 DEF TypeOK, Session, Rotates
  <2>2. CurrentCookie(s) \in Cookies /\ Held(CurrentCookie(s))
    BY <1>2, <2>1 DEF CurrentCookie, Cookies, Held, Presented
  <2>3. \A q \in Requests : req[q].reply \in Cookies => req[q].reply.sid # s
    BY <2>1, <2>2 DEF Circulation, AnswersAreNews, CurrentCookie, Cookies
  <2>4. \A c \in Cookies : Held(c) /\ c.sid = s => c.n < sessions'[s].current
    BY <2>1 DEF Circulation, HeldIssued, Cookies
  <2>5. QED
    BY <1>2, <2>3, <2>4 DEF Rotates, Stored
<1>3. QED
  BY <1>1, <1>2 DEF Issues

LEMMA CirculationIssues ==
  ASSUME TypeOK, TypeOK', Circulation, Carried',
         NEW r \in Requests, NEW s \in Sids, Issues(r, s)
  PROVE  Circulation'
<1>1. /\ req'[r].reply = [sid |-> s, n |-> sessions'[s].current]
      /\ \A q \in Sids \ {s} : sessions'[q] = sessions[q]
      /\ sessions'[s].current \in Nat
  BY DEF Issues, TypeOK, Session
<1>2. HeldIssued'
  <2>1. SUFFICES ASSUME NEW c \in Cookies, Held(c)'
                 PROVE  sessions'[c.sid].state # "none" /\ c.n <= sessions'[c.sid].current
    BY DEF HeldIssued
  <2>2. Held(c) /\ c.sid \in Sids /\ c.n \in Nat
    BY <2>1, IssuedCookies DEF Cookies
  <2>3. CASE c.sid = s
    BY <1>1, <2>2, <2>3, NewsToAll
  <2>4. CASE c.sid # s
    BY <1>1, <2>2, <2>4 DEF Circulation, HeldIssued
  <2>5. QED
    BY <2>3, <2>4
<1>3. AnswersAreNews'
  <2>1. SUFFICES ASSUME NEW q \in Requests, req'[q].reply \in Cookies
                 PROVE  LET c == req'[q].reply
                        IN  /\ sessions'[c.sid].state # "none"
                            /\ c.n = sessions'[c.sid].current
                            /\ \A p \in Requests :
                                 req'[p].reply \in Cookies /\ req'[p].reply.sid = c.sid => p = q
                            /\ \A d \in Cookies : Held(d)' /\ d.sid = c.sid => d.n < c.n
    BY DEF AnswersAreNews
  <2>2. CASE q = r
    BY <1>1, <2>2, NewsToAll, IssuedCookies
  <2>3. CASE q # r
    <3>1. req'[q].reply = req[q].reply /\ req[q].reply \in Cookies
      BY <2>1, <2>3, IssuedCookies
    <3>2. req[q].reply.sid \in Sids \ {s}
      BY <3>1, NewsToAll DEF Cookies
    <3>3. QED
      BY <1>1, <3>1, <3>2, IssuedCookies DEF Circulation, AnswersAreNews
  <2>4. QED
    BY <2>2, <2>3
<1>4. QED
  BY <1>2, <1>3 DEF Circulation

LEMMA CirculationDelivers ==
  ASSUME TypeOK, Circulation, Carried', NEW r \in Requests, Deliver(r) \/ Vanish(r)
  PROVE  Circulation'
<1>1. sessions' = sessions
  BY DEF Deliver, Vanish
<1>2. HeldIssued'
  <2>1. SUFFICES ASSUME NEW c \in Cookies, Held(c)'
                 PROVE  sessions'[c.sid].state # "none" /\ c.n <= sessions'[c.sid].current
    BY DEF HeldIssued
  <2>2. CASE Held(c)
    BY <1>1, <2>2 DEF Circulation, HeldIssued
  <2>3. CASE c = req[r].reply
    BY <1>1, <2>3 DEF Circulation, AnswersAreNews, Cookies
  <2>4. QED
    BY <2>1, <2>2, <2>3, DeliveredCookies
<1>3. AnswersAreNews'
  <2>1. SUFFICES ASSUME NEW q \in Requests, req'[q].reply \in Cookies
                 PROVE  LET c == req'[q].reply
                        IN  /\ sessions'[c.sid].state # "none"
                            /\ c.n = sessions'[c.sid].current
                            /\ \A p \in Requests :
                                 req'[p].reply \in Cookies /\ req'[p].reply.sid = c.sid => p = q
                            /\ \A d \in Cookies : Held(d)' /\ d.sid = c.sid => d.n < c.n
    BY DEF AnswersAreNews
  <2>2. q # r /\ req'[q].reply = req[q].reply
    BY <2>1, DeliveredCookies, SessionsAssumption
  <2>3. \A d \in Cookies : Held(d)' /\ d.sid = req[q].reply.sid => Held(d)
    <3>1. req[r].reply \in Cookies => req[r].reply.sid # req[q].reply.sid
      BY <2>1, <2>2 DEF Circulation, AnswersAreNews
    <3>2. QED
      BY <3>1, DeliveredCookies
  <2>4. \A p \in Requests : req'[p].reply \in Cookies => req'[p].reply = req[p].reply
    BY DeliveredCookies, SessionsAssumption
  <2>5. QED
    BY <1>1, <2>1, <2>2, <2>3, <2>4 DEF Circulation, AnswersAreNews
<1>4. QED
  BY <1>2, <1>3 DEF Circulation

LEMMA CirculationStep ==
  ASSUME TypeOK, Circulation, [Next]_vars
  PROVE  Circulation'
BY StepTyped, StepKinds, CirculationSettles, CirculationIssues, CirculationDelivers
   DEF Circulation

\* What any step does to a session, to the clock and to the accounts.
LEMMA StepAges ==
  ASSUME TypeOK, Carried, [Next]_vars, NEW s \in Sids
  PROVE  /\ Ages(s) \/ Rotates(s) \/ Begins(s)
         /\ disabled \subseteq disabled' /\ now' \in Nat /\ now <= now'
<1>1. /\ \A q \in Sids : sessions'[q] = sessions[q] => Ages(q)
      /\ now \in Nat
  BY DEF Ages, TypeOK
<1>2. Ages(s) \/ Rotates(s) \/ Begins(s)
  BY <1>1, StepKinds DEF Settles, Issues, Deliver, Vanish
<1>3. CASE Environment \/ UNCHANGED vars
  BY <1>1, <1>2, <1>3 DEF Environment, Tick, Purge, Disable, vars
<1>4. CASE \E r \in Requests :
             Ask(r) \/ Serve(r) \/ RevokeFails(r) \/ Crash(r) \/ Deliver(r) \/ Vanish(r)
  <2>1. UNCHANGED <<disabled, now>>
    BY <1>4 DEF Ask, SendRefresh, SendLogin, SendLogout, Send, Serve, LoginRefused,
       LoginAllowed, CreateSession, RefuseRefresh, RefuseRace, DetectReplay, AcceptCurrent,
       CheckAccount, Rotate, LogoutNoop, LogoutResolved, Revoke, RevokeAll, RevokeNext,
       RevokedAll, RevokeFails, Crash, Deliver, Vanish
  <2>2. QED
    BY <1>1, <1>2, <2>1
<1>5. QED
  BY <1>3, <1>4 DEF Next

\* What has ended stays so: a session that was created is not created again.
LEMMA EndsStay ==
  ASSUME TypeOK, TypeOK', Carried, [Next]_vars, NEW s \in Sids, sessions[s].state # "none"
  PROVE  /\ sessions'[s].state # "none"
         /\ sessions'[s].user = sessions[s].user
         /\ sessions[s].current <= sessions'[s].current
         /\ ~Live(s) => ~Live(s)'
         /\ ~Usable(s) => ~Usable(s)'
         /\ Ended(s) => Ended(s)'
<1>1. /\ sessions[s] \in Session /\ sessions'[s] \in Session
      /\ now \in Nat /\ now' \in Nat /\ now <= now' /\ disabled \subseteq disabled'
      /\ Ages(s) \/ Rotates(s)
  BY StepAges DEF TypeOK, Begins
<1>2. /\ sessions'[s].state # "none"
      /\ sessions'[s].user = sessions[s].user
      /\ sessions'[s].expiresAt = sessions[s].expiresAt
      /\ sessions[s].current <= sessions'[s].current
      /\ ~Live(s) => ~Live(s)'
      /\ sessions[s].expiresAt \in Nat
  BY <1>1 DEF Ages, Rotates, Session, Live, Stored
<1>3. QED
  BY <1>1, <1>2 DEF Usable, Ended

----------------------------------------------------------------------------
(* Rotation never orphans a session.                                       *)

LEMMA OrphansSettle ==
  ASSUME TypeOK, TypeOK', Circulation, Carried', [Next]_vars,
         RotationNeverOrphans, Settles
  PROVE  RotationNeverOrphans'
<1>1. SUFFICES ASSUME NEW s \in Sids, Usable(s)', s \notin estranged'
               PROVE  \/ \E b \in Browsers : jar'[b] = CurrentCookie(s)'
                      \/ \E r \in Requests : Answered(r)' /\ req'[r].reply = CurrentCookie(s)'
  BY DEF RotationNeverOrphans
<1>2. Ages(s) /\ CurrentCookie(s)' = CurrentCookie(s)
  BY DEF Settles, Ages, CurrentCookie
<1>3. Usable(s)
  BY <1>1, <1>2, EndsStay DEF Ages, Circulation, Usable, Live, Stored
<1>4. CASE \E b \in Browsers : jar[b] = CurrentCookie(s)
  BY <1>2, <1>4 DEF Settles
<1>5. CASE \E r \in Requests : req[r].reply = CurrentCookie(s)
  <2>1. PICK r \in Requests : req[r].reply = CurrentCookie(s)
    BY <1>5
  <2>2. req'[r].reply = CurrentCookie(s) /\ req[r].reply # NoCookie
    BY <2>1, SessionsAssumption DEF Settles, CurrentCookie, Cookies, TypeOK, Session
  <2>3. Answered(r)'
    BY <2>1, <2>2 DEF Carried, Answered, At
  <2>4. QED
    BY <1>2, <2>2, <2>3
<1>6. QED
  BY <1>1, <1>3, <1>4, <1>5 DEF RotationNeverOrphans, Settles

LEMMA OrphansIssue ==
  ASSUME TypeOK, TypeOK', Circulation, Carried', RotationNeverOrphans,
         NEW r \in Requests, NEW i \in Sids, Issues(r, i)
  PROVE  RotationNeverOrphans'
<1>1. SUFFICES ASSUME NEW s \in Sids, Usable(s)', s \notin estranged'
               PROVE  \/ \E b \in Browsers : jar'[b] = CurrentCookie(s)'
                      \/ \E q \in Requests : Answered(q)' /\ req'[q].reply = CurrentCookie(s)'
  BY DEF RotationNeverOrphans
<1>2. \A q \in Requests : req'[q].reply = CurrentCookie(s)' => Answered(q)'
  <2>1. sessions'[s].current \in Nat
    BY DEF TypeOK, Session
  <2>2. CurrentCookie(s)' # NoCookie
    BY <2>1, SessionsAssumption DEF CurrentCookie, Cookies
  <2>3. QED
    BY <2>2 DEF Carried, Answered, At
<1>3. CASE s = i
  BY <1>2, <1>3 DEF Issues, CurrentCookie
<1>4. CASE s # i
  <2>1. sessions'[s] = sessions[s] /\ UNCHANGED <<jar, estranged, now>>
    BY <1>4 DEF Issues
  <2>2. CurrentCookie(s)' = CurrentCookie(s) /\ Usable(s) /\ s \notin estranged
    BY <1>1, <2>1 DEF CurrentCookie, Usable, Live
  <2>3. \A q \in Requests : req[q].reply = CurrentCookie(s) => q # r
    <3>1. sessions[s].current \in Nat
      BY DEF TypeOK, Session
    <3>2. CurrentCookie(s) # NoCookie
      BY <3>1, SessionsAssumption DEF CurrentCookie, Cookies
    <3>3. QED
      BY <3>2 DEF Issues
  <2>4. QED
    BY <1>2, <2>1, <2>2, <2>3, IssuedCookies DEF RotationNeverOrphans
<1>5. QED
  BY <1>3, <1>4

LEMMA OrphansDeliver ==
  ASSUME TypeOK, Circulation, RotationNeverOrphans,
         NEW r \in Requests, Deliver(r) \/ Vanish(r)
  PROVE  RotationNeverOrphans'
<1>1. SUFFICES ASSUME NEW s \in Sids, Usable(s)', s \notin estranged'
               PROVE  \/ \E b \in Browsers : jar'[b] = CurrentCookie(s)
                      \/ \E q \in Requests : Answered(q)' /\ req'[q].reply = CurrentCookie(s)
  BY DEF RotationNeverOrphans, CurrentCookie, Deliver, Vanish
<1>2. /\ Usable(s) /\ s \notin estranged /\ CurrentCookie(s) \in Cookies
      /\ req[r] \in Handlers /\ HandlerOK(req[r])
  BY <1>1 DEF Deliver, Vanish, Usable, Live, CurrentCookie, Cookies, TypeOK, Session
<1>3. \A q \in Requests \ {r} : req'[q] = req[q]
  BY FinishMoves DEF Deliver, Vanish
<1>4. CASE \E q \in Requests \ {r} : Answered(q) /\ req[q].reply = CurrentCookie(s)
  BY <1>3, <1>4 DEF Answered, At
<1>5. CASE req[r].reply = CurrentCookie(s)
  <2>1. Deliver(r)
    BY <1>1, <1>2, <1>5 DEF Vanish, CurrentCookie
  <2>2. BrowserAt(r) \in Browsers
    BY <1>2, <2>1 DEF Deliver, Answered, HandlerOK, At, BrowserAt
  <2>3. jar'[BrowserAt(r)] = CurrentCookie(s)
    BY <1>5, <2>1, <2>2 DEF Deliver, TypeOK
  <2>4. QED
    BY <2>2, <2>3
<1>6. ASSUME NEW b \in Browsers, jar[b] = CurrentCookie(s)
      PROVE  jar'[b] = CurrentCookie(s)
  <2>1. CASE Vanish(r) \/ b # BrowserAt(r)
    BY <1>6, <2>1 DEF Deliver, Vanish, TypeOK
  <2>2. CASE Deliver(r) /\ b = BrowserAt(r)
    <3>1. s \notin GivenUp(b, req[r].reply)
      BY <1>1, <2>2 DEF Deliver
    <3>2. jar[b] # NoCookie /\ jar[b].sid = s
      BY <1>2, <1>6, SessionsAssumption DEF CurrentCookie
    <3>3. req[r].reply # NoCookie /\ req[r].reply.sid = s
      BY <3>1, <3>2 DEF GivenUp
    <3>4. req[r].reply \in Cookies /\ req[r].reply.n = sessions[s].current
      BY <1>2, <3>3 DEF Handlers, Circulation, AnswersAreNews
    <3>5. req[r].reply = CurrentCookie(s)
      BY <3>3, <3>4 DEF Cookies, CurrentCookie
    <3>6. QED
      BY <2>2, <3>5 DEF Deliver, TypeOK
  <2>3. QED
    BY <2>1, <2>2
<1>7. QED
  BY <1>2, <1>4, <1>5, <1>6 DEF RotationNeverOrphans

LEMMA InitCirculation == Init => Circulation
<1>1. SUFFICES ASSUME Init PROVE Circulation
  OBVIOUS
<1>2. /\ \A r \in Requests : req[r].cookie = NoCookie /\ req[r].reply = NoCookie
      /\ \A b \in Browsers : jar[b] = NoCookie
  BY <1>1 DEF Init, Idle
<1>3. QED
  BY <1>2, SessionsAssumption DEF Circulation, Carried, HeldIssued, AnswersAreNews, Held

\* The swap of a rotation takes the one copy of the current secret that is at
\* large and answers with the next one, so that no interleaving of the tabs of
\* a browser strands the session they share.
THEOREM NothingOrphaned == Spec => []RotationNeverOrphans
<1> DEFINE IInv == TypeOK /\ Circulation /\ RotationNeverOrphans
<1>1. Init => IInv
  BY InitTyped, InitCirculation DEF Init, RotationNeverOrphans, Usable, Live
<1>2. IInv /\ [Next]_vars => IInv'
  BY StepTyped, StepKinds, CirculationStep, OrphansSettle, OrphansIssue, OrphansDeliver
     DEF Circulation
<1>3. QED
  BY <1>1, <1>2, PTL DEF Spec

----------------------------------------------------------------------------
(* An ended session rotates at most once.                                  *)

Acts(r) == Ask(r) \/ Serve(r) \/ RevokeFails(r) \/ Crash(r) \/ Deliver(r) \/ Vanish(r)

\* One request moves at a time.
LEMMA OthersStay ==
  ASSUME TypeOK, [Next]_vars, NEW q \in Requests, req'[q] # req[q]
  PROVE  Acts(q)
<1>1. PICK r \in Requests : Acts(r)
  BY DEF Next, Environment, Tick, Purge, Disable, vars, Acts
<1>2. ASSUME Acts(r), q # r
      PROVE  req'[q] = req[q]
  BY <1>2 DEF TypeOK, Acts, Ask, SendRefresh, SendLogin, SendLogout, Send, Serve,
     LoginRefused, LoginAllowed, CreateSession, RefuseRefresh, RefuseRace, DetectReplay,
     AcceptCurrent, CheckAccount, Rotate, LogoutNoop, LogoutResolved, Revoke, RevokeAll,
     RevokeNext, RevokedAll, RevokeFails, Crash, Deliver, Vanish, Finish, Goto, Answer,
     AnswerFailure
<1>3. QED
  BY <1>1, <1>2

\* How a request comes to check the account, and from there to rotate.
LEMMA OnTheWayToRotate ==
  ASSUME TypeOK, NEW r \in Requests, Acts(r), req'[r].pc \in {"entitle", "rotate"}
  PROVE  /\ Presented(r) \in Cookies /\ req'[r].cookie = Presented(r)
         /\ \/ /\ At(r, "entitle")' /\ Usable(Presented(r).sid)
            \/ /\ At(r, "entitle")
               /\ sessions[Presented(r).sid].user \notin disabled
<1>1. ASSUME NEW pc \in Pcs, Goto(r, pc) 
      PROVE  req'[r].pc = pc /\ req'[r].cookie = req[r].cookie
  BY <1>1, GotoMoves
<1>2. ~Finish(r) /\ ~AnswerFailure(r) /\ \A c \in Cookies \cup {NoCookie} : ~Answer(r, c)
  BY FinishMoves, AnswerFailureMoves, AnswerMoves DEF Idle
<1>3. \A pc \in Pcs : Goto(r, pc) => pc \in {"entitle", "rotate"}
  BY <1>1
<1>4. CASE Ask(r)
  <2>1. \E b \in Browsers, op \in Ops : Send(r, b, op, NoCookie) \/ Send(r, b, op, jar[b])
    BY <1>4 DEF Ask, SendRefresh, SendLogin, SendLogout, Ops
  <2>2. \A b \in Browsers : jar[b] \in Cookies \cup {NoCookie}
    BY DEF TypeOK
  <2>3. QED
    BY <2>1, <2>2, SendMoves
<1>5. CASE AcceptCurrent(r)
  <2>1. Addresses(r) /\ Goto(r, "entitle")
    BY <1>5 DEF AcceptCurrent
  <2>2. Presented(r) \in Cookies /\ Usable(Presented(r).sid)
    BY <2>1, AddressedSession DEF Addresses
  <2>3. QED
    BY <1>1, <2>1, <2>2 DEF Presented, At, Pcs
<1>6. CASE CheckAccount(r)
  <2>1. Presented(r) \in Cookies
    BY <1>6, AddressedSession DEF CheckAccount, At
  <2>2. Goto(r, "rotate") /\ sessions[Presented(r).sid].user \notin disabled
    BY <1>3, <1>6 DEF CheckAccount, Pcs
  <2>3. QED
    BY <1>1, <1>6, <2>1, <2>2 DEF Presented, CheckAccount, Pcs
<1>7. CASE CreateSession(r) \/ Rotate(r)
  <2>1. /\ \A s \in Sids : [sid |-> s, n |-> 0] \in Cookies
        /\ \A s \in Sids : [sid |-> s, n |-> sessions[s].current + 1] \in Cookies
    BY DEF Cookies, TypeOK, Session
  <2>2. Rotate(r) => Presented(r).sid \in Sids
    BY AddressedSession DEF Rotate, At
  <2>3. QED
    BY <1>2, <1>7, <2>1, <2>2 DEF CreateSession, Rotate
<1>8. CASE LoginAllowed(r) \/ DetectReplay(r) \/ LogoutResolved(r)
  BY <1>3, <1>8 DEF LoginAllowed, DetectReplay, LogoutResolved, Pcs
<1>9. CASE RevokeAll(r) \/ RevokeNext(r)
  BY <1>9, RevokeAllMoves, RevokeNextMoves
<1>10. QED
  BY <1>2, <1>4, <1>5, <1>6, <1>7, <1>8, <1>9
     DEF Acts, Serve, LoginRefused, RefuseRefresh, RefuseRace, LogoutNoop, Revoke,
         RevokedAll, RevokeFails, Crash, Deliver, Vanish

\* A session that rotated after its end: nobody is left who could do so again.
LateOnce ==
  \A s \in Sids : late[s] # 0 =>
    /\ late[s] = 1 /\ sessions[s].state # "none" /\ Ended(s)
    /\ \A r \in Requests : Presented(r) = CurrentCookie(s) =>
         /\ ~At(r, "rotate")
         /\ At(r, "entitle") => sessions[s].user \in disabled

LEMMA LateRotation ==
  ASSUME TypeOK, TypeOK', Circulation, LateOnce, [Next]_vars,
         NEW r \in Requests, NEW s \in Sids, Issues(r, s), late'[s] # 0
  PROVE  /\ late'[s] = 1 /\ sessions'[s].state # "none" /\ Ended(s)'
         /\ \A q \in Requests : req'[q].cookie # CurrentCookie(s)'
<1>1. /\ ~Begins(s) /\ Rotates(s) /\ sessions[s].state # "none"
      /\ late' = [late EXCEPT ![s] = IF Ended(s) THEN @ + 1 ELSE @]
      /\ late[s] = 0
  BY DEF Issues, LateOnce, Begins, Rotates, Stored, Presented
<1>2. late'[s] = 1 /\ Ended(s)
  BY <1>1 DEF TypeOK
<1>3. Ended(s)' /\ sessions'[s].state # "none"
  BY <1>1, <1>2, EndsStay DEF Circulation
<1>4. ASSUME NEW q \in Requests, req'[q].cookie = CurrentCookie(s)'
      PROVE  FALSE
  <2>1. sessions'[s].current \in Nat
    BY DEF TypeOK, Session
  <2>2. CurrentCookie(s)' \in Cookies /\ CurrentCookie(s)'.sid = s
        /\ CurrentCookie(s)'.n = sessions'[s].current
    BY <2>1 DEF CurrentCookie, Cookies
  <2>3. \A c \in Cookies : req'[q].cookie = c => Held(c)
    BY IssuedCookies DEF Held
  <2>4. QED
    BY <1>4, <2>1, <2>2, <2>3, NewsToAll
<1>5. QED
  BY <1>2, <1>3, <1>4

LEMMA LateStep ==
  ASSUME TypeOK, TypeOK', Circulation, LateOnce, [Next]_vars
  PROVE  LateOnce'
<1>1. SUFFICES ASSUME NEW s \in Sids, late'[s] # 0
               PROVE  /\ late'[s] = 1 /\ sessions'[s].state # "none" /\ Ended(s)'
                      /\ \A r \in Requests : req'[r].cookie = CurrentCookie(s)' =>
                           /\ ~At(r, "rotate")'
                           /\ At(r, "entitle")' => sessions'[s].user \in disabled'
  BY DEF LateOnce, Presented
<1>2. CASE \E r \in Requests : Issues(r, s)
  BY <1>1, <1>2, LateRotation
<1>3. CASE ~\E r \in Requests : Issues(r, s)
  <2>1. /\ late'[s] = late[s]
        /\ Ages(s)
    <3>1. CASE Settles
      BY <3>1 DEF Settles
    <3>2. ASSUME NEW r \in Requests, NEW i \in Sids, Issues(r, i)
          PROVE  late'[s] = late[s] /\ sessions'[s] = sessions[s]
      BY <1>3, <3>2 DEF Issues, TypeOK
    <3>3. CASE late'[s] = late[s] /\ sessions'[s] = sessions[s]
      BY <3>3 DEF Ages
    <3>4. QED
      BY <3>1, <3>2, <3>3, StepKinds DEF Deliver, Vanish, Circulation
  <2>2. /\ late[s] = 1 /\ sessions[s].state # "none" /\ Ended(s)
        /\ CurrentCookie(s)' = CurrentCookie(s)
    BY <1>1, <2>1 DEF LateOnce, CurrentCookie, Ages
  <2>3. /\ sessions'[s].state # "none" /\ Ended(s)'
        /\ sessions'[s].user = sessions[s].user /\ disabled \subseteq disabled'
    BY <2>2, EndsStay, StepAges DEF Circulation
  <2>4. ASSUME NEW r \in Requests, req'[r].cookie = CurrentCookie(s),
               req'[r].pc \in {"entitle", "rotate"}
        PROVE  req'[r].pc = "entitle" /\ sessions[s].user \in disabled
    <3>1. CASE req'[r] = req[r]
      BY <2>2, <2>4, <3>1 DEF LateOnce, Presented, At
    <3>2. CASE req'[r] # req[r]
      <4>1. /\ Presented(r) = CurrentCookie(s) /\ CurrentCookie(s).sid = s
            /\ \/ At(r, "entitle")' /\ Usable(s)
               \/ At(r, "entitle") /\ sessions[s].user \notin disabled
        BY <2>4, <3>2, OthersStay, OnTheWayToRotate DEF CurrentCookie
      <4>2. ~(At(r, "entitle") /\ sessions[s].user \notin disabled)
        BY <2>2, <4>1 DEF LateOnce
      <4>3. Usable(s) => sessions[s].user \in disabled
        BY <2>2 DEF Ended, Usable, TypeOK, Session
      <4>4. QED
        BY <4>1, <4>2, <4>3 DEF At
    <3>3. QED
      BY <3>1, <3>2
  <2>5. QED
    BY <2>1, <2>2, <2>3, <2>4 DEF At
<1>4. QED
  BY <1>2, <1>3

\* Whatever is under way when a session ends, one more rotation is all it can
\* bring about.
THEOREM AtMostOneLateRotation == Spec => []EndedSessionRotatesOnce
<1> DEFINE IInv == TypeOK /\ Circulation /\ LateOnce
<1>1. Init => IInv
  BY InitTyped, InitCirculation DEF Init, LateOnce
<1>2. IInv /\ [Next]_vars => IInv'
  BY StepTyped, CirculationStep, LateStep
<1>3. IInv => EndedSessionRotatesOnce
  BY DEF LateOnce, EndedSessionRotatesOnce, TypeOK
<1>4. QED
  BY <1>1, <1>2, <1>3, PTL DEF Spec

----------------------------------------------------------------------------
(* A refusal spares the live cookie.                                       *)

\* What a session remembers are the newest of the secrets it has retired.
Remembers(s) ==
  LET p == sessions[s].previous
  IN  /\ sessions[s].current = 0 \/ sessions[s].rotated
      /\ Len(p) = IF sessions[s].current < HistoryBound THEN sessions[s].current
                  ELSE HistoryBound
      /\ \A i \in 1..Len(p) : p[i] = sessions[s].current - Len(p) + i - 1

HistoryOK == \A s \in Sids : Remembers(s)

LEMMA HistoryStep ==
  ASSUME TypeOK, Carried, HistoryOK, [Next]_vars
  PROVE  HistoryOK'
<1>1. SUFFICES ASSUME NEW s \in Sids PROVE Remembers(s)'
  BY DEF HistoryOK
<1> DEFINE p == sessions[s].previous
           c == sessions[s].current
           q == sessions'[s].previous
<1>2. /\ Remembers(s) /\ p \in Seq(Nat) /\ Len(p) <= HistoryBound /\ c \in Nat
      /\ HistoryBound \in Nat \ {0}
  BY SessionsAssumption DEF HistoryOK, TypeOK, Session
<1>3. CASE Ages(s)
  BY <1>2, <1>3 DEF Ages, Remembers
<1>4. CASE Begins(s)
  BY <1>2, <1>4 DEF Begins, Remembers
<1>5. CASE Rotates(s)
  <2>1. q = Retire(p, c) /\ sessions'[s].current = c + 1
    BY <1>5 DEF Rotates
  <2>2. /\ Len(p) = IF c < HistoryBound THEN c ELSE HistoryBound
        /\ \A i \in 1..Len(p) : p[i] = c - Len(p) + i - 1
        /\ Len(p) \in Nat
    BY <1>2 DEF Remembers
  <2> HIDE DEF p, c, q
  <2>3. /\ Len(q) = IF Len(p) < HistoryBound THEN Len(p) + 1 ELSE HistoryBound
        /\ \A i \in 1..Len(q) :
             q[i] = IF i = Len(q) THEN c ELSE p[i + Len(p) + 1 - Len(q)]
    BY <1>2, <2>1, RetireKeepsNewest
  <2>4. Len(q) = (IF c + 1 < HistoryBound THEN c + 1 ELSE HistoryBound) /\ Len(q) \in Nat
    BY <1>2, <2>2, <2>3
  <2>5. ASSUME NEW i \in 1..Len(q) PROVE q[i] = (c + 1) - Len(q) + i - 1
    <3>1. CASE i = Len(q)
      <4>1. q[i] = c
        BY <2>3, <3>1
      <4>2. QED
        BY <1>2, <2>4, <3>1, <4>1
    <3>2. CASE i # Len(q)
      <4> DEFINE j == i + Len(p) + 1 - Len(q)
      <4>1. j \in 1..Len(p)
        BY <1>2, <2>2, <2>3, <2>4, <3>2
      <4>2. q[i] = p[j]
        BY <2>3, <3>2
      <4>3. p[j] = c - Len(p) + j - 1
        BY <2>2, <4>1
      <4>4. QED
        BY <1>2, <2>2, <2>4, <4>2, <4>3
    <3>3. QED
      BY <3>1, <3>2
  <2>6. /\ Len(q) = IF sessions'[s].current < HistoryBound THEN sessions'[s].current
                    ELSE HistoryBound
        /\ \A i \in 1..Len(q) : q[i] = sessions'[s].current - Len(q) + i - 1
    BY <2>1, <2>4, <2>5
  <2>7. sessions'[s].rotated
    BY <1>5 DEF Rotates
  <2>8. QED
    BY <2>6, <2>7 DEF Remembers, q
<1>6. QED
  BY <1>3, <1>4, <1>5, StepAges

\* A secret the session has issued and does not know any more is older than
\* its history.
LEMMA ForgottenIsOld ==
  ASSUME TypeOK, HistoryOK, NEW s \in Sids, NEW n \in Nat, n <= sessions[s].current,
         ~IsCurrent(s, n), ~IsRetired(s, n)
  PROVE  sessions[s].current - n > HistoryBound
<1> DEFINE p == sessions[s].previous
           c == sessions[s].current
<1>1. /\ c \in Nat /\ n < c /\ Len(p) \in Nat /\ HistoryBound \in Nat
      /\ Len(p) = IF c < HistoryBound THEN c ELSE HistoryBound
      /\ \A i \in 1..Len(p) : p[i] = c - Len(p) + i - 1
      /\ \A i \in 1..Len(p) : p[i] # n
  BY SessionsAssumption DEF TypeOK, Session, HistoryOK, Remembers, IsCurrent, IsRetired
<1> HIDE DEF p, c
<1>2. ASSUME c - n <= HistoryBound
      PROVE  FALSE
  <2> DEFINE i == n + 1 - (c - Len(p))
  <2>1. i \in 1..Len(p)
    BY <1>1, <1>2
  <2>2. p[i] = n
    BY <1>1, <2>1
  <2>3. QED
    BY <1>1, <2>1, <2>2
<1>3. QED
  BY <1>1, <1>2 DEF c

\* Of the secrets a session has retired only the last is spared, for a while.
LEMMA ReplayedIsOld ==
  ASSUME TypeOK, HistoryOK, NEW s \in Sids, NEW n \in Nat, n <= sessions[s].current,
         ~IsCurrent(s, n), IsRetired(s, n), ~InGrace(s, n)
  PROVE  Replayed(s, n)
<1> DEFINE p == sessions[s].previous
           c == sessions[s].current
<1>1. /\ c \in Nat /\ n < c /\ HistoryBound \in Nat
      /\ c = 0 \/ sessions[s].rotated
      /\ Len(p) = IF c < HistoryBound THEN c ELSE HistoryBound
      /\ \A i \in 1..Len(p) : p[i] = c - Len(p) + i - 1
  BY SessionsAssumption DEF TypeOK, Session, HistoryOK, Remembers, IsCurrent
<1>2. \E i \in 1..Len(p) : p[i] = n
  BY DEF IsRetired
<1>3. ~(p[Len(p)] = n /\ now <= sessions[s].rotatedAt + Grace)
  BY <1>1 DEF InGrace
<1>4. now \in Nat /\ sessions[s].rotatedAt \in Nat /\ Grace \in Nat
  BY SessionsAssumption DEF TypeOK, Session
<1> HIDE DEF p, c
<1>5. Len(p) \in 1..Len(p)
  BY <1>1, <1>2
<1>6. p[Len(p)] = c - 1
  BY <1>1, <1>5
<1>7. n + 1 < c \/ (n + 1 = c /\ sessions[s].rotatedAt + Grace < now)
  BY <1>1, <1>3, <1>4, <1>6
<1>8. QED
  BY <1>7 DEF Replayed, c

\* The reasons for which a refresh may cost the browser its cookie.
Excuse(c) ==
  \/ ~Usable(c.sid)
  \/ sessions[c.sid].current - c.n > HistoryBound
  \/ sessions[c.sid].user \in disabled

RefusedForCause ==
  \A r \in Requests : Is(r, "refresh") /\ Presented(r) \in Cookies =>
    /\ At(r, "reply") /\ req[r].reply = NoCookie => Excuse(Presented(r))
    /\ At(r, "sweep") => Presented(r).sid \in req[r].todo \/ ~Live(Presented(r).sid)

LEMMA ExcuseStays ==
  ASSUME TypeOK, TypeOK', Circulation, [Next]_vars, NEW c \in Cookies, Held(c)
  PROVE  /\ Excuse(c) => Excuse(c)'
         /\ ~Live(c.sid) => ~Live(c.sid)'
<1>1. /\ c.sid \in Sids /\ c.n \in Nat /\ sessions[c.sid].state # "none"
      /\ sessions[c.sid].current \in Nat /\ sessions'[c.sid].current \in Nat
      /\ HistoryBound \in Nat
  BY SessionsAssumption DEF Cookies, Circulation, HeldIssued, TypeOK, Session
<1>2. /\ sessions'[c.sid].user = sessions[c.sid].user
      /\ sessions[c.sid].current <= sessions'[c.sid].current
      /\ ~Live(c.sid) => ~Live(c.sid)'
      /\ ~Usable(c.sid) => ~Usable(c.sid)'
      /\ disabled \subseteq disabled'
  BY <1>1, EndsStay, StepAges DEF Circulation
<1>3. sessions[c.sid].current - c.n > HistoryBound
        => sessions'[c.sid].current - c.n > HistoryBound
  BY <1>1, <1>2
<1>4. QED
  BY <1>2, <1>3 DEF Excuse

\* The three ways to a refusal that clears the cookie, and the two steps of a
\* sweep.
LEMMA RefusalsAre ==
  ASSUME TypeOK, NEW r \in Requests, Acts(r), req'[r].op = "refresh"
  PROVE  /\ req'[r].pc = "reply" /\ req'[r].reply = NoCookie =>
              /\ RefuseRefresh(r) \/ Revoke(r) \/ RevokedAll(r)
              /\ req'[r].cookie = Presented(r) /\ req'[r].op = req[r].op
         /\ req'[r].pc = "sweep" => RevokeAll(r) \/ RevokeNext(r)
<1>1. ASSUME NEW pc \in Pcs \ {"reply", "sweep"}, Goto(r, pc)
      PROVE  req'[r].pc \notin {"reply", "sweep"}
  BY <1>1, GotoMoves
<1>2. Finish(r) \/ AnswerFailure(r) => req'[r].pc \notin {"reply", "sweep"}
  BY FinishMoves, AnswerFailureMoves DEF Idle
<1>3. ASSUME NEW c \in Cookies \cup {NoCookie}, Answer(r, c)
      PROVE  /\ req'[r].pc = "reply" /\ req'[r].reply = c
             /\ req'[r].cookie = Presented(r) /\ req'[r].op = req[r].op
  BY <1>3, AnswerMoves DEF Presented
<1>4. CASE Ask(r)
  <2>1. \E b \in Browsers, op \in Ops : Send(r, b, op, NoCookie) \/ Send(r, b, op, jar[b])
    BY <1>4 DEF Ask, SendRefresh, SendLogin, SendLogout, Ops
  <2>2. \A b \in Browsers : jar[b] \in Cookies \cup {NoCookie}
    BY DEF TypeOK
  <2>3. QED
    BY <2>1, <2>2, SendMoves
<1>5. CASE CreateSession(r) \/ Rotate(r)
  <2>1. /\ \A s \in Sids : [sid |-> s, n |-> 0] \in Cookies
        /\ \A s \in Sids : [sid |-> s, n |-> sessions[s].current + 1] \in Cookies
    BY DEF Cookies, TypeOK, Session
  <2>2. Rotate(r) => Presented(r).sid \in Sids
    BY AddressedSession DEF Rotate, At
  <2>3. Finish(r) \/ \E c \in Cookies : Answer(r, c)
    BY <1>5, <2>1, <2>2 DEF CreateSession, Rotate
  <2>4. QED
    BY <1>2, <1>3, <2>3, SessionsAssumption
<1>6. CASE LogoutNoop(r)
  BY <1>3, <1>6 DEF LogoutNoop, Arrived, Is
<1>7. CASE \/ LoginAllowed(r) \/ DetectReplay(r) \/ LogoutResolved(r) \/ AcceptCurrent(r)
           \/ CheckAccount(r)
  BY <1>1, <1>7
     DEF LoginAllowed, DetectReplay, LogoutResolved, AcceptCurrent, CheckAccount, Pcs
<1>8. CASE RefuseRefresh(r) \/ Revoke(r) \/ RevokedAll(r)
  BY <1>3, <1>8 DEF RefuseRefresh, Revoke, RevokedAll
<1>9. CASE RevokeAll(r) \/ RevokeNext(r)
  BY <1>9, RevokeAllMoves, RevokeNextMoves
<1>10. QED
  BY <1>2, <1>4, <1>5, <1>6, <1>7, <1>8, <1>9
     DEF Acts, Serve, LoginRefused, RefuseRace, RevokeFails, Crash, Deliver, Vanish

LEMMA RefusalStep ==
  ASSUME TypeOK, TypeOK', Circulation, HistoryOK, RefusedForCause, [Next]_vars
  PROVE  RefusedForCause'
<1>1. SUFFICES ASSUME NEW r \in Requests, NEW c \in Cookies,
                      req'[r].op = "refresh", req'[r].cookie = c
               PROVE  /\ req'[r].pc = "reply" /\ req'[r].reply = NoCookie => Excuse(c)'
                      /\ req'[r].pc = "sweep" => c.sid \in req'[r].todo \/ ~Live(c.sid)'
  BY DEF RefusedForCause, Is, At, Presented, Excuse, Usable, Live
<1>2. CASE req'[r] = req[r]
  <2>1. Held(c) /\ Presented(r) = c
    BY <1>1, <1>2 DEF Held, Presented
  <2>2. (Excuse(c) => Excuse(c)') /\ (~Live(c.sid) => ~Live(c.sid)')
    BY <2>1, ExcuseStays
  <2>3. QED
    BY <1>1, <1>2, <2>1, <2>2 DEF RefusedForCause, Is, At
<1>3. CASE req'[r] # req[r]
  <2>1. Acts(r)
    BY <1>3, OthersStay
  <2>2. ASSUME req'[r].pc = "reply", req'[r].reply = NoCookie
        PROVE  Excuse(c)'
    <3>1. /\ RefuseRefresh(r) \/ Revoke(r) \/ RevokedAll(r)
          /\ Presented(r) = c /\ Is(r, "refresh")
      BY <1>1, <2>1, <2>2, RefusalsAre DEF Is
    <3>2. /\ Held(c) /\ c.sid \in Sids /\ c.n \in Nat
          /\ c.n <= sessions[c.sid].current
      BY <3>1 DEF Held, Presented, Cookies, Circulation, HeldIssued
    <3>3. CASE RefuseRefresh(r)
      <4>1. Excuse(c)
        <5>1. CASE Addresses(r)
          BY <3>1, <3>2, <3>3, <5>1, ForgottenIsOld DEF RefuseRefresh, Excuse
        <5>2. CASE ~Addresses(r)
          BY <3>1, <3>2, <5>2, SessionsAssumption DEF Addresses, Excuse
        <5>3. QED
          BY <5>1, <5>2
      <4>2. QED
        BY <3>2, <4>1, ExcuseStays
    <3>4. CASE Revoke(r)
      BY <3>1, <3>2, <3>4, RevokeWrites DEF Revoke, Excuse, Usable, Live
    <3>5. CASE RevokedAll(r)
      <4>1. ~Live(c.sid)
        BY <3>1, <3>2, <3>5 DEF RevokedAll, RefusedForCause
      <4>2. Excuse(c)
        BY <4>1 DEF Excuse, Usable
      <4>3. QED
        BY <3>2, <4>2, ExcuseStays
    <3>6. QED
      BY <3>1, <3>3, <3>4, <3>5
  <2>3. ASSUME req'[r].pc = "sweep"
        PROVE  c.sid \in req'[r].todo \/ ~Live(c.sid)'
    <3>1. RevokeAll(r) \/ RevokeNext(r)
      BY <1>1, <2>1, <2>3, RefusalsAre
    <3>2. CASE RevokeAll(r)
      <4>1. /\ Presented(r) = c /\ sessions' = sessions
            /\ req'[r].todo = {s \in Sids : Live(s) /\
                                 sessions[s].user = sessions[Presented(r).sid].user}
        BY <1>1, <3>2, RevokeAllMoves DEF RevokeAll, Presented
      <4>2. c.sid \in Sids
        BY DEF Cookies
      <4>3. QED
        BY <4>1, <4>2 DEF Live
    <3>3. CASE RevokeNext(r)
      <4>1. PICK s \in Sids : sessions' = WithRevoked(s) /\ req'[r].todo = req[r].todo \ {s}
        BY <3>3, RevokeNextMoves
      <4>2. /\ Presented(r) = c /\ Is(r, "refresh") /\ At(r, "sweep")
            /\ ~Live(s)'
        BY <1>1, <3>3, <4>1, RevokeNextMoves, RevokeWrites
           DEF RevokeNext, Presented, Is, Live
      <4>3. c.sid \in req[r].todo \/ ~Live(c.sid)
        BY <1>1, <4>2 DEF RefusedForCause
      <4>4. ~Live(c.sid) => ~Live(c.sid)'
        BY <4>2, ExcuseStays DEF Held, Presented
      <4>5. QED
        BY <4>1, <4>2, <4>3, <4>4
    <3>4. QED
      BY <3>1, <3>2, <3>3
  <2>4. QED
    BY <2>2, <2>3
<1>4. QED
  BY <1>2, <1>3

\* A refresh whose user's sessions are being revoked, or could not be, presented
\* a replayed secret.
ReplaysStand ==
  \A r \in Requests :
    /\ Is(r, "refresh") /\ Presented(r) \in Cookies
    /\ req[r].pc \in {"revokeAll", "sweep", "failed"}
    => Replayed(Presented(r).sid, Presented(r).n)

\* A replayed secret stays one.
LEMMA ReplayedStays ==
  ASSUME TypeOK, TypeOK', Circulation, [Next]_vars, NEW c \in Cookies, Held(c),
         Replayed(c.sid, c.n)
  PROVE  Replayed(c.sid, c.n)'
<1> DEFINE s == sessions[c.sid]
           t == sessions'[c.sid]
<1>1. /\ c.sid \in Sids /\ c.n \in Nat /\ s.state # "none"
      /\ s.current \in Nat /\ t.current \in Nat
      /\ s.rotatedAt \in Nat /\ t.rotatedAt \in Nat
      /\ now \in Nat /\ now' \in Nat /\ now <= now' /\ Grace \in Nat
  BY SessionsAssumption, StepAges DEF Cookies, Circulation, HeldIssued, TypeOK, Session
<1>2. \/ t.current = s.current /\ t.rotatedAt = s.rotatedAt
      \/ t.current = s.current + 1
  BY <1>1, StepAges DEF Circulation, Ages, Rotates, Begins
<1>3. \/ c.n + 1 < s.current
      \/ c.n + 1 = s.current /\ s.rotatedAt + Grace < now
  BY DEF Replayed
<1>4. \/ c.n + 1 < t.current
      \/ c.n + 1 = t.current /\ t.rotatedAt + Grace < now'
  <2> HIDE DEF s, t
  <2>1. QED
    BY <1>1, <1>2, <1>3
<1>5. QED
  BY <1>4 DEF Replayed

\* A revocation of a refresh's user begins where reuse is detected.
LEMMA ReplaysAre ==
  ASSUME TypeOK, NEW r \in Requests, Acts(r), req'[r].op = "refresh",
         req'[r].pc \in {"revokeAll", "sweep", "failed"}
  PROVE  /\ req'[r].cookie = Presented(r) /\ Is(r, "refresh")
         /\ DetectReplay(r) \/ req[r].pc \in {"revokeAll", "sweep"}
<1>1. ASSUME NEW pc \in Pcs, Goto(r, pc)
      PROVE  /\ req'[r].pc = pc /\ req'[r].cookie = Presented(r)
             /\ req'[r].op = req[r].op
  BY <1>1, GotoMoves DEF Presented
<1>2. ~Finish(r) /\ \A c \in Cookies \cup {NoCookie} : ~Answer(r, c)
  BY FinishMoves, AnswerMoves DEF Idle
<1>3. CASE Ask(r)
  <2>1. \E b \in Browsers, op \in Ops : Send(r, b, op, NoCookie) \/ Send(r, b, op, jar[b])
    BY <1>3 DEF Ask, SendRefresh, SendLogin, SendLogout, Ops
  <2>2. \A b \in Browsers : jar[b] \in Cookies \cup {NoCookie}
    BY DEF TypeOK
  <2>3. QED
    BY <2>1, <2>2, SendMoves
<1>4. CASE CreateSession(r) \/ Rotate(r)
  <2>1. /\ \A s \in Sids : [sid |-> s, n |-> 0] \in Cookies
        /\ \A s \in Sids : [sid |-> s, n |-> sessions[s].current + 1] \in Cookies
    BY DEF Cookies, TypeOK, Session
  <2>2. Rotate(r) => Presented(r).sid \in Sids
    BY AddressedSession DEF Rotate, At
  <2>3. QED
    BY <1>2, <1>4, <2>1, <2>2 DEF CreateSession, Rotate
<1>5. CASE LoginAllowed(r) \/ AcceptCurrent(r) \/ CheckAccount(r)
  BY <1>1, <1>5 DEF LoginAllowed, AcceptCurrent, CheckAccount, Pcs
<1>6. CASE LogoutResolved(r)
  <2>1. req[r].op \in {"logout", "logoutAll"}
    BY <1>6 DEF LogoutResolved, Arrived, Is
  <2>2. req'[r].op = req[r].op
    BY <1>1, <1>6 DEF LogoutResolved, Pcs
  <2>3. QED
    BY <2>1, <2>2
<1>7. CASE DetectReplay(r)
  BY <1>1, <1>7 DEF DetectReplay, Pcs, Is, Arrived
<1>8. CASE RevokeAll(r) \/ RevokeNext(r)
  BY <1>8, RevokeAllMoves, RevokeNextMoves DEF Presented, Is, RevokeAll, RevokeNext, At
<1>9. CASE RevokeFails(r)
  <2>1. req[r].pc \in {"revoke", "revokeAll", "sweep"} /\ AnswerFailure(r)
        /\ ~(At(r, "revoke") /\ Is(r, "refresh"))
    BY <1>2, <1>9 DEF RevokeFails
  <2>2. QED
    BY <2>1, AnswerFailureMoves DEF At, Is, Presented
<1>10. QED
  BY <1>2, <1>3, <1>4, <1>5, <1>6, <1>7, <1>8, <1>9, SessionsAssumption
     DEF Acts, Serve, LoginRefused, RefuseRefresh, RefuseRace, LogoutNoop, Revoke,
         RevokedAll, Crash, Deliver, Vanish

LEMMA ReplayStep ==
  ASSUME TypeOK, TypeOK', Circulation, HistoryOK, ReplaysStand, [Next]_vars
  PROVE  ReplaysStand'
<1>1. SUFFICES ASSUME NEW r \in Requests, NEW c \in Cookies,
                      req'[r].op = "refresh", req'[r].cookie = c,
                      req'[r].pc \in {"revokeAll", "sweep", "failed"}
               PROVE  Replayed(c.sid, c.n)'
  BY DEF ReplaysStand, Is, Presented, Replayed
<1>2. Presented(r) = c /\ Is(r, "refresh")
      /\ (DetectReplay(r) \/ req[r].pc \in {"revokeAll", "sweep", "failed"})
  BY <1>1, OthersStay, ReplaysAre DEF Is, Presented
<1>3. /\ Held(c) /\ c.sid \in Sids /\ c.n \in Nat /\ c.n <= sessions[c.sid].current
  BY <1>2 DEF Held, Presented, Cookies, Circulation, HeldIssued
<1>4. Replayed(c.sid, c.n)
  BY <1>2, <1>3, ReplayedIsOld DEF DetectReplay, ReplaysStand
<1>5. QED
  BY <1>3, <1>4, ReplayedStays

\* Losing a race costs nothing: a refresh clears its browser's cookie only for
\* a session that is over, a secret beyond the remembered history, a disabled
\* account, or a replayed secret when revoking its user's sessions failed.
THEOREM RefusalsSpareLiveCookies == Spec => RefusalSparesLiveCookie
<1> DEFINE IInv == TypeOK /\ Circulation /\ HistoryOK /\ RefusedForCause /\ ReplaysStand
<1>1. Init => IInv
  <2>1. SUFFICES ASSUME Init PROVE HistoryOK /\ RefusedForCause /\ ReplaysStand
    BY InitTyped, InitCirculation
  <2>2. HistoryOK
    BY <2>1, SessionsAssumption DEF Init, HistoryOK, Remembers
  <2>3. RefusedForCause /\ ReplaysStand
    BY <2>1, SessionsAssumption DEF Init, RefusedForCause, ReplaysStand, Idle, Is, Presented
  <2>4. QED
    BY <2>2, <2>3
<1>2. IInv /\ [Next]_vars => IInv'
  BY StepTyped, CirculationStep, HistoryStep, RefusalStep, ReplayStep DEF Circulation
<1>3. IInv /\ [Next]_vars =>
        [\A r \in Requests : ClearsOwnCookie(r) =>
           LET s == Presented(r).sid
           IN  \/ ~Usable(s)
               \/ sessions[s].current - Presented(r).n > HistoryBound
               \/ sessions[s].user \in disabled
               \/ At(r, "failed") /\ Replayed(s, Presented(r).n)]_vars
  <2>1. SUFFICES ASSUME IInv, Next, NEW r \in Requests, ClearsOwnCookie(r)
                 PROVE  \/ Excuse(Presented(r))
                        \/ At(r, "failed") /\ Replayed(Presented(r).sid, Presented(r).n)
    BY DEF Excuse
  <2>2. /\ Answered(r) /\ Is(r, "refresh") /\ Presented(r) \in Cookies
        /\ req'[r] # req[r]
        /\ jar'[BrowserAt(r)] = NoCookie /\ jar[BrowserAt(r)] # NoCookie
    BY <2>1, SessionsAssumption DEF ClearsOwnCookie, Answered, At
  <2>3. CASE At(r, "failed")
    BY <2>1, <2>2, <2>3 DEF ReplaysStand, At
  <2>4. CASE At(r, "reply")
    <3>1. Acts(r)
      BY <2>1, <2>2, OthersStay
    <3>2. Deliver(r)
      BY <2>2, <2>4, <3>1 DEF Acts, Ask, SendRefresh, SendLogin, SendLogout, Send, Serve,
         LoginRefused, LoginAllowed, CreateSession, RefuseRefresh, RefuseRace, DetectReplay,
         AcceptCurrent, CheckAccount, Rotate, LogoutNoop, LogoutResolved, Revoke, RevokeAll,
         RevokeNext, RevokedAll, RevokeFails, Crash, Answered, Arrived, Vanish, At
    <3>3. BrowserAt(r) \in Browsers
      BY <2>1, <2>4 DEF TypeOK, HandlerOK, At, BrowserAt
    <3>4. req[r].reply = NoCookie
      BY <2>1, <2>2, <3>2, <3>3 DEF Deliver, TypeOK
    <3>5. QED
      BY <2>1, <2>2, <2>4, <3>4 DEF RefusedForCause
  <2>5. QED
    BY <2>2, <2>3, <2>4 DEF Answered
<1>4. QED
  BY <1>1, <1>2, <1>3, PTL DEF Spec, RefusalSparesLiveCookie
=============================================================================
