------------------------ MODULE ConversationsProofs ------------------------
(***************************************************************************)
(* What the conversation and message services do to the collections,       *)
(* whoever calls: an inductive invariant of the store, kept by each        *)
(* operation of a call, by the beginning and the loss of calls, and by the *)
(* death of the process.  WidgetThreadProofs and AgentInboxProofs use it.  *)
(***************************************************************************)
EXTENDS Conversations, SequencesExt, TLAPS, FiniteSetTheorems,
        SequenceTheorems, WellFoundedInduction

----------------------------------------------------------------------------
(* Sets of numbers, and small sets.                                        *)

LEMMA LeastNumber ==
  ASSUME NEW S \in SUBSET Nat, S # {}
  PROVE  Min(S) \in S /\ \A i \in S : Min(S) <= i
<1>1. PICK x \in S : \A y \in S : ~(<<y, x>> \in OpToRel(<, Nat))
  BY NatLessThanWellFounded, WFMin
<1>2. \A y \in S : x <= y
  <2>1. ASSUME NEW y \in S
        PROVE  ~(y < x)
    BY <1>1, <2>1 DEF OpToRel
  <2>2. QED
    BY <2>1
<1>3. QED
  BY <1>2 DEF Min

LEMMA GreatestNumber ==
  ASSUME NEW n \in Nat, NEW S \in SUBSET (0..n), S # {}
  PROVE  Max(S) \in S /\ \A i \in S : i <= Max(S)
<1> DEFINE T == {i \in Nat : n - i \in S}
<1>1. T \in SUBSET Nat /\ T # {}
  <2>1. PICK s \in S : TRUE
    OBVIOUS
  <2>2. n - s \in Nat /\ n - (n - s) = s
    OBVIOUS
  <2>3. QED
    BY <2>1, <2>2
<1>2. Min(T) \in T /\ \A i \in T : Min(T) <= i
  BY <1>1, LeastNumber
<1> DEFINE x == n - Min(T)
<1>3. x \in S /\ Min(T) \in Nat
  BY <1>2
<1>4. ASSUME NEW i \in S
      PROVE  x >= i
  <2>1. n - i \in T
    <3>1. n - i \in Nat /\ n - (n - i) = i
      OBVIOUS
    <3>2. QED
      BY <3>1
  <2>2. Min(T) <= n - i
    BY <1>2, <2>1
  <2>3. QED
    BY <1>3, <2>2
<1>5. QED
  BY <1>3, <1>4 DEF Max

LEMMA AtMostOne ==
  ASSUME NEW S, \A a, b \in S : a = b
  PROVE  IsFiniteSet(S) /\ Cardinality(S) <= 1
<1>1. CASE S = {}
  BY <1>1, FS_EmptySet
<1>2. CASE S # {}
  <2>1. PICK a \in S : S = {a}
    BY <1>2
  <2>2. IsFiniteSet({a}) /\ Cardinality({a}) = 1
    BY FS_Singleton
  <2>3. QED
    BY <2>1, <2>2
<1>3. QED
  BY <1>1, <1>2

----------------------------------------------------------------------------
(* Lists of messages.                                                      *)

\* The rank of an id in a set of ids is strictly monotonic.
Below(S, i) == {j \in S : j < i}

LEMMA Ranks ==
  ASSUME NEW n \in Nat, NEW S \in SUBSET (1..n)
  PROVE  /\ IsFiniteSet(S) /\ Cardinality(S) \in Nat
         /\ \A i \in S : Cardinality(Below(S, i)) \in 0..(Cardinality(S) - 1)
         /\ \A i, j \in S : j < i => Cardinality(Below(S, j)) < Cardinality(Below(S, i))
<1> DEFINE c == Cardinality(S)
<1>1. IsFiniteSet(S) /\ c \in Nat
  <2>1. IsFiniteSet(1..n)
    BY FS_Interval
  <2>2. QED
    BY <2>1, FS_Subset, FS_CardinalityType
<1>2. ASSUME NEW i \in S
      PROVE  IsFiniteSet(Below(S, i)) /\ Cardinality(Below(S, i)) \in 0..(c - 1)
  <2>1. Below(S, i) \in SUBSET (S \ {i})
    BY DEF Below
  <2>2. IsFiniteSet(S \ {i}) /\ Cardinality(S \ {i}) = c - 1
    BY <1>1, FS_RemoveElement
  <2>3. IsFiniteSet(Below(S, i)) /\ Cardinality(Below(S, i)) <= c - 1
    BY <2>1, <2>2, FS_Subset
  <2>4. Cardinality(Below(S, i)) \in Nat
    BY <2>3, FS_CardinalityType
  <2>5. QED
    BY <1>1, <2>3, <2>4
<1>3. ASSUME NEW i \in S, NEW j \in S, j < i
      PROVE  Cardinality(Below(S, j)) < Cardinality(Below(S, i))
  <2>1. Below(S, j) \cup {j} \in SUBSET Below(S, i) /\ j \notin Below(S, j)
    <3>1. i \in Nat /\ j \in Nat /\ ~(j < j)
      OBVIOUS
    <3>2. \A k \in S : k < j => k < i
      <4>1. \A k \in S : k \in Nat
        OBVIOUS
      <4>2. QED
        BY <1>3, <3>1, <4>1
    <3>3. QED
      BY <1>3, <3>1, <3>2 DEF Below
  <2>2. Cardinality(Below(S, j) \cup {j}) = Cardinality(Below(S, j)) + 1
    BY <1>2, <2>1, FS_AddElement
  <2>3. Cardinality(Below(S, j) \cup {j}) <= Cardinality(Below(S, i))
    BY <1>2, <2>1, FS_Subset
  <2>4. QED
    BY <1>2, <2>2, <2>3
<1>4. QED
  BY <1>1, <1>2, <1>3

\* InOrder lists a set of ids, each once: the rank of an id is a bijection.
LEMMA InOrderLists ==
  ASSUME NEW n \in Nat, NEW S \in SUBSET (1..n)
  PROVE  /\ IsFiniteSet(S) /\ Cardinality(S) \in Nat
         /\ InOrder(S) \in [1..Cardinality(S) -> S]
         /\ \A a, b \in 1..Cardinality(S) : InOrder(S)[a] = InOrder(S)[b] => a = b
         /\ \A i \in S : \E a \in 1..Cardinality(S) : InOrder(S)[a] = i
<1> DEFINE c == Cardinality(S)
           rank == [i \in S |-> Cardinality(Below(S, i))]
<1>1. IsFiniteSet(S) /\ c \in Nat
  BY Ranks
<1>2. \A i \in S : Cardinality(Below(S, i)) \in 0..(c - 1)
  BY Ranks
<1>3. \A i, j \in S : j < i => Cardinality(Below(S, j)) < Cardinality(Below(S, i))
  BY Ranks
<1>4. \A i, j \in S : rank[i] = rank[j] => i = j
  <2>1. \A i, j \in S : ~(i < j) /\ ~(j < i) => i = j
    OBVIOUS
  <2>2. \A i \in S : rank[i] \in 0..(c - 1) /\ rank[i] = Cardinality(Below(S, i))
    BY <1>2
  <2>3. QED
    BY <1>1, <1>3, <2>1, <2>2
<1>5. rank \in Injection(S, 0..(c - 1))
  <2>1. rank \in [S -> 0..(c - 1)]
    BY <1>2
  <2>2. QED
    BY <1>4, <2>1 DEF Injection, IsInjective
<1>6. rank \in Surjection(S, 0..(c - 1))
  <2>1. IsFiniteSet(0..(c - 1)) /\ Cardinality(0..(c - 1)) = c
    BY <1>1, FS_Interval
  <2>2. QED
    BY <1>5, <2>1, FS_Injection
<1>7. ASSUME NEW a \in 1..c
      PROVE  \E i \in S : Cardinality(Below(S, i)) = a - 1
  <2>1. a - 1 \in 0..(c - 1)
    BY <1>1
  <2>2. PICK i \in S : rank[i] = a - 1
    BY <1>6, <2>1 DEF Surjection
  <2>3. QED
    BY <2>2
<1> DEFINE f == InOrder(S)
<1>8. f = [a \in 1..c |-> CHOOSE i \in S : Cardinality(Below(S, i)) = a - 1]
  BY DEF InOrder, Below
<1> HIDE DEF f, c
<1>9. \A a \in 1..c : f[a] \in S /\ Cardinality(Below(S, f[a])) = a - 1
  BY <1>7, <1>8
<1>10. f \in [1..c -> S]
  BY <1>8, <1>9
<1>11. ASSUME NEW a \in 1..c, NEW b \in 1..c, f[a] = f[b]
       PROVE  a = b
  <2>1. a - 1 = b - 1
    BY <1>9, <1>11
  <2>2. QED
    BY <2>1
<1>12. ASSUME NEW i \in S
       PROVE  \E a \in 1..c : f[a] = i
  <2> DEFINE a == Cardinality(Below(S, i)) + 1
  <2>1. a \in 1..c /\ a - 1 = Cardinality(Below(S, i))
    BY <1>1, <1>2 DEF c
  <2>2. f[a] \in S /\ Cardinality(Below(S, f[a])) = Cardinality(Below(S, i))
    BY <1>9, <2>1
  <2>3. f[a] = i
    BY <1>4, <2>2
  <2>4. QED
    BY <2>1, <2>3
<1>13. QED
  BY <1>1, <1>10, <1>11, <1>12 DEF f, c

\* A list of messages to which others are appended in order still has none twice.
Appended(s, S) == s \o InOrder(S)

LEMMA AppendedInOrder ==
  ASSUME NEW n \in Nat, NEW s \in Seq(1..n), IsInjective(s),
         NEW S \in SUBSET (1..n), S \cap ToSet(s) = {}
  PROVE  /\ Appended(s, S) \in Seq(1..n)
         /\ IsInjective(Appended(s, S))
         /\ ToSet(Appended(s, S)) = ToSet(s) \cup S
         /\ IsPrefix(s, Appended(s, S))
<1> DEFINE f == InOrder(S)
           c == Cardinality(S)
           l == Len(s)
<1> SUFFICES ASSUME NEW t, t = s \o f
             PROVE  /\ t \in Seq(1..n)
                    /\ IsInjective(t)
                    /\ ToSet(t) = ToSet(s) \cup S
                    /\ IsPrefix(s, t)
  BY DEF Appended
<1>1. /\ c \in Nat /\ f \in [1..c -> S]
      /\ \A a, b \in 1..c : f[a] = f[b] => a = b
      /\ \A i \in S : \E a \in 1..c : f[a] = i
  BY InOrderLists
<1> HIDE DEF f, c
<1>2. f \in Seq(1..n) /\ Len(f) = c
  <2>1. f \in [1..c -> 1..n]
    BY <1>1
  <2>2. f \in Seq(1..n)
    BY <1>1, <2>1, SeqDef
  <2>3. QED
    BY <1>1, <2>1, <2>2, LenProperties
<1>3. /\ t \in Seq(1..n) /\ Len(t) = l + c /\ l \in Nat
      /\ \A a \in 1..l : t[a] = s[a]
      /\ \A a \in (l + 1)..(l + c) : t[a] = f[a - l]
  BY <1>2
<1>4. \A a \in (l + 1)..(l + c) : a - l \in 1..c
  BY <1>1, <1>3
<1>5. \A a \in 1..c : a + l \in (l + 1)..(l + c) /\ (a + l) - l = a
  BY <1>1, <1>3
<1>6. \A a \in DOMAIN t : a \in 1..l \/ a \in (l + 1)..(l + c)
  BY <1>1, <1>3
<1>7. \A a \in 1..l : a \in DOMAIN t /\ a \in DOMAIN s
  BY <1>1, <1>3
<1>8. \A a \in (l + 1)..(l + c) : a \in DOMAIN t
  BY <1>1, <1>3
<1> HIDE DEF l
<1>9. ASSUME NEW a \in DOMAIN t, NEW b \in DOMAIN t, t[a] = t[b]
      PROVE  a = b
  <2>1. \A i \in 1..l : t[i] \in ToSet(s)
    BY <1>3, <1>7 DEF ToSet
  <2>2. \A i \in (l + 1)..(l + c) : t[i] \in S
    BY <1>1, <1>3, <1>4
  <2>3. CASE a \in 1..l /\ b \in 1..l
    BY <1>3, <1>7, <1>9, <2>3 DEF IsInjective
  <2>4. CASE a \in (l + 1)..(l + c) /\ b \in (l + 1)..(l + c)
    <3>1. a - l = b - l
      <4>1. f[a - l] = f[b - l]
        BY <1>3, <1>9, <2>4
      <4>2. a - l \in 1..c /\ b - l \in 1..c
        BY <1>4, <2>4
      <4>3. QED
        BY <1>1, <4>1, <4>2
    <3>2. QED
      BY <1>1, <1>3, <2>4, <3>1
  <2>5. QED
    BY <1>6, <1>9, <2>1, <2>2, <2>3, <2>4
<1>10. ToSet(t) = ToSet(s) \cup S
  <2>1. ASSUME NEW x \in ToSet(t)
        PROVE  x \in ToSet(s) \cup S
    <3>1. PICK a \in DOMAIN t : x = t[a]
      BY <2>1 DEF ToSet
    <3>2. CASE a \in 1..l
      BY <1>3, <1>7, <3>1, <3>2 DEF ToSet
    <3>3. CASE a \in (l + 1)..(l + c)
      BY <1>1, <1>3, <1>4, <3>1, <3>3
    <3>4. QED
      BY <1>6, <3>2, <3>3
  <2>2. ASSUME NEW x \in ToSet(s)
        PROVE  x \in ToSet(t)
    <3>1. PICK a \in DOMAIN s : x = s[a]
      BY <2>2 DEF ToSet
    <3>2. a \in 1..l
      BY DEF l
    <3>3. QED
      BY <1>3, <1>7, <3>1, <3>2 DEF ToSet
  <2>3. ASSUME NEW x \in S
        PROVE  x \in ToSet(t)
    <3>1. PICK a \in 1..c : f[a] = x
      BY <1>1
    <3>2. t[a + l] = x /\ a + l \in DOMAIN t
      BY <1>3, <1>5, <1>8, <3>1
    <3>3. QED
      BY <3>2 DEF ToSet
  <2>4. QED
    BY <2>1, <2>2, <2>3
<1>11. IsPrefix(s, t)
  <2>1. Len(s) <= Len(t) /\ Len(s) = l /\ l \in Nat
    BY <1>1, <1>3 DEF l
  <2>2. SubSeq(s, 1, l) = SubSeq(t, 1, l)
    BY <1>1, <1>3, <2>1
  <2>3. QED
    BY <2>1, <2>2 DEF IsPrefix
<1>12. QED
  BY <1>3, <1>9, <1>10, <1>11 DEF IsInjective

----------------------------------------------------------------------------
(* The inductive invariant of the store.                                   *)

Pcs == {"idle", "find", "create", "findAgain", "check", "insert", "touch",
        "publish", "setStatus", "announce", "answered"}

Resolving == {"find", "create", "findAgain"}

Stored == {"touch", "publish"}

Args == Bodies \cup {"none", "resolve", "open", "closed"}

CallRecords ==
  [pc : Pcs, customer : Customers \cup {NoCustomer}, conv : 0..MaxConvs,
   id : 0..MaxMessages, arg : Args, since : Nat, http : BOOLEAN, answer : Nat]

\* A call has what its next operation needs.
CallOK(k) ==
  /\ call[k].id <= issued
  /\ call[k].pc \in Resolving => call[k].customer \in Customers /\ call[k].since <= changes
  /\ call[k].pc = "check" => call[k].conv \in Convs /\ call[k].arg \in Bodies
  /\ call[k].pc \in {"insert", "touch", "publish"} =>
       /\ call[k].conv \in Convs /\ Exists(call[k].conv)
       /\ call[k].arg \in Bodies /\ call[k].id \in Ids
  /\ call[k].pc \in {"setStatus", "announce"} =>
       /\ call[k].conv \in Convs /\ Exists(call[k].conv)
       /\ call[k].arg \in {"open", "closed"}

Typed ==
  /\ conv \in [Convs -> Documents]
  /\ messages \subseteq MessageDocs
  /\ issued \in 0..MaxMessages
  /\ changes \in Nat
  /\ closedAt \in [Convs -> 0..MaxMessages]
  /\ untouched \subseteq Ids /\ overtaken \subseteq Ids
  /\ misreported \subseteq {m.id : m \in messages}
  /\ call \in [Calls -> CallRecords]
  /\ \A k \in Calls : CallOK(k)

\* An id is drawn before anything carries it, and nothing else gets it.
IdsAreOnce ==
  /\ \A m \in messages : m.id <= issued
  /\ \A m, n \in messages : m.id = n.id => m = n
  /\ \A k \in Calls : At(k, "insert") => \A m \in messages : m.id # call[k].id
  /\ \A j, k \in Calls :
       At(j, "insert") /\ At(k, "insert") /\ call[j].id = call[k].id => j = k

\* The partial unique index, without counting.
OneOpen ==
  \A c, d \in Convs : Open(c) /\ Open(d) /\ conv[c].customer = conv[d].customer => c = d

\* ClosedHoldsOnlyAdmitted, with the sends that were admitted and not stored.
ClosedAdmits ==
  /\ ClosedHoldsOnlyAdmitted
  /\ \A k \in Calls :
       At(k, "insert") /\ conv[call[k].conv].status = "closed"
         => call[k].id <= closedAt[call[k].conv]

StoreInv == Typed /\ IdsAreOnce /\ OneOpen /\ ClosedAdmits

\* What the modules that say who calls may do besides the operations.
Starts(k, pc, u, c, arg, http) ==
  /\ Begin(k, pc, u, c, arg, http)
  /\ http \in BOOLEAN /\ u \in Customers \cup {NoCustomer} /\ c \in 0..MaxConvs
  /\ arg \in Args
  /\ \/ pc = "find" /\ u \in Customers
     \/ pc = "check" /\ c \in Convs /\ arg \in Bodies
     \/ pc = "setStatus" /\ c \in Convs /\ Exists(c) /\ arg \in {"open", "closed"}
  /\ UNCHANGED data

Abandons(K) ==
  /\ call' = [k \in Calls |-> IF k \in K THEN Idle ELSE call[k]]
  /\ UNCHANGED data

----------------------------------------------------------------------------
(* What becomes of a call.                                                 *)

USE ConversationsAssumption

LEMMA IdleCall ==
  /\ Idle \in CallRecords
  /\ Idle.pc = "idle" /\ Idle.id = 0 /\ Idle.http = FALSE /\ Idle.conv = NoConv
  /\ Idle.arg = "none" /\ Idle.answer = 0
BY DEF Idle, CallRecords, Pcs, Args, NoConv

LEMMA GoesMoves ==
  ASSUME Typed, NEW k \in Calls, NEW pc \in Pcs, Goes(k, pc)
  PROVE  /\ call' \in [Calls -> CallRecords]
         /\ call'[k].pc = pc /\ call'[k].customer = call[k].customer
         /\ call'[k].conv = call[k].conv /\ call'[k].id = call[k].id
         /\ call'[k].arg = call[k].arg /\ call'[k].since = call[k].since
         /\ call'[k].http = call[k].http
         /\ \A j \in Calls \ {k} : call'[j] = call[j]
BY DEF Typed, Goes, CallRecords

LEMMA EndsMoves ==
  ASSUME Typed, NEW k \in Calls, NEW answer \in Nat, Ends(k, answer)
  PROVE  /\ call' \in [Calls -> CallRecords]
         /\ call'[k].pc \in {"idle", "answered"}
         /\ call'[k].id <= issued
         /\ call[k].http =>
              /\ call'[k].pc = "answered" /\ call'[k].answer = answer
              /\ call'[k].arg = call[k].arg /\ call'[k].since = call[k].since
              /\ call'[k].http /\ call'[k].conv = call[k].conv
         /\ ~call[k].http => call'[k] = Idle
         /\ \A j \in Calls \ {k} : call'[j] = call[j]
<1>1. call[k] \in CallRecords /\ call[k].id <= issued /\ issued \in Nat
  BY DEF Typed, CallOK
<1>2. CASE call[k].http
  <2> DEFINE y == [call[k] EXCEPT !.pc = "answered"]
             z == [y EXCEPT !.answer = answer]
  <2>1. /\ y \in CallRecords /\ y.pc = "answered" /\ y.arg = call[k].arg
        /\ y.since = call[k].since /\ y.http = call[k].http
        /\ y.conv = call[k].conv /\ y.id = call[k].id
    BY <1>1 DEF CallRecords, Pcs
  <2>2. call' = [call EXCEPT ![k] = z]
    BY <1>2 DEF Ends
  <2> HIDE DEF y
  <2>3. /\ z \in CallRecords /\ z.pc = y.pc /\ z.arg = y.arg /\ z.answer = answer
        /\ z.since = y.since /\ z.http = y.http /\ z.conv = y.conv /\ z.id = y.id
    BY <2>1 DEF CallRecords
  <2> HIDE DEF z
  <2>4. QED
    BY <1>1, <1>2, <2>1, <2>2, <2>3 DEF Typed
<1>3. CASE ~call[k].http
  <2>1. call' = [call EXCEPT ![k] = Idle]
    BY <1>3 DEF Ends
  <2>2. QED
    BY <1>1, <1>3, <2>1, IdleCall DEF Typed
<1>4. QED
  BY <1>2, <1>3

LEMMA StartsMoves ==
  ASSUME Typed, NEW k \in Calls, NEW pc, NEW u, NEW c, NEW arg, NEW http,
         Starts(k, pc, u, c, arg, http)
  PROVE  /\ call' \in [Calls -> CallRecords]
         /\ call'[k].pc = pc /\ call'[k].customer = u /\ call'[k].conv = c
         /\ call'[k].id = 0 /\ call'[k].arg = arg /\ call'[k].http = http
         /\ call'[k].since = IF pc = "find" THEN changes ELSE 0
         /\ \A j \in Calls \ {k} : call'[j] = call[j]
<1> DEFINE since == IF pc = "find" THEN changes ELSE 0
           x == Begun(pc, u, c, arg, http)
<1>1. /\ pc \in {"find", "check", "setStatus"}
      /\ since \in Nat /\ changes \in Nat
  BY DEF Starts, Typed
<1>2. x = [pc |-> pc, customer |-> u, conv |-> c, id |-> 0, arg |-> arg,
           since |-> since, http |-> http, answer |-> 0]
  BY DEF Begun
<1>3. x \in CallRecords
  <2> HIDE DEF since
  <2>1. QED
    BY <1>1, <1>2 DEF CallRecords, Starts, Pcs
<1>4. call' = [call EXCEPT ![k] = x]
  BY DEF Starts, Begin
<1>5. QED
  BY <1>2, <1>3, <1>4 DEF Typed

----------------------------------------------------------------------------
(* The operations keep the invariant.                                      *)

\* Steps that only move calls, none of them to its insertion.
LEMMA MovesKeepStore ==
  ASSUME StoreInv, UNCHANGED data, call' \in [Calls -> CallRecords],
         \A j \in Calls : call'[j] = call[j] \/ (CallOK(j)' /\ call'[j].pc # "insert")
  PROVE  StoreInv'
<1>1. Typed'
  <2>1. ASSUME NEW j \in Calls, call'[j] = call[j]
        PROVE  CallOK(j)'
    BY <2>1 DEF StoreInv, Typed, CallOK, data, Exists
  <2>2. \A j \in Calls : CallOK(j)'
    BY <2>1
  <2>3. QED
    BY <2>2 DEF StoreInv, Typed, data
<1>2. ASSUME NEW j \in Calls, At(j, "insert")'
      PROVE  call'[j] = call[j] /\ At(j, "insert")
  BY <1>2 DEF At
<1>3. IdsAreOnce'
  BY <1>2 DEF StoreInv, IdsAreOnce, data
<1>4. OneOpen'
  BY DEF StoreInv, OneOpen, Open, data
<1>5. ClosedAdmits'
  BY <1>2 DEF StoreInv, ClosedAdmits, ClosedHoldsOnlyAdmitted, data
<1>6. QED
  BY <1>1, <1>3, <1>4, <1>5 DEF StoreInv

LEMMA StartsKeepStore ==
  ASSUME StoreInv, NEW k \in Calls, NEW pc, NEW u, NEW c, NEW arg, NEW http,
         Starts(k, pc, u, c, arg, http)
  PROVE  StoreInv'
<1>1. Typed /\ UNCHANGED data
  BY DEF StoreInv, Starts
<1>2. /\ call' \in [Calls -> CallRecords]
      /\ call'[k].pc = pc /\ call'[k].customer = u /\ call'[k].conv = c
      /\ call'[k].id = 0 /\ call'[k].arg = arg
      /\ call'[k].since = IF pc = "find" THEN changes ELSE 0
      /\ \A j \in Calls \ {k} : call'[j] = call[j]
  BY <1>1, StartsMoves
<1>3. CallOK(k)' /\ call'[k].pc # "insert"
  BY <1>1, <1>2 DEF CallOK, Starts, Resolving, data, Exists, Typed
<1>4. QED
  BY <1>1, <1>2, <1>3, MovesKeepStore

LEMMA AbandonsKeepsStore ==
  ASSUME StoreInv, NEW K, Abandons(K)
  PROVE  StoreInv'
<1>1. /\ Typed /\ UNCHANGED data
      /\ call' = [k \in Calls |-> IF k \in K THEN Idle ELSE call[k]]
  BY DEF StoreInv, Abandons
<1>2. call' \in [Calls -> CallRecords]
  BY <1>1, IdleCall DEF Typed
<1>3. ASSUME NEW j \in Calls
      PROVE  call'[j] = call[j] \/ (CallOK(j)' /\ call'[j].pc # "insert")
  <2>1. CASE j \in K
    <3>1. call'[j] = Idle
      BY <1>1, <2>1
    <3>2. QED
      BY <1>1, <3>1, IdleCall DEF CallOK, Resolving, Typed, data
  <2>2. CASE j \notin K
    BY <1>1, <2>2
  <2>3. QED
    BY <2>1, <2>2
<1>4. QED
  BY <1>1, <1>2, <1>3, MovesKeepStore

LEMMA GoesKeepsStore ==
  ASSUME StoreInv, NEW k \in Calls, NEW pc \in Pcs, Goes(k, pc), UNCHANGED data,
         \/ pc \in {"create", "findAgain"} /\ call[k].pc \in Resolving
         \/ pc = "publish" /\ At(k, "touch")
  PROVE  StoreInv'
<1>1. Typed
  BY DEF StoreInv
<1>2. /\ call' \in [Calls -> CallRecords]
      /\ call'[k].pc = pc /\ call'[k].customer = call[k].customer
      /\ call'[k].conv = call[k].conv /\ call'[k].id = call[k].id
      /\ call'[k].arg = call[k].arg /\ call'[k].since = call[k].since
      /\ \A j \in Calls \ {k} : call'[j] = call[j]
  BY <1>1, GoesMoves
<1>3. CallOK(k)' /\ call'[k].pc # "insert"
  BY <1>1, <1>2 DEF CallOK, Resolving, Typed, data, At, Exists
<1>4. QED
  BY <1>2, <1>3, MovesKeepStore

LEMMA EndsKeepsStore ==
  ASSUME StoreInv, NEW k \in Calls, NEW answer \in Nat, Ends(k, answer), UNCHANGED data
  PROVE  StoreInv'
<1>1. Typed
  BY DEF StoreInv
<1>2. /\ call' \in [Calls -> CallRecords]
      /\ call'[k].pc \in {"idle", "answered"} /\ call'[k].id <= issued
      /\ \A j \in Calls \ {k} : call'[j] = call[j]
  BY <1>1, EndsMoves
<1>3. CallOK(k)' /\ call'[k].pc # "insert"
  BY <1>1, <1>2 DEF CallOK, Resolving, Typed, data
<1>4. QED
  BY <1>2, <1>3, MovesKeepStore

LEMMA OpenOfConvs == \A u : \A c \in OpenOf(u) : c \in Convs /\ c \in Nat
BY DEF OpenOf, Convs

LEMMA FindKeepsStore ==
  ASSUME StoreInv, NEW k \in Calls, Find(k)
  PROVE  StoreInv'
<1>1. CASE OpenOf(call[k].customer) = {}
  <2>1. Goes(k, "create") /\ UNCHANGED data /\ call[k].pc \in Resolving
    BY <1>1 DEF Find, At, Resolving
  <2>2. QED
    BY <2>1, GoesKeepsStore DEF Pcs
<1>2. CASE OpenOf(call[k].customer) # {}
  <2>1. PICK c \in OpenOf(call[k].customer) : Ends(k, c)
    BY <1>2 DEF Find
  <2>2. c \in Nat /\ UNCHANGED data
    BY OpenOfConvs DEF Find
  <2>3. QED
    BY <2>1, <2>2, EndsKeepsStore
<1>3. QED
  BY <1>1, <1>2

LEMMA FindAgainKeepsStore ==
  ASSUME StoreInv, NEW k \in Calls, FindAgain(k)
  PROVE  StoreInv'
<1>1. CASE OpenOf(call[k].customer) = {}
  <2>1. Ends(k, Failed) /\ UNCHANGED data /\ Failed \in Nat
    BY <1>1 DEF FindAgain, Failed
  <2>2. QED
    BY <2>1, EndsKeepsStore
<1>2. CASE OpenOf(call[k].customer) # {}
  <2>1. PICK c \in OpenOf(call[k].customer) : Ends(k, c)
    BY <1>2 DEF FindAgain
  <2>2. c \in Nat /\ UNCHANGED data
    BY OpenOfConvs DEF FindAgain
  <2>3. QED
    BY <2>1, <2>2, EndsKeepsStore
<1>3. QED
  BY <1>1, <1>2

\* A new conversation is one that did not exist.
LEMMA NextConvIsNew ==
  ASSUME \E c \in Convs : ~Exists(c)
  PROVE  NextConv \in Convs /\ ~Exists(NextConv) /\ NextConv \in Nat
<1> DEFINE S == {c \in Convs : ~Exists(c)}
<1>1. S \in SUBSET Nat /\ S # {}
  BY DEF Convs
<1>2. Min(S) \in S
  BY <1>1, LeastNumber
<1>3. NextConv = Min(S)
  BY DEF NextConv
<1>4. QED
  BY <1>1, <1>2, <1>3

\* What create writes, when the index admits it.
LEMMA CreateWrites ==
  ASSUME Typed, NEW k \in Calls, Create(k), UniqueOpenAdmits(call[k].customer)
  PROVE  /\ NextConv \in Convs /\ ~Exists(NextConv)
         /\ conv' \in [Convs -> Documents]
         /\ conv'[NextConv].status = "open"
         /\ conv'[NextConv].customer = call[k].customer
         /\ conv'[NextConv].lastAt = issued
         /\ \A c \in Convs \ {NextConv} : conv'[c] = conv[c]
         /\ Ends(k, NextConv)
         /\ UNCHANGED <<messages, issued, changes, closedAt, untouched, overtaken, misreported>>
<1>1. NextConv \in Convs /\ ~Exists(NextConv)
  BY NextConvIsNew DEF Create
<1> DEFINE n == NextConv
           d == [status |-> "open", customer |-> call[k].customer, lastAt |-> issued]
<1>2. conv' = [conv EXCEPT ![n] = d]
  BY DEF Create
<1>3. d \in Documents
  <2>1. call[k] \in CallRecords /\ issued \in 0..MaxMessages
    BY DEF Typed
  <2>2. QED
    BY <2>1 DEF CallRecords, Documents
<1> HIDE DEF n
<1>4. /\ conv' \in [Convs -> Documents]
      /\ conv'[n] = d
      /\ \A c \in Convs \ {n} : conv'[c] = conv[c]
  BY <1>1, <1>2, <1>3 DEF Typed, n
<1>5. /\ conv' \in [Convs -> Documents]
      /\ conv'[NextConv].status = "open"
      /\ conv'[NextConv].customer = call[k].customer
      /\ conv'[NextConv].lastAt = issued
      /\ \A c \in Convs \ {NextConv} : conv'[c] = conv[c]
  BY <1>4 DEF n
<1>6. QED
  BY <1>1, <1>5 DEF Create

LEMMA CreateKeepsStore ==
  ASSUME StoreInv, NEW k \in Calls, Create(k)
  PROVE  StoreInv'
<1>0. Typed
  BY DEF StoreInv
<1>1. CASE UniqueOpenAdmits(call[k].customer)
  <2> DEFINE n == NextConv
  <2>1. /\ n \in Convs /\ ~Exists(n)
        /\ conv' \in [Convs -> Documents]
        /\ conv'[n].status = "open" /\ conv'[n].customer = call[k].customer
        /\ \A c \in Convs \ {n} : conv'[c] = conv[c]
        /\ Ends(k, n)
        /\ UNCHANGED <<messages, issued, changes, closedAt, untouched, overtaken, misreported>>
    BY <1>0, <1>1, CreateWrites
  <2> HIDE DEF n
  <2>2. n \in Nat
    BY <2>1 DEF Convs
  <2>3. /\ call' \in [Calls -> CallRecords]
        /\ call'[k].pc \in {"idle", "answered"} /\ call'[k].id <= issued
        /\ \A j \in Calls \ {k} : call'[j] = call[j]
    BY <1>0, <2>1, <2>2, EndsMoves
  <2>4. \A c \in Convs : Exists(c) => conv'[c] = conv[c]
    BY <2>1
  <2>5. Typed'
    <3>1. CallOK(k)'
      BY <2>1, <2>3 DEF CallOK, Resolving
    <3>2. ASSUME NEW j \in Calls \ {k}
          PROVE  CallOK(j)'
      <4>1. CallOK(j) /\ call'[j] = call[j]
        BY <1>0, <2>3 DEF Typed
      <4>2. QED
        BY <2>1, <2>4, <4>1 DEF CallOK, Exists
    <3>3. QED
      BY <1>0, <2>1, <2>3, <3>1, <3>2 DEF Typed
  <2>6. \A j \in Calls : At(j, "insert")' => call'[j] = call[j] /\ At(j, "insert")
    BY <2>3 DEF At
  <2>7. IdsAreOnce'
    BY <2>1, <2>6 DEF StoreInv, IdsAreOnce
  <2>8. OneOpen'
    <3>1. \A c \in Convs : Open(c) => conv[c].customer # call[k].customer
      BY <1>1 DEF UniqueOpenAdmits, OpenOf
    <3>2. QED
      BY <2>1, <3>1 DEF StoreInv, OneOpen, Open
  <2>9. ClosedAdmits'
    <3>1. \A c \in Convs : conv'[c].status = "closed" => conv'[c] = conv[c]
      BY <2>1
    <3>2. \A m \in messages : m.conv \in Convs
      BY <1>0 DEF Typed, MessageDocs
    <3>3. \A j \in Calls : At(j, "insert") => call[j].conv \in Convs
      BY <1>0 DEF Typed, CallOK, At
    <3>4. QED
      BY <2>1, <2>6, <3>1, <3>2, <3>3 DEF StoreInv, ClosedAdmits, ClosedHoldsOnlyAdmitted
  <2>10. QED
    BY <2>5, <2>7, <2>8, <2>9 DEF StoreInv
<1>2. CASE ~UniqueOpenAdmits(call[k].customer)
  <2>1. Goes(k, "findAgain") /\ UNCHANGED data /\ call[k].pc \in Resolving
    BY <1>2 DEF Create, data, At, Resolving
  <2>2. QED
    BY <2>1, GoesKeepsStore DEF Pcs
<1>3. QED
  BY <1>1, <1>2

LEMMA RefuseSendKeepsStore ==
  ASSUME StoreInv, NEW k \in Calls, RefuseSend(k)
  PROVE  StoreInv'
BY EndsKeepsStore DEF RefuseSend, Failed

LEMMA InsertFailsKeepsStore ==
  ASSUME StoreInv, NEW k \in Calls, InsertFails(k)
  PROVE  StoreInv'
BY EndsKeepsStore DEF InsertFails, Failed

LEMMA AnnounceKeepsStore ==
  ASSUME StoreInv, NEW k \in Calls, AnnounceStatus(k)
  PROVE  StoreInv'
<1>1. call[k].conv \in Nat
  BY DEF StoreInv, Typed, CallRecords
<1>2. QED
  BY <1>1, EndsKeepsStore DEF AnnounceStatus

\* An admitted send has an id nobody had, for an open conversation.
LEMMA AdmitMoves ==
  ASSUME Typed, NEW k \in Calls, AdmitSend(k)
  PROVE  /\ call' \in [Calls -> CallRecords]
         /\ call'[k].pc = "insert" /\ call'[k].id = issued + 1
         /\ call'[k].conv = call[k].conv /\ call'[k].arg = call[k].arg
         /\ call'[k].http = call[k].http
         /\ \A j \in Calls \ {k} : call'[j] = call[j]
         /\ issued + 1 \in 1..MaxMessages /\ issued' = issued + 1
         /\ call[k].conv \in Convs /\ Open(call[k].conv) /\ call[k].arg \in Bodies
         /\ UNCHANGED <<conv, messages, changes, closedAt, untouched, overtaken, misreported>>
<1>1. /\ call[k] \in CallRecords /\ CallOK(k) /\ At(k, "check")
      /\ issued \in 0..MaxMessages /\ issued < MaxMessages
  BY DEF Typed, AdmitSend
<1> DEFINE n == issued + 1
<1>2. n \in 1..MaxMessages
  BY <1>1
<1> HIDE DEF n
<1> DEFINE y == [call[k] EXCEPT !.pc = "insert"]
           z == [y EXCEPT !.id = n]
<1>3. /\ y \in CallRecords /\ y.pc = "insert" /\ y.arg = call[k].arg
      /\ y.conv = call[k].conv /\ y.http = call[k].http
  BY <1>1 DEF CallRecords, Pcs
<1>4. call' = [call EXCEPT ![k] = z]
  BY DEF AdmitSend, n
<1> HIDE DEF y
<1>5. /\ z \in CallRecords /\ z.pc = y.pc /\ z.arg = y.arg /\ z.id = n
      /\ z.conv = y.conv /\ z.http = y.http
  BY <1>2, <1>3 DEF CallRecords
<1> HIDE DEF z
<1>6. /\ call' \in [Calls -> CallRecords]
      /\ call'[k] = z /\ \A j \in Calls \ {k} : call'[j] = call[j]
  BY <1>4, <1>5 DEF Typed
<1>7. call[k].conv \in Convs /\ call[k].arg \in Bodies
  BY <1>1 DEF CallOK, At
<1>8. QED
  BY <1>2, <1>3, <1>5, <1>6, <1>7 DEF AdmitSend, RequireOpenConversation, n

LEMMA AdmitKeepsStore ==
  ASSUME StoreInv, NEW k \in Calls, AdmitSend(k)
  PROVE  StoreInv'
<1>0. Typed
  BY DEF StoreInv
<1>1. /\ call' \in [Calls -> CallRecords]
      /\ call'[k].pc = "insert" /\ call'[k].id = issued + 1
      /\ call'[k].conv = call[k].conv /\ call'[k].arg = call[k].arg
      /\ \A j \in Calls \ {k} : call'[j] = call[j]
      /\ issued + 1 \in 1..MaxMessages /\ issued' = issued + 1
      /\ call[k].conv \in Convs /\ Open(call[k].conv) /\ call[k].arg \in Bodies
      /\ UNCHANGED <<conv, messages, changes, closedAt, untouched, overtaken, misreported>>
  BY <1>0, AdmitMoves
<1>2. /\ issued \in Nat /\ \A m \in messages : m.id \in Nat /\ m.conv \in Convs
      /\ \A j \in Calls : call[j].id \in Nat /\ call[j].id <= issued
      /\ \A j \in Calls : At(j, "insert") => call[j].conv \in Convs
  BY <1>0 DEF Typed, MessageDocs, CallRecords, CallOK, Ids, At
<1>3. Typed'
  <2>1. CallOK(k)'
    BY <1>1, <1>2 DEF CallOK, Resolving, Ids, Exists, Open
  <2>2. ASSUME NEW j \in Calls \ {k}
        PROVE  CallOK(j)'
    <3>1. CallOK(j) /\ call'[j] = call[j] /\ call[j].id <= issued'
      BY <1>0, <1>1, <1>2 DEF Typed
    <3>2. QED
      BY <1>1, <3>1 DEF CallOK, Exists
  <2>3. QED
    BY <1>0, <1>1, <2>1, <2>2 DEF Typed
<1>4. IdsAreOnce'
  <2>1. \A m \in messages : m.id <= issued /\ m.id # issued + 1 /\ m.id <= issued'
    BY <1>1, <1>2 DEF StoreInv, IdsAreOnce
  <2>2. \A j \in Calls : call[j].id # issued + 1
    BY <1>2
  <2>3. ASSUME NEW i \in Calls, NEW j \in Calls, At(i, "insert")', At(j, "insert")',
               call'[i].id = call'[j].id
        PROVE  i = j
    BY <1>1, <2>2, <2>3 DEF StoreInv, IdsAreOnce, At
  <2>4. ASSUME NEW j \in Calls, At(j, "insert")', NEW m \in messages
        PROVE  m.id # call'[j].id
    BY <1>1, <2>1, <2>4 DEF StoreInv, IdsAreOnce, At
  <2>5. QED
    BY <1>1, <2>1, <2>3, <2>4 DEF StoreInv, IdsAreOnce
<1>5. OneOpen'
  BY <1>1 DEF StoreInv, OneOpen, Open
<1>6. ClosedAdmits'
  BY <1>1 DEF StoreInv, ClosedAdmits, ClosedHoldsOnlyAdmitted, At, Open
<1>7. QED
  BY <1>3, <1>4, <1>5, <1>6 DEF StoreInv

LEMMA DocumentFields ==
  ASSUME Typed, NEW k \in Calls, At(k, "insert")
  PROVE  /\ call[k].id \in Ids /\ call[k].conv \in Convs /\ call[k].arg \in Bodies
         /\ Exists(call[k].conv) /\ call[k].id <= issued
         /\ Document(k) \in MessageDocs /\ Document(k).id = call[k].id
         /\ Document(k).conv = call[k].conv /\ Document(k).body = call[k].arg
<1>1. /\ call[k].id \in Ids /\ call[k].conv \in Convs /\ call[k].arg \in Bodies
      /\ Exists(call[k].conv) /\ call[k].id <= issued
  BY DEF Typed, CallOK, At
<1>2. QED
  BY <1>1 DEF Document, MessageDocs

\* A send is stored, whatever its caller is told.
LEMMA StoringKeepsStore ==
  ASSUME StoreInv, NEW k \in Calls, At(k, "insert"),
         messages' = messages \cup {Document(k)},
         call' \in [Calls -> CallRecords], CallOK(k)', call'[k].pc # "insert",
         \A j \in Calls \ {k} : call'[j] = call[j],
         UNCHANGED <<conv, issued, changes, closedAt, overtaken>>,
         untouched' \subseteq untouched \cup {call[k].id},
         misreported' \subseteq misreported \cup {call[k].id}
  PROVE  StoreInv'
<1>0. Typed
  BY DEF StoreInv
<1> DEFINE new == Document(k)
<1>2. /\ call[k].id \in Ids /\ call[k].id <= issued
      /\ new \in MessageDocs /\ new.id = call[k].id /\ new.conv = call[k].conv
  BY <1>0, DocumentFields
<1>3. messages' = messages \cup {new}
  OBVIOUS
<1> HIDE DEF new
<1>4. Typed'
  <2>1. ASSUME NEW j \in Calls \ {k}
        PROVE  CallOK(j)'
    <3>1. CallOK(j) /\ call'[j] = call[j]
      BY <1>0 DEF Typed
    <3>2. QED
      BY <3>1 DEF CallOK, Exists
  <2>2. misreported' \subseteq {m.id : m \in messages'}
    BY <1>0, <1>2, <1>3 DEF Typed
  <2>3. QED
    BY <1>0, <1>2, <1>3, <2>1, <2>2 DEF Typed
<1>5. ASSUME NEW j \in Calls, At(j, "insert")'
      PROVE  j # k /\ call'[j] = call[j] /\ At(j, "insert")
  BY <1>5 DEF At
<1>6. IdsAreOnce'
  <2>1. \A m \in messages : m.id # new.id
    BY <1>2 DEF StoreInv, IdsAreOnce
  <2>2. \A m, n \in messages' : m.id = n.id => m = n
    BY <1>3, <2>1 DEF StoreInv, IdsAreOnce
  <2>3. \A m \in messages' : m.id <= issued'
    BY <1>2, <1>3 DEF StoreInv, IdsAreOnce
  <2>4. ASSUME NEW j \in Calls, At(j, "insert")', NEW m \in messages'
        PROVE  m.id # call'[j].id
    <3>1. /\ j # k /\ call'[j] = call[j] /\ At(j, "insert")
      BY <1>5, <2>4
    <3>2. call[j].id # call[k].id
      BY <3>1 DEF StoreInv, IdsAreOnce
    <3>3. QED
      BY <1>2, <1>3, <3>1, <3>2 DEF StoreInv, IdsAreOnce
  <2>5. ASSUME NEW i \in Calls, NEW j \in Calls, At(i, "insert")', At(j, "insert")',
               call'[i].id = call'[j].id
        PROVE  i = j
    BY <1>5, <2>5 DEF StoreInv, IdsAreOnce
  <2>6. QED
    BY <2>2, <2>3, <2>4, <2>5 DEF IdsAreOnce
<1>7. OneOpen'
  BY DEF StoreInv, OneOpen, Open
<1>8. ClosedAdmits'
  <2>1. conv[new.conv].status = "closed" => new.id <= closedAt[new.conv]
    BY <1>2 DEF StoreInv, ClosedAdmits
  <2>2. QED
    BY <1>3, <1>5, <2>1 DEF StoreInv, ClosedAdmits, ClosedHoldsOnlyAdmitted
<1>9. QED
  BY <1>4, <1>6, <1>7, <1>8 DEF StoreInv

LEMMA InsertKeepsStore ==
  ASSUME StoreInv, NEW k \in Calls, Insert(k)
  PROVE  StoreInv'
<1>1. Typed /\ "touch" \in Pcs /\ Goes(k, "touch") /\ At(k, "insert")
  BY DEF StoreInv, Pcs, Insert
<1>2. /\ call' \in [Calls -> CallRecords]
      /\ call'[k].pc = "touch" /\ call'[k].id = call[k].id
      /\ call'[k].conv = call[k].conv /\ call'[k].arg = call[k].arg
      /\ \A j \in Calls \ {k} : call'[j] = call[j]
  BY <1>1, GoesMoves
<1>3. UNCHANGED <<conv, issued>>
  BY DEF Insert
<1>4. CallOK(k)'
  BY <1>1, <1>2, <1>3, DocumentFields DEF CallOK, Resolving, Exists
<1>5. QED
  BY <1>1, <1>2, <1>4, StoringKeepsStore DEF Insert

LEMMA InsertReplyLostKeepsStore ==
  ASSUME StoreInv, NEW k \in Calls, InsertReplyLost(k)
  PROVE  StoreInv'
<1>1. Typed /\ Ends(k, Failed) /\ Failed \in Nat /\ At(k, "insert") /\ UNCHANGED issued
  BY DEF StoreInv, InsertReplyLost, Failed
<1>2. /\ call' \in [Calls -> CallRecords]
      /\ call'[k].pc \in {"idle", "answered"} /\ call'[k].id <= issued
      /\ \A j \in Calls \ {k} : call'[j] = call[j]
  BY <1>1, EndsMoves
<1>3. CallOK(k)' /\ call'[k].pc # "insert"
  BY <1>1, <1>2 DEF CallOK, Resolving
<1>4. QED
  BY <1>1, <1>2, <1>3, StoringKeepsStore DEF InsertReplyLost

\* A write of one conversation that leaves its customer, and either its status
\* or the index's admission.
LEMMA TouchWrites ==
  ASSUME Typed, NEW c \in Convs, NEW i \in 0..MaxMessages,
         conv' = [conv EXCEPT ![c].lastAt = i]
  PROVE  /\ conv' \in [Convs -> Documents]
         /\ conv'[c].lastAt = i
         /\ \A d \in Convs : /\ conv'[d].status = conv[d].status
                             /\ conv'[d].customer = conv[d].customer
                             /\ d # c => conv'[d] = conv[d]
<1> DEFINE y == [conv[c] EXCEPT !.lastAt = i]
<1>1. conv[c] \in Documents /\ conv \in [Convs -> Documents]
  BY DEF Typed
<1>2. /\ y \in Documents /\ y.lastAt = i /\ y.status = conv[c].status
      /\ y.customer = conv[c].customer
  BY <1>1 DEF Documents
<1>3. conv' = [conv EXCEPT ![c] = y]
  OBVIOUS
<1> HIDE DEF y
<1>4. QED
  BY <1>1, <1>2, <1>3

LEMMA StatusWrites ==
  ASSUME Typed, NEW c \in Convs, NEW status \in {"open", "closed"},
         conv' = [conv EXCEPT ![c].status = status]
  PROVE  /\ conv' \in [Convs -> Documents]
         /\ conv'[c].status = status
         /\ \A d \in Convs : /\ conv'[d].customer = conv[d].customer
                             /\ conv'[d].lastAt = conv[d].lastAt
                             /\ d # c => conv'[d] = conv[d]
<1> DEFINE y == [conv[c] EXCEPT !.status = status]
<1>1. conv[c] \in Documents /\ conv \in [Convs -> Documents]
  BY DEF Typed
<1>2. /\ y \in Documents /\ y.status = status /\ y.lastAt = conv[c].lastAt
      /\ y.customer = conv[c].customer
  BY <1>1 DEF Documents
<1>3. conv' = [conv EXCEPT ![c] = y]
  OBVIOUS
<1> HIDE DEF y
<1>4. QED
  BY <1>1, <1>2, <1>3

\* Steps after the insertion: no status changes, and no send is admitted.
LEMMA LateStepsKeepStore ==
  ASSUME StoreInv,
         conv' \in [Convs -> Documents],
         \A c \in Convs : /\ conv'[c].status = conv[c].status
                          /\ conv'[c].customer = conv[c].customer,
         UNCHANGED <<messages, issued, changes, closedAt, misreported>>,
         untouched' \subseteq Ids, overtaken' \subseteq Ids,
         call' \in [Calls -> CallRecords],
         \A j \in Calls : call'[j] = call[j] \/ (CallOK(j)' /\ call'[j].pc # "insert")
  PROVE  StoreInv'
<1>1. Typed'
  <2>1. ASSUME NEW j \in Calls, call'[j] = call[j]
        PROVE  CallOK(j)'
    <3>1. CallOK(j)
      BY DEF StoreInv, Typed
    <3>2. QED
      BY <2>1, <3>1 DEF CallOK, Exists
  <2>2. \A j \in Calls : CallOK(j)'
    BY <2>1
  <2>3. QED
    BY <2>2 DEF StoreInv, Typed
<1>2. ASSUME NEW j \in Calls, At(j, "insert")'
      PROVE  call'[j] = call[j] /\ At(j, "insert") /\ call[j].conv \in Convs
  <2>1. call'[j] = call[j] /\ At(j, "insert")
    BY <1>2 DEF At
  <2>2. QED
    BY <2>1 DEF StoreInv, Typed, CallOK, At
<1>3. IdsAreOnce'
  BY <1>2 DEF StoreInv, IdsAreOnce
<1>4. OneOpen'
  BY DEF StoreInv, OneOpen, Open
<1>5. ClosedAdmits'
  <2>1. \A m \in messages : m.conv \in Convs
    BY DEF StoreInv, Typed, MessageDocs
  <2>2. QED
    BY <1>2, <2>1 DEF StoreInv, ClosedAdmits, ClosedHoldsOnlyAdmitted
<1>6. QED
  BY <1>1, <1>3, <1>4, <1>5 DEF StoreInv

LEMMA TouchKeepsStore ==
  ASSUME StoreInv, NEW k \in Calls, Touch(k)
  PROVE  StoreInv'
<1>1. Typed /\ "publish" \in Pcs /\ Goes(k, "publish") /\ At(k, "touch")
  BY DEF StoreInv, Pcs, Touch
<1>2. /\ call[k].conv \in Convs /\ call[k].arg \in Bodies /\ Exists(call[k].conv)
      /\ call[k].id \in Ids /\ call[k].id <= issued /\ call[k].id \in 0..MaxMessages
  BY <1>1 DEF Typed, CallOK, At, CallRecords
<1>3. /\ call' \in [Calls -> CallRecords]
      /\ call'[k].pc = "publish" /\ call'[k].id = call[k].id
      /\ call'[k].conv = call[k].conv /\ call'[k].arg = call[k].arg
      /\ \A j \in Calls \ {k} : call'[j] = call[j]
  BY <1>1, GoesMoves
<1>4. /\ conv' \in [Convs -> Documents]
      /\ \A c \in Convs : /\ conv'[c].status = conv[c].status
                          /\ conv'[c].customer = conv[c].customer
      /\ UNCHANGED <<messages, issued, changes, closedAt, untouched, overtaken, misreported>>
  BY <1>1, <1>2, TouchWrites DEF Touch
<1>5. CallOK(k)'
  BY <1>2, <1>3, <1>4 DEF CallOK, Resolving, Exists
<1>6. untouched' \subseteq Ids /\ overtaken' \subseteq Ids
  BY <1>1, <1>4 DEF Typed
<1>7. QED
  BY <1>3, <1>4, <1>5, <1>6, LateStepsKeepStore

LEMMA TouchFailsKeepsStore ==
  ASSUME StoreInv, NEW k \in Calls, TouchFails(k)
  PROVE  StoreInv'
<1>1. Typed /\ "publish" \in Pcs /\ Goes(k, "publish") /\ At(k, "touch")
  BY DEF StoreInv, Pcs, TouchFails
<1>2. /\ call[k].conv \in Convs /\ call[k].arg \in Bodies /\ Exists(call[k].conv)
      /\ call[k].id \in Ids /\ call[k].id <= issued
  BY <1>1 DEF Typed, CallOK, At
<1>3. /\ call' \in [Calls -> CallRecords]
      /\ call'[k].pc = "publish" /\ call'[k].id = call[k].id
      /\ call'[k].conv = call[k].conv /\ call'[k].arg = call[k].arg
      /\ \A j \in Calls \ {k} : call'[j] = call[j]
  BY <1>1, GoesMoves
<1>4. /\ UNCHANGED <<conv, messages, issued, changes, closedAt, overtaken, misreported>>
      /\ untouched' = untouched \cup {call[k].id}
      /\ conv' \in [Convs -> Documents]
  BY <1>1 DEF TouchFails, Typed
<1>5. CallOK(k)'
  BY <1>2, <1>3, <1>4 DEF CallOK, Resolving, Exists
<1>6. untouched' \subseteq Ids /\ overtaken' \subseteq Ids
  BY <1>1, <1>2, <1>4 DEF Typed
<1>7. QED
  BY <1>3, <1>4, <1>5, <1>6, LateStepsKeepStore

LEMMA PublishKeepsStore ==
  ASSUME StoreInv, NEW k \in Calls, Publish(k)
  PROVE  StoreInv'
<1>1. Typed /\ Ends(k, call[k].id) /\ At(k, "publish")
  BY DEF StoreInv, Publish
<1>2. call[k].id \in Ids /\ call[k].id \in Nat
  BY <1>1 DEF Typed, CallOK, At, Ids
<1>3. /\ call' \in [Calls -> CallRecords]
      /\ call'[k].pc \in {"idle", "answered"} /\ call'[k].id <= issued
      /\ \A j \in Calls \ {k} : call'[j] = call[j]
  BY <1>1, <1>2, EndsMoves
<1>4. /\ UNCHANGED <<conv, messages, issued, changes, closedAt, untouched, misreported>>
      /\ overtaken' \subseteq overtaken \cup {call[k].id}
      /\ conv' \in [Convs -> Documents]
  BY <1>1 DEF Publish, Typed
<1>5. CallOK(k)'
  BY <1>3, <1>4 DEF CallOK, Resolving
<1>6. untouched' \subseteq Ids /\ overtaken' \subseteq Ids
  BY <1>1, <1>2, <1>4 DEF Typed
<1>7. QED
  BY <1>3, <1>4, <1>5, <1>6, LateStepsKeepStore

\* What the death of the process leaves of a call somebody waits for.
LEMMA ToldCall ==
  /\ [Idle EXCEPT !.pc = "answered", !.http = TRUE] \in CallRecords
  /\ [Idle EXCEPT !.pc = "answered", !.http = TRUE].pc = "answered"
  /\ [Idle EXCEPT !.pc = "answered", !.http = TRUE].id = 0
  /\ [Idle EXCEPT !.pc = "answered", !.http = TRUE].arg = "none"
  /\ [Idle EXCEPT !.pc = "answered", !.http = TRUE].answer = 0
<1> DEFINE y == [Idle EXCEPT !.pc = "answered"]
<1>1. y \in CallRecords /\ y.pc = "answered" /\ y.id = 0 /\ y.arg = "none" /\ y.answer = 0
  BY IdleCall DEF CallRecords, Pcs
<1>2. [Idle EXCEPT !.pc = "answered", !.http = TRUE] = [y EXCEPT !.http = TRUE]
  OBVIOUS
<1> HIDE DEF y
<1>3. QED
  BY <1>1, <1>2 DEF CallRecords

LEMMA ProcessDiesKeepsStore ==
  ASSUME StoreInv, ProcessDies
  PROVE  StoreInv'
<1>1. Typed
  BY DEF StoreInv
<1> DEFINE told == [Idle EXCEPT !.pc = "answered", !.http = TRUE]
<1>2. told \in CallRecords /\ told.pc = "answered" /\ told.id = 0
  BY ToldCall
<1>3. /\ call' = [k \in Calls |-> IF call[k].http THEN told ELSE Idle]
      /\ UNCHANGED <<conv, messages, issued, changes, closedAt, misreported>>
  BY DEF ProcessDies
<1> HIDE DEF told
<1>4. /\ call' \in [Calls -> CallRecords]
      /\ \A j \in Calls : call'[j].pc \in {"idle", "answered"} /\ call'[j].id = 0
  BY <1>2, <1>3, IdleCall
<1>5. \A j \in Calls : CallOK(j)' /\ call'[j].pc # "insert"
  BY <1>1, <1>3, <1>4 DEF CallOK, Resolving, Typed
<1>6. \A j \in Calls : At(j, "touch") \/ At(j, "publish") => call[j].id \in Ids
  BY <1>1 DEF Typed, CallOK, At
<1>7. untouched' \subseteq Ids /\ overtaken' \subseteq Ids
  BY <1>1, <1>6 DEF ProcessDies, Typed
<1>8. conv' \in [Convs -> Documents]
  BY <1>1, <1>3 DEF Typed
<1>9. QED
  BY <1>3, <1>4, <1>5, <1>7, <1>8, LateStepsKeepStore

\* What setStatus writes, when the index lets it.
LEMMA StatusIsWritten ==
  ASSUME Typed, NEW k \in Calls, At(k, "setStatus"), WriteStatusOf(k),
         NEW c, c = call[k].conv, NEW status, status = call[k].arg
  PROVE  /\ c \in Convs /\ Exists(c) /\ status \in {"open", "closed"}
         /\ conv' \in [Convs -> Documents]
         /\ conv'[c].status = status
         /\ \A d \in Convs : /\ conv'[d].customer = conv[d].customer
                             /\ conv'[d].lastAt = conv[d].lastAt
                             /\ d # c => conv'[d] = conv[d]
         /\ changes' = changes + 1
         /\ closedAt' \in [Convs -> 0..MaxMessages]
         /\ status = "closed" =>
              closedAt'[c] = IF Open(c) THEN issued ELSE closedAt[c]
         /\ \A d \in Convs \ {c} : closedAt'[d] = closedAt[d]
<1>1. c \in Convs /\ Exists(c) /\ status \in {"open", "closed"}
  BY DEF Typed, CallOK, At
<1>2. /\ conv' = [conv EXCEPT ![c].status = status]
      /\ changes' = changes + 1
      /\ closedAt' = [closedAt EXCEPT ![c] =
                        CASE status = "open" -> 0
                          [] status = "closed" /\ Open(c) -> issued
                          [] OTHER -> @]
  BY DEF WriteStatusOf
<1> DEFINE x == CASE status = "open" -> 0
                  [] status = "closed" /\ Open(c) -> issued
                  [] OTHER -> closedAt[c]
<1>3. /\ x \in 0..MaxMessages
      /\ status = "closed" => x = IF Open(c) THEN issued ELSE closedAt[c]
  <2>1. closedAt[c] \in 0..MaxMessages /\ issued \in 0..MaxMessages
    BY <1>1 DEF Typed
  <2>2. CASE status = "open"
    BY <2>2
  <2>3. CASE status = "closed"
    BY <2>1, <2>3
  <2>4. QED
    BY <1>1, <2>2, <2>3
<1>4. closedAt' = [closedAt EXCEPT ![c] = x]
  BY <1>2
<1> HIDE DEF x
<1>5. /\ closedAt' \in [Convs -> 0..MaxMessages] /\ closedAt'[c] = x
      /\ \A d \in Convs \ {c} : closedAt'[d] = closedAt[d]
  BY <1>1, <1>3, <1>4 DEF Typed
<1>6. /\ conv' \in [Convs -> Documents]
      /\ conv'[c].status = status
      /\ \A d \in Convs : /\ conv'[d].customer = conv[d].customer
                          /\ conv'[d].lastAt = conv[d].lastAt
                          /\ d # c => conv'[d] = conv[d]
  BY <1>1, <1>2, StatusWrites
<1>7. QED
  BY <1>1, <1>2, <1>3, <1>5, <1>6

\* The status is written, whether or not the caller hears of it.
LEMMA WritingKeepsStore ==
  ASSUME StoreInv, NEW k \in Calls, At(k, "setStatus"), ~StatusRefused(k), WriteStatusOf(k),
         call' \in [Calls -> CallRecords], call'[k].id = call[k].id \/ call'[k].id <= issued,
         \/ call'[k].pc \in {"idle", "answered"}
         \/ call'[k].pc = "announce" /\ call'[k].conv = call[k].conv /\ call'[k].arg = call[k].arg,
         \A j \in Calls \ {k} : call'[j] = call[j],
         UNCHANGED <<messages, issued, untouched, overtaken, misreported>>
  PROVE  StoreInv'
<1> DEFINE c == call[k].conv
           status == call[k].arg
<1>0. Typed
  BY DEF StoreInv
<1>1. ~(status = "open" /\ ~Open(c) /\ ~UniqueOpenAdmits(conv[c].customer))
  BY DEF StatusRefused
<1>2. /\ c \in Convs /\ Exists(c) /\ status \in {"open", "closed"}
      /\ conv' \in [Convs -> Documents]
      /\ conv'[c].status = status
      /\ \A d \in Convs : /\ conv'[d].customer = conv[d].customer
                          /\ d # c => conv'[d] = conv[d]
      /\ changes' = changes + 1
      /\ closedAt' \in [Convs -> 0..MaxMessages]
      /\ status = "closed" => closedAt'[c] = IF Open(c) THEN issued ELSE closedAt[c]
      /\ \A d \in Convs \ {c} : closedAt'[d] = closedAt[d]
  BY <1>0, StatusIsWritten
<1>3. /\ call'[k].pc \in {"idle", "answered", "announce"} /\ call'[k].id <= issued
      /\ call'[k].pc = "announce" => call'[k].conv = c /\ call'[k].arg = status
  BY <1>0 DEF Typed, CallOK
<1>4. \A d \in Convs : Exists(d) => conv'[d].status # "absent"
  BY <1>2 DEF Exists
<1> HIDE DEF c, status
<1>5. Typed'
  <2>1. call[k].id <= issued /\ changes \in Nat
    BY <1>0 DEF Typed, CallOK
  <2>2. CallOK(k)'
    BY <1>2, <1>3, <1>4, <2>1 DEF CallOK, Resolving, Exists
  <2>3. ASSUME NEW j \in Calls \ {k}
        PROVE  CallOK(j)'
    <3>1. CallOK(j) /\ call'[j] = call[j] /\ call[j] \in CallRecords
      BY <1>0, <1>3 DEF Typed
    <3>2. call[j].since <= changes => call[j].since <= changes'
      BY <1>2, <2>1, <3>1 DEF CallRecords
    <3>3. QED
      BY <1>2, <1>4, <3>1, <3>2 DEF CallOK, Exists
  <2>4. QED
    BY <1>0, <1>2, <1>3, <2>1, <2>2, <2>3 DEF Typed
<1>6. \A j \in Calls : At(j, "insert")' => call'[j] = call[j] /\ At(j, "insert")
  BY <1>3 DEF At
<1>7. IdsAreOnce'
  BY <1>2, <1>6 DEF StoreInv, IdsAreOnce
<1>8. OneOpen'
  <2>1. CASE status = "open" /\ ~Open(c)
    <3>1. \A d \in Convs : Open(d) => conv[d].customer # conv[c].customer
      BY <1>1, <2>1 DEF UniqueOpenAdmits, OpenOf, c, status
    <3>2. QED
      BY <1>2, <3>1 DEF StoreInv, OneOpen, Open
  <2>2. CASE status # "open" \/ Open(c)
    <3>1. \A d \in Convs : Open(d)' => Open(d)
      BY <1>2, <2>2 DEF Open
    <3>2. QED
      BY <1>2, <3>1 DEF StoreInv, OneOpen
  <2>3. QED
    BY <2>1, <2>2
<1>9. ClosedAdmits'
  <2>1. \A m \in messages : m.conv \in Convs /\ m.id <= issued
    BY <1>0 DEF Typed, MessageDocs, StoreInv, IdsAreOnce
  <2>2. \A j \in Calls : At(j, "insert") => call[j].conv \in Convs /\ call[j].id <= issued
    BY <1>0 DEF Typed, CallOK, At
  <2>3. status = "closed" /\ ~Open(c) => conv[c].status = "closed"
    <3>1. conv[c].status \in {"absent", "open", "closed"}
      BY <1>0, <1>2 DEF Typed, Documents
    <3>2. QED
      BY <1>2, <3>1 DEF Open, Exists
  <2>4. ASSUME NEW d \in Convs, NEW i, i <= issued, conv'[d].status = "closed",
               conv[d].status = "closed" => i <= closedAt[d]
        PROVE  i <= closedAt'[d]
    BY <1>2, <2>3, <2>4 DEF Open
  <2>5. ASSUME NEW m \in messages', conv'[m.conv].status = "closed"
        PROVE  m.id <= closedAt'[m.conv]
    BY <1>2, <2>1, <2>4, <2>5 DEF StoreInv, ClosedAdmits, ClosedHoldsOnlyAdmitted
  <2>6. ASSUME NEW j \in Calls, At(j, "insert")', conv'[call'[j].conv].status = "closed"
        PROVE  call'[j].id <= closedAt'[call'[j].conv]
    BY <1>6, <2>2, <2>4, <2>6 DEF StoreInv, ClosedAdmits
  <2>7. QED
    BY <2>5, <2>6 DEF ClosedAdmits, ClosedHoldsOnlyAdmitted
<1>10. QED
  BY <1>5, <1>7, <1>8, <1>9 DEF StoreInv
LEMMA SetStatusKeepsStore ==
  ASSUME StoreInv, NEW k \in Calls, SetStatus(k)
  PROVE  StoreInv'
<1>1. Typed /\ At(k, "setStatus") /\ Failed \in Nat /\ "announce" \in Pcs
  BY DEF StoreInv, SetStatus, Failed, Pcs
<1>2. CASE StatusRefused(k)
  <2>1. Ends(k, Failed) /\ UNCHANGED data
    BY <1>2 DEF SetStatus, data
  <2>2. QED
    BY <1>1, <2>1, EndsKeepsStore
<1>3. CASE ~StatusRefused(k)
  <2>1. /\ WriteStatusOf(k) /\ Goes(k, "announce")
        /\ UNCHANGED <<messages, issued, untouched, overtaken, misreported>>
    BY <1>3 DEF SetStatus
  <2>2. /\ call' \in [Calls -> CallRecords]
        /\ call'[k].pc = "announce" /\ call'[k].id = call[k].id
        /\ call'[k].conv = call[k].conv /\ call'[k].arg = call[k].arg
        /\ \A j \in Calls \ {k} : call'[j] = call[j]
    BY <1>1, <2>1, GoesMoves
  <2>3. QED
    BY <1>1, <1>3, <2>1, <2>2, WritingKeepsStore
<1>4. QED
  BY <1>2, <1>3

LEMMA SetStatusReplyLostKeepsStore ==
  ASSUME StoreInv, NEW k \in Calls, SetStatusReplyLost(k)
  PROVE  StoreInv'
<1>1. Typed /\ Ends(k, Failed) /\ Failed \in Nat
  BY DEF StoreInv, SetStatusReplyLost, Failed
<1>2. /\ call' \in [Calls -> CallRecords]
      /\ call'[k].pc \in {"idle", "answered"} /\ call'[k].id <= issued
      /\ \A j \in Calls \ {k} : call'[j] = call[j]
  BY <1>1, EndsMoves
<1>3. QED
  BY <1>2, WritingKeepsStore DEF SetStatusReplyLost

----------------------------------------------------------------------------
(* The invariant, and what it implies.                                     *)

Operation(k) ==
  \/ Find(k) \/ Create(k) \/ FindAgain(k)
  \/ RefuseSend(k) \/ AdmitSend(k)
  \/ Insert(k) \/ InsertFails(k) \/ InsertReplyLost(k)
  \/ Touch(k) \/ TouchFails(k) \/ Publish(k)
  \/ SetStatus(k) \/ SetStatusReplyLost(k) \/ AnnounceStatus(k)

LEMMA OperationKeepsStore ==
  ASSUME StoreInv, NEW k \in Calls, Operation(k)
  PROVE  StoreInv'
BY FindKeepsStore, CreateKeepsStore, FindAgainKeepsStore, RefuseSendKeepsStore,
   AdmitKeepsStore, InsertKeepsStore, InsertFailsKeepsStore, InsertReplyLostKeepsStore,
   TouchKeepsStore, TouchFailsKeepsStore, PublishKeepsStore, SetStatusKeepsStore,
   SetStatusReplyLostKeepsStore, AnnounceKeepsStore
   DEF Operation

LEMMA StutterKeepsStore ==
  ASSUME StoreInv, UNCHANGED store
  PROVE  StoreInv'
<1>1. /\ UNCHANGED data /\ \A j \in Calls : call'[j] = call[j]
      /\ call' \in [Calls -> CallRecords]
  BY DEF StoreInv, Typed, store
<1>2. QED
  BY <1>1, MovesKeepStore

\* An operation moves its own call, and nothing disappears.
LEMMA OperationGrows ==
  ASSUME StoreInv, NEW k \in Calls, Operation(k)
  PROVE  /\ messages \subseteq messages'
         /\ \A c \in Convs : Exists(c) => Exists(c)'
         /\ \A j \in Calls \ {k} : call'[j] = call[j]
<1>1. Typed
  BY DEF StoreInv
<1>2. messages \subseteq messages'
  BY DEF Operation, Find, Create, FindAgain, RefuseSend, AdmitSend, Insert, InsertFails,
         InsertReplyLost, Touch, TouchFails, Publish, SetStatus, SetStatusReplyLost,
         AnnounceStatus, data
<1>3. ASSUME NEW pc, Goes(k, pc)
      PROVE  \A j \in Calls \ {k} : call'[j] = call[j]
  BY <1>1, <1>3 DEF Goes, Typed
<1>4. ASSUME NEW answer, Ends(k, answer)
      PROVE  \A j \in Calls \ {k} : call'[j] = call[j]
  BY <1>1, <1>4 DEF Ends, Typed
<1>5. \A j \in Calls \ {k} : call'[j] = call[j]
  <2>1. CASE AdmitSend(k)
    BY <1>1, <2>1, AdmitMoves
  <2>2. CASE ~AdmitSend(k)
    BY <1>3, <1>4, <2>2
       DEF Operation, Find, Create, FindAgain, RefuseSend, Insert, InsertFails,
           InsertReplyLost, Touch, TouchFails, Publish, SetStatus, SetStatusReplyLost,
           AnnounceStatus
  <2>3. QED
    BY <2>1, <2>2
<1>6. \A c \in Convs : Exists(c) => Exists(c)'
  <2>1. CASE UNCHANGED conv
    BY <2>1 DEF Exists
  <2>2. CASE Create(k) /\ ~UNCHANGED conv
    <3>1. UniqueOpenAdmits(call[k].customer)
      BY <2>2 DEF Create
    <3>2. QED
      BY <1>1, <2>2, <3>1, CreateWrites DEF Exists
  <2>3. CASE (SetStatus(k) \/ SetStatusReplyLost(k)) /\ ~UNCHANGED conv
    <3>1. WriteStatusOf(k) /\ At(k, "setStatus")
      BY <2>3 DEF SetStatus, SetStatusReplyLost
    <3>2. QED
      BY <1>1, <3>1, StatusIsWritten DEF Exists
  <2>4. CASE Touch(k)
    <3>1. call[k].conv \in Convs /\ call[k].id \in 0..MaxMessages
      BY <1>1, <2>4 DEF Touch, At, Typed, CallOK, CallRecords
    <3>2. QED
      BY <1>1, <2>4, <3>1, TouchWrites DEF Touch, Exists
  <2>5. QED
    BY <2>1, <2>2, <2>3, <2>4
       DEF Operation, Find, FindAgain, RefuseSend, AdmitSend, Insert, InsertFails,
           InsertReplyLost, TouchFails, Publish, AnnounceStatus, data
<1>7. QED
  BY <1>2, <1>5, <1>6

\* Distinct ids make as many ids as messages.
LEMMA AsManyIds ==
  ASSUME StoreInv
  PROVE  /\ IsFiniteSet(messages)
         /\ Cardinality({m.id : m \in messages}) = Cardinality(messages)
<1> DEFINE ids == {m.id : m \in messages}
           f == [m \in messages |-> m.id]
<1>1. ids \in SUBSET Ids
  BY DEF StoreInv, Typed, MessageDocs
<1>2. IsFiniteSet(Ids)
  BY FS_Interval DEF Ids
<1>3. IsFiniteSet(ids)
  BY <1>1, <1>2, FS_Subset
<1>4. f \in Injection(messages, ids) /\ f \in Surjection(messages, ids)
  <2>1. \A m, n \in messages : m.id = n.id => m = n
    BY DEF StoreInv, IdsAreOnce
  <2>2. f \in [messages -> ids]
    OBVIOUS
  <2>3. \A a, b \in messages : f[a] = f[b] => a = b
    BY <2>1
  <2>4. \A i \in ids : \E m \in messages : f[m] = i
    OBVIOUS
  <2> HIDE DEF f, ids
  <2>5. QED
    BY <2>2, <2>3, <2>4 DEF Injection, Surjection, IsInjective
<1>5. QED
  BY <1>3, <1>4, FS_Injection

LEMMA StoreTypeCorrect ==
  ASSUME StoreInv
  PROVE  StoreTypeOK /\ ClosedHoldsOnlyAdmitted
<1>1. OneOpenPerCustomer
  <2>1. ASSUME NEW u \in Customers
        PROVE  Cardinality(OpenOf(u)) <= 1
    <3>1. \A a, b \in OpenOf(u) : a = b
      BY DEF StoreInv, OneOpen, OpenOf
    <3>2. QED
      BY <3>1, AtMostOne
  <2>2. QED
    BY <2>1 DEF OneOpenPerCustomer
<1>2. \A k \in Calls : call[k].conv \in Convs \cup {NoConv} /\ call[k].id \in 0..issued
  <2>1. ASSUME NEW k \in Calls
        PROVE  call[k].conv \in 0..MaxConvs /\ call[k].id \in 0..MaxMessages
                 /\ call[k].id <= issued /\ issued \in Nat
    BY DEF StoreInv, Typed, CallRecords, CallOK
  <2>2. QED
    BY <2>1 DEF Convs, NoConv
<1>3. QED
  BY <1>1, <1>2, AsManyIds DEF StoreInv, Typed, StoreTypeOK, ClosedAdmits

----------------------------------------------------------------------------
(* lastMessageAt.                                                          *)

\* A send past its insertion has its message; a message has its conversation.
Carried ==
  /\ \A k \in Calls : call[k].pc \in Stored =>
       \E m \in messages : m.id = call[k].id /\ m.conv = call[k].conv
  /\ \A m \in messages : Exists(m.conv)

IsNewest(c, i) ==
  /\ \E m \in messages : m.conv = c /\ m.id = i
  /\ \A m \in messages : m.conv = c => m.id <= i

\* A send to c will still date it with its newest message i, or be overtaken.
Underway(c, i) ==
  \E k \in Calls :
    /\ call[k].conv = c
    /\ \/ call[k].pc \in Stored /\ call[k].id < i
       \/ At(k, "touch") /\ call[k].id = i

Dated ==
  \A c \in Convs, i \in Ids :
    IsNewest(c, i) =>
      \/ i <= conv[c].lastAt
      \/ i \in untouched
      \/ \E m \in messages : m.conv = c /\ m.id \in overtaken
      \/ Underway(c, i)

DatesInv == Carried /\ Dated

\* Steps that store no message, date none, and move no send past its insertion.
LEMMA OtherStepsKeepDates ==
  ASSUME StoreInv, DatesInv,
         UNCHANGED <<messages, untouched, overtaken>>,
         \A c \in Convs : Exists(c) => Exists(c)' /\ conv'[c].lastAt = conv[c].lastAt,
         \A j \in Calls : call[j].pc \in Stored => call'[j] = call[j],
         \A j \in Calls : call'[j].pc \in Stored => call'[j] = call[j]
  PROVE  DatesInv'
<1>1. \A m \in messages : m.conv \in Convs /\ Exists(m.conv)
  BY DEF StoreInv, Typed, MessageDocs, DatesInv, Carried
<1>2. Carried'
  <2>1. ASSUME NEW k \in Calls, call'[k].pc \in Stored
        PROVE  \E m \in messages' : m.id = call'[k].id /\ m.conv = call'[k].conv
    <3>1. call'[k] = call[k]
      BY <2>1
    <3>2. \E m \in messages : m.id = call[k].id /\ m.conv = call[k].conv
      BY <2>1, <3>1 DEF DatesInv, Carried
    <3>3. QED
      BY <3>1, <3>2
  <2>2. \A m \in messages' : Exists(m.conv)'
    BY <1>1
  <2>3. QED
    BY <2>1, <2>2 DEF Carried
<1>3. Dated'
  <2> SUFFICES ASSUME NEW c \in Convs, NEW i \in Ids, IsNewest(c, i)'
               PROVE  \/ i <= conv'[c].lastAt
                      \/ i \in untouched'
                      \/ \E m \in messages' : m.conv = c /\ m.id \in overtaken'
                      \/ Underway(c, i)'
    BY DEF Dated
  <2>1. IsNewest(c, i)
    BY DEF IsNewest
  <2>2. conv'[c].lastAt = conv[c].lastAt
    BY <1>1, <2>1 DEF IsNewest
  <2>3. Underway(c, i) => Underway(c, i)'
    <3>1. ASSUME NEW k \in Calls, call[k].conv = c,
                 \/ call[k].pc \in Stored /\ call[k].id < i
                 \/ At(k, "touch") /\ call[k].id = i
          PROVE  Underway(c, i)'
      <4>1. call[k].pc \in Stored
        BY <3>1 DEF At, Stored
      <4>2. call'[k] = call[k]
        BY <4>1
      <4>3. QED
        BY <3>1, <4>2 DEF Underway, At
    <3>2. QED
      BY <3>1 DEF Underway
  <2>4. QED
    BY <2>1, <2>2, <2>3 DEF DatesInv, Dated
<1>4. QED
  BY <1>2, <1>3 DEF DatesInv

LEMMA InsertKeepsDates ==
  ASSUME StoreInv, DatesInv, NEW k \in Calls, Insert(k)
  PROVE  DatesInv'
<1>1. Typed /\ "touch" \in Pcs /\ Goes(k, "touch") /\ At(k, "insert")
  BY DEF StoreInv, Pcs, Insert
<1>2. /\ call'[k].pc = "touch" /\ call'[k].id = call[k].id
      /\ call'[k].conv = call[k].conv
      /\ \A j \in Calls \ {k} : call'[j] = call[j]
      /\ UNCHANGED <<conv, untouched, overtaken>>
  BY <1>1, GoesMoves DEF Insert
<1> DEFINE new == Document(k)
<1>3. /\ new.id = call[k].id /\ new.conv = call[k].conv /\ new.id \in Ids
      /\ new.conv \in Convs /\ Exists(new.conv)
      /\ messages' = messages \cup {new}
  BY <1>1, DocumentFields DEF Insert
<1> HIDE DEF new
<1>4. Carried'
  <2>1. ASSUME NEW j \in Calls, call'[j].pc \in Stored
        PROVE  \E m \in messages' : m.id = call'[j].id /\ m.conv = call'[j].conv
    <3>1. CASE j = k
      BY <1>2, <1>3, <3>1
    <3>2. CASE j # k
      <4>1. call'[j] = call[j]
        BY <1>2, <3>2
      <4>2. \E m \in messages : m.id = call[j].id /\ m.conv = call[j].conv
        BY <2>1, <4>1 DEF DatesInv, Carried
      <4>3. QED
        BY <1>3, <4>1, <4>2
    <3>3. QED
      BY <3>1, <3>2
  <2>2. \A m \in messages' : Exists(m.conv)'
    BY <1>2, <1>3 DEF DatesInv, Carried, Exists
  <2>3. QED
    BY <2>1, <2>2 DEF Carried
<1>5. Dated'
  <2> SUFFICES ASSUME NEW c \in Convs, NEW i \in Ids, IsNewest(c, i)'
               PROVE  \/ i <= conv'[c].lastAt
                      \/ i \in untouched'
                      \/ \E m \in messages' : m.conv = c /\ m.id \in overtaken'
                      \/ Underway(c, i)'
    BY DEF Dated
  <2>1. CASE new.conv = c
    <3>1. new.id <= i
      BY <1>3, <2>1 DEF IsNewest
    <3>2. new.id < i \/ new.id = i
      BY <1>3, <3>1 DEF Ids
    <3>3. Underway(c, i)'
      BY <1>2, <1>3, <2>1, <3>2 DEF Underway, Stored, At
    <3>4. QED
      BY <3>3
  <2>2. CASE new.conv # c
    <3>1. IsNewest(c, i)
      BY <1>3, <2>2 DEF IsNewest
    <3>2. Underway(c, i) => Underway(c, i)'
      <4>1. ASSUME NEW j \in Calls, call[j].conv = c,
                   \/ call[j].pc \in Stored /\ call[j].id < i
                   \/ At(j, "touch") /\ call[j].id = i
            PROVE  Underway(c, i)'
        <5>1. call'[j] = call[j]
          BY <1>2, <1>3, <2>2, <4>1
        <5>2. QED
          BY <4>1, <5>1 DEF Underway, At
      <4>2. QED
        BY <4>1 DEF Underway
    <3>3. QED
      BY <1>2, <1>3, <3>1, <3>2 DEF DatesInv, Dated
  <2>3. QED
    BY <2>1, <2>2
<1>6. QED
  BY <1>4, <1>5 DEF DatesInv

\* The message of an insertion reported as failed is not touched.
LEMMA InsertReplyLostKeepsDates ==
  ASSUME StoreInv, DatesInv, NEW k \in Calls, InsertReplyLost(k)
  PROVE  DatesInv'
<1>1. Typed /\ Ends(k, Failed) /\ Failed \in Nat /\ At(k, "insert")
  BY DEF StoreInv, InsertReplyLost, Failed
<1>2. /\ call'[k].pc \in {"idle", "answered"} /\ call[k].pc \notin Stored
      /\ \A j \in Calls \ {k} : call'[j] = call[j]
  BY <1>1, EndsMoves DEF Stored, At
<1> DEFINE new == Document(k)
<1>3. /\ new.id = call[k].id /\ new.conv \in Convs /\ Exists(new.conv)
      /\ messages' = messages \cup {new}
      /\ untouched' = untouched \cup {new.id}
      /\ UNCHANGED <<conv, overtaken>>
  BY <1>1, DocumentFields DEF InsertReplyLost
<1> HIDE DEF new
<1>4. \A j \in Calls : call'[j].pc \in Stored => j # k /\ call'[j] = call[j]
  BY <1>2 DEF Stored
<1>5. Carried'
  <2>1. ASSUME NEW j \in Calls, call'[j].pc \in Stored
        PROVE  \E m \in messages' : m.id = call'[j].id /\ m.conv = call'[j].conv
    <3>1. call'[j] = call[j]
      BY <1>4, <2>1
    <3>2. \E m \in messages : m.id = call[j].id /\ m.conv = call[j].conv
      BY <2>1, <3>1 DEF DatesInv, Carried
    <3>3. QED
      BY <1>3, <3>1, <3>2
  <2>2. \A m \in messages' : Exists(m.conv)'
    BY <1>3 DEF DatesInv, Carried, Exists
  <2>3. QED
    BY <2>1, <2>2 DEF Carried
<1>6. Dated'
  <2> SUFFICES ASSUME NEW c \in Convs, NEW i \in Ids, IsNewest(c, i)', i # new.id
               PROVE  \/ i <= conv'[c].lastAt
                      \/ i \in untouched'
                      \/ \E m \in messages' : m.conv = c /\ m.id \in overtaken'
                      \/ Underway(c, i)'
    BY <1>3 DEF Dated
  <2>1. IsNewest(c, i)
    BY <1>3 DEF IsNewest
  <2>2. Underway(c, i) => Underway(c, i)'
    <3>1. ASSUME NEW j \in Calls, call[j].conv = c,
                 \/ call[j].pc \in Stored /\ call[j].id < i
                 \/ At(j, "touch") /\ call[j].id = i
          PROVE  Underway(c, i)'
      <4>1. call'[j] = call[j]
        BY <1>2, <3>1 DEF At, Stored
      <4>2. QED
        BY <3>1, <4>1 DEF Underway, At
    <3>2. QED
      BY <3>1 DEF Underway
  <2>3. QED
    BY <1>3, <2>1, <2>2 DEF DatesInv, Dated
<1>7. QED
  BY <1>5, <1>6 DEF DatesInv

\* A send past its insertion has a conversation and an id.
LEMMA StoredCall ==
  ASSUME Typed, NEW k \in Calls, call[k].pc \in Stored
  PROVE  /\ call[k].conv \in Convs /\ Exists(call[k].conv)
         /\ call[k].id \in Ids /\ call[k].id \in 0..MaxMessages
BY DEF Typed, CallOK, Stored, CallRecords

\* The two ways of going on to "publish".
LEMMA DatingKeepsDates ==
  ASSUME StoreInv, DatesInv, NEW k \in Calls, At(k, "touch"),
         call'[k].pc = "publish", call'[k].id = call[k].id, call'[k].conv = call[k].conv,
         \A j \in Calls \ {k} : call'[j] = call[j],
         UNCHANGED <<messages, overtaken>>, untouched \subseteq untouched',
         \A c \in Convs : /\ Exists(c) => Exists(c)'
                          /\ c # call[k].conv => conv'[c].lastAt = conv[c].lastAt,
         \/ conv'[call[k].conv].lastAt = call[k].id
         \/ /\ conv'[call[k].conv].lastAt = conv[call[k].conv].lastAt
            /\ call[k].id \in untouched'
  PROVE  DatesInv'
<1>1. /\ call[k].conv \in Convs /\ call[k].id \in Ids
      /\ \A m \in messages : m.conv \in Convs /\ m.id \in Ids
  BY StoredCall DEF StoreInv, Typed, Stored, At, MessageDocs
<1>2. Carried'
  <2>1. ASSUME NEW j \in Calls, call'[j].pc \in Stored
        PROVE  \E m \in messages : m.id = call'[j].id /\ m.conv = call'[j].conv
    <3>1. call[j].pc \in Stored /\ call'[j].id = call[j].id /\ call'[j].conv = call[j].conv
      BY <2>1 DEF At, Stored
    <3>2. QED
      BY <3>1 DEF DatesInv, Carried
  <2>2. \A m \in messages : Exists(m.conv)'
    BY <1>1 DEF DatesInv, Carried
  <2>3. QED
    BY <2>1, <2>2 DEF Carried
<1>3. Dated'
  <2> SUFFICES ASSUME NEW c \in Convs, NEW i \in Ids, IsNewest(c, i)'
               PROVE  \/ i <= conv'[c].lastAt
                      \/ i \in untouched'
                      \/ \E m \in messages' : m.conv = c /\ m.id \in overtaken'
                      \/ Underway(c, i)'
    BY DEF Dated
  <2>1. IsNewest(c, i)
    BY DEF IsNewest
  <2>2. CASE c = call[k].conv
    <3>1. PICK m \in messages : m.id = call[k].id /\ m.conv = call[k].conv
      BY DEF DatesInv, Carried, Stored, At
    <3>2. call[k].id <= i
      BY <2>1, <2>2, <3>1 DEF IsNewest
    <3>3. CASE call[k].id = i
      <4>1. CASE conv'[c].lastAt = call[k].id
        BY <1>1, <2>2, <3>3, <4>1 DEF Ids
      <4>2. CASE call[k].id \in untouched'
        BY <3>3, <4>2
      <4>3. QED
        BY <2>2, <4>1, <4>2
    <3>4. CASE call[k].id < i
      BY <2>2, <3>4 DEF Underway, Stored
    <3>5. QED
      BY <1>1, <3>2, <3>3, <3>4 DEF Ids
  <2>3. CASE c # call[k].conv
    <3>1. Underway(c, i) => Underway(c, i)'
      <4>1. ASSUME NEW j \in Calls, call[j].conv = c,
                   \/ call[j].pc \in Stored /\ call[j].id < i
                   \/ At(j, "touch") /\ call[j].id = i
            PROVE  Underway(c, i)'
        <5>1. call'[j] = call[j]
          BY <2>3, <4>1
        <5>2. QED
          BY <4>1, <5>1 DEF Underway, At
      <4>2. QED
        BY <4>1 DEF Underway
    <3>2. QED
      BY <2>1, <2>3, <3>1 DEF DatesInv, Dated
  <2>4. QED
    BY <2>2, <2>3
<1>4. QED
  BY <1>2, <1>3 DEF DatesInv

LEMMA TouchKeepsDates ==
  ASSUME StoreInv, DatesInv, NEW k \in Calls, Touch(k)
  PROVE  DatesInv'
<1>1. Typed /\ "publish" \in Pcs /\ Goes(k, "publish") /\ At(k, "touch")
  BY DEF StoreInv, Pcs, Touch
<1>2. call[k].conv \in Convs /\ call[k].id \in 0..MaxMessages
  BY <1>1, StoredCall DEF Stored, At
<1>3. /\ call'[k].pc = "publish" /\ call'[k].id = call[k].id
      /\ call'[k].conv = call[k].conv
      /\ \A j \in Calls \ {k} : call'[j] = call[j]
  BY <1>1, GoesMoves
<1>4. /\ conv'[call[k].conv].lastAt = call[k].id
      /\ \A c \in Convs : /\ conv'[c].status = conv[c].status
                          /\ c # call[k].conv => conv'[c] = conv[c]
      /\ UNCHANGED <<messages, untouched, overtaken>>
  BY <1>1, <1>2, TouchWrites DEF Touch
<1>5. QED
  BY <1>1, <1>3, <1>4, DatingKeepsDates DEF Exists

LEMMA TouchFailsKeepsDates ==
  ASSUME StoreInv, DatesInv, NEW k \in Calls, TouchFails(k)
  PROVE  DatesInv'
<1>1. Typed /\ "publish" \in Pcs /\ Goes(k, "publish") /\ At(k, "touch")
  BY DEF StoreInv, Pcs, TouchFails
<1>2. /\ call'[k].pc = "publish" /\ call'[k].id = call[k].id
      /\ call'[k].conv = call[k].conv
      /\ \A j \in Calls \ {k} : call'[j] = call[j]
  BY <1>1, GoesMoves
<1>3. /\ UNCHANGED <<conv, messages, overtaken>>
      /\ untouched' = untouched \cup {call[k].id}
  BY DEF TouchFails
<1>4. \A c \in Convs : Exists(c) => Exists(c)'
  BY <1>3 DEF Exists
<1>5. QED
  BY <1>1, <1>2, <1>3, <1>4, DatingKeepsDates

LEMMA PublishKeepsDates ==
  ASSUME StoreInv, DatesInv, NEW k \in Calls, Publish(k)
  PROVE  DatesInv'
<1>1. Typed /\ Ends(k, call[k].id) /\ At(k, "publish") /\ call[k].pc \in Stored
  BY DEF StoreInv, Publish, At, Stored
<1>2. call[k].conv \in Convs /\ call[k].id \in Ids /\ call[k].id \in Nat
  BY <1>1, StoredCall DEF Ids
<1>3. /\ call'[k].pc \in {"idle", "answered"}
      /\ \A j \in Calls \ {k} : call'[j] = call[j]
  BY <1>1, <1>2, EndsMoves
<1>4. /\ UNCHANGED <<conv, messages, untouched>>
      /\ overtaken \subseteq overtaken'
      /\ Newer(call[k].id) => call[k].id \in overtaken'
  BY DEF Publish
<1>5. \A j \in Calls : call'[j].pc \in Stored => j # k /\ call'[j] = call[j]
  BY <1>3 DEF Stored
<1>6. Carried'
  BY <1>4, <1>5 DEF DatesInv, Carried, Exists
<1>7. Dated'
  <2> SUFFICES ASSUME NEW c \in Convs, NEW i \in Ids, IsNewest(c, i)'
               PROVE  \/ i <= conv'[c].lastAt
                      \/ i \in untouched'
                      \/ \E m \in messages' : m.conv = c /\ m.id \in overtaken'
                      \/ Underway(c, i)'
    BY DEF Dated
  <2>1. IsNewest(c, i)
    BY <1>4 DEF IsNewest
  <2>2. ASSUME NEW j \in Calls, call[j].conv = c,
               \/ call[j].pc \in Stored /\ call[j].id < i
               \/ At(j, "touch") /\ call[j].id = i
        PROVE  \/ Underway(c, i)'
               \/ \E m \in messages' : m.conv = c /\ m.id \in overtaken'
    <3>1. CASE j # k
      BY <1>3, <2>2, <3>1 DEF Underway, At
    <3>2. CASE j = k
      <4>1. call[k].id < i /\ call[k].conv = c
        BY <1>1, <2>2, <3>2 DEF At
      <4>2. Newer(call[k].id)
        BY <2>1, <4>1 DEF IsNewest, Newer
      <4>3. \E m \in messages : m.id = call[k].id /\ m.conv = call[k].conv
        BY <1>1 DEF DatesInv, Carried
      <4>4. QED
        BY <1>4, <4>1, <4>2, <4>3
    <3>3. QED
      BY <3>1, <3>2
  <2>3. CASE Underway(c, i)
    BY <2>2, <2>3 DEF Underway
  <2>4. CASE ~Underway(c, i)
    BY <1>4, <2>1, <2>4 DEF DatesInv, Dated
  <2>5. QED
    BY <2>3, <2>4
<1>8. QED
  BY <1>6, <1>7 DEF DatesInv

\* The steps that leave the dates alone.
LEMMA DatesUnaffected ==
  ASSUME StoreInv, DatesInv, NEW k \in Calls,
         \/ Find(k) \/ Create(k) \/ FindAgain(k) \/ RefuseSend(k) \/ AdmitSend(k)
         \/ InsertFails(k) \/ SetStatus(k) \/ SetStatusReplyLost(k) \/ AnnounceStatus(k)
  PROVE  DatesInv'
<1>1. Typed
  BY DEF StoreInv
<1>2. /\ UNCHANGED <<messages, untouched, overtaken>>
      /\ call[k].pc \notin Stored
  BY DEF Find, Create, FindAgain, RefuseSend, AdmitSend, InsertFails, SetStatus,
         SetStatusReplyLost, AnnounceStatus, At, Stored, data
<1>3. \A c \in Convs : Exists(c) => Exists(c)' /\ conv'[c].lastAt = conv[c].lastAt
  <2>1. CASE UNCHANGED conv
    BY <2>1 DEF Exists
  <2>2. CASE Create(k) /\ ~UNCHANGED conv
    <3>1. UniqueOpenAdmits(call[k].customer)
      BY <2>2 DEF Create
    <3>2. QED
      BY <1>1, <2>2, <3>1, CreateWrites DEF Exists
  <2>3. CASE (SetStatus(k) \/ SetStatusReplyLost(k)) /\ ~UNCHANGED conv
    <3>1. WriteStatusOf(k) /\ At(k, "setStatus")
      BY <2>3 DEF SetStatus, SetStatusReplyLost
    <3>2. /\ conv'[call[k].conv].status = call[k].arg
          /\ call[k].arg \in {"open", "closed"}
          /\ \A d \in Convs : /\ conv'[d].lastAt = conv[d].lastAt
                              /\ d # call[k].conv => conv'[d] = conv[d]
      BY <1>1, <3>1, StatusIsWritten
    <3>3. QED
      BY <3>2 DEF Exists
  <2>4. QED
    BY <2>1, <2>2, <2>3
       DEF Find, FindAgain, RefuseSend, AdmitSend, InsertFails, AnnounceStatus, data
<1>4. /\ call'[k].pc \notin Stored
      /\ \A j \in Calls \ {k} : call'[j] = call[j]
  <2>1. ASSUME NEW pc \in Pcs \ Stored, Goes(k, pc)
        PROVE  call'[k].pc \notin Stored /\ \A j \in Calls \ {k} : call'[j] = call[j]
    BY <1>1, <2>1, GoesMoves
  <2>2. ASSUME NEW answer \in Nat, Ends(k, answer)
        PROVE  call'[k].pc \notin Stored /\ \A j \in Calls \ {k} : call'[j] = call[j]
    <3>1. /\ call'[k].pc \in {"idle", "answered"}
          /\ \A j \in Calls \ {k} : call'[j] = call[j]
      BY <1>1, <2>2, EndsMoves
    <3>2. QED
      BY <3>1 DEF Stored
  <2>3. {"create", "findAgain", "announce"} \subseteq Pcs \ Stored
    BY DEF Pcs, Stored
  <2>4. Failed \in Nat /\ call[k].conv \in Nat /\ \A u : \A c \in OpenOf(u) : c \in Nat
    BY <1>1, OpenOfConvs DEF Failed, Typed, CallRecords
  <2>5. CASE Find(k)
    BY <2>1, <2>2, <2>3, <2>4, <2>5 DEF Find
  <2>6. CASE Create(k)
    <3>1. UniqueOpenAdmits(call[k].customer) => Ends(k, NextConv) /\ NextConv \in Nat
      BY <1>1, <2>6, CreateWrites DEF Convs
    <3>2. QED
      BY <2>1, <2>2, <2>3, <2>6, <3>1 DEF Create
  <2>7. CASE FindAgain(k)
    BY <2>1, <2>2, <2>3, <2>4, <2>7 DEF FindAgain
  <2>8. CASE RefuseSend(k) \/ InsertFails(k)
    BY <2>2, <2>4, <2>8 DEF RefuseSend, InsertFails
  <2>9. CASE AdmitSend(k)
    BY <1>1, <2>9, AdmitMoves DEF Stored
  <2>10. CASE SetStatus(k) \/ SetStatusReplyLost(k)
    BY <2>1, <2>2, <2>3, <2>4, <2>10 DEF SetStatus, SetStatusReplyLost
  <2>11. CASE AnnounceStatus(k)
    BY <2>2, <2>4, <2>11 DEF AnnounceStatus
  <2>12. QED
    BY <2>5, <2>6, <2>7, <2>8, <2>9, <2>10, <2>11
<1>5. QED
  BY <1>2, <1>3, <1>4, OtherStepsKeepDates

LEMMA OperationKeepsDates ==
  ASSUME StoreInv, DatesInv, NEW k \in Calls, Operation(k)
  PROVE  DatesInv'
BY DatesUnaffected, InsertKeepsDates, InsertReplyLostKeepsDates, TouchKeepsDates,
   TouchFailsKeepsDates, PublishKeepsDates DEF Operation

\* Dates are not disturbed by the beginning of a call in a slot that is past
\* no insertion, nor by the end of one.
LEMMA CallsKeepDates ==
  ASSUME StoreInv, DatesInv, NEW k \in Calls, UNCHANGED data,
         call[k].pc \notin Stored, call'[k].pc \notin Stored,
         \A j \in Calls \ {k} : call'[j] = call[j]
  PROVE  DatesInv'
<1>1. /\ UNCHANGED <<messages, untouched, overtaken>>
      /\ \A c \in Convs : Exists(c) => Exists(c)' /\ conv'[c].lastAt = conv[c].lastAt
  BY DEF data, Exists
<1>2. QED
  BY <1>1, OtherStepsKeepDates

LEMMA StutterKeepsDates ==
  ASSUME DatesInv, UNCHANGED store
  PROVE  DatesInv'
BY DEF store, data, DatesInv, Carried, Dated, IsNewest, Underway, At, Exists

\* What dies with the process: a send past its insertion that is older than the
\* newest message was overtaken, and the newest was not touched.
LEMMA ProcessDiesKeepsDates ==
  ASSUME StoreInv, DatesInv, ProcessDies
  PROVE  DatesInv'
<1>1. /\ UNCHANGED <<conv, messages>>
      /\ \A k \in Calls : At(k, "touch") => call[k].id \in untouched'
      /\ \A k \in Calls : call[k].pc \in Stored /\ Newer(call[k].id) => call[k].id \in overtaken'
      /\ untouched \subseteq untouched' /\ overtaken \subseteq overtaken'
  BY DEF ProcessDies, At, Stored
<1>2. \A k \in Calls : call'[k].pc \in {"idle", "answered"}
  BY ToldCall, IdleCall DEF ProcessDies
<1>3. \A m \in messages : m.conv \in Convs /\ m.id \in Ids /\ m.id \in Nat
  BY DEF StoreInv, Typed, MessageDocs, Ids
<1>4. Carried'
  BY <1>1, <1>2, <1>3 DEF DatesInv, Carried, Stored, Exists
<1>5. Dated'
  <2> SUFFICES ASSUME NEW c \in Convs, NEW i \in Ids, IsNewest(c, i)
               PROVE  \/ i <= conv[c].lastAt
                      \/ i \in untouched'
                      \/ \E m \in messages : m.conv = c /\ m.id \in overtaken'
    BY <1>1 DEF Dated, IsNewest
  <2>1. CASE Underway(c, i)
    <3>1. PICK k \in Calls : /\ call[k].conv = c
                             /\ \/ call[k].pc \in Stored /\ call[k].id < i
                                \/ At(k, "touch") /\ call[k].id = i
      BY <2>1 DEF Underway
    <3>2. CASE At(k, "touch") /\ call[k].id = i
      BY <1>1, <3>2
    <3>3. CASE call[k].pc \in Stored /\ call[k].id < i
      <4>1. PICK m \in messages : m.id = call[k].id /\ m.conv = call[k].conv
        BY <3>3 DEF DatesInv, Carried
      <4>2. Newer(call[k].id)
        BY <3>3 DEF IsNewest, Newer
      <4>3. QED
        BY <1>1, <3>1, <3>3, <4>1, <4>2
    <3>4. QED
      BY <3>1, <3>2, <3>3
  <2>2. CASE ~Underway(c, i)
    BY <1>1, <2>2 DEF DatesInv, Dated
  <2>3. QED
    BY <2>1, <2>2
<1>6. QED
  BY <1>4, <1>5 DEF DatesInv

LEMMA DatesCorrect ==
  ASSUME StoreInv, DatesInv
  PROVE  LastMessageAtBehindOnly
<1> SUFFICES ASSUME NEW c \in Convs, Quiet(c),
                    NEW n \in messages, n.conv = c, conv[c].lastAt < n.id
             PROVE  Newest(c) \in untouched \/ \E m \in MessagesOf(c) : m.id \in overtaken
  BY DEF LastMessageAtBehindOnly
<1> DEFINE S == {m.id : m \in MessagesOf(c)} \cup {0}
           i == Newest(c)
<1>1. /\ \A m \in messages : m.id \in Ids
      /\ conv[c].lastAt \in 0..MaxMessages
  BY DEF StoreInv, Typed, MessageDocs, Documents
<1>2. S \in SUBSET (0..MaxMessages) /\ S # {}
  BY <1>1 DEF MessagesOf, Ids
<1>3. i \in S /\ \A j \in S : j <= i
  BY <1>2, GreatestNumber DEF Newest
<1>4. n.id \in S /\ n.id \in Ids
  BY <1>1 DEF MessagesOf
<1> HIDE DEF i
<1>5. i \in 0..MaxMessages /\ n.id <= i /\ i # 0 /\ i \in Ids /\ conv[c].lastAt < i
  <2>1. i \in 0..MaxMessages /\ n.id <= i /\ n.id \in 1..MaxMessages
    BY <1>2, <1>3, <1>4 DEF Ids
  <2> DEFINE d == conv[c].lastAt
             h == n.id
  <2>2. d \in 0..MaxMessages /\ d < h /\ h <= i /\ h \in 1..MaxMessages
    BY <1>1, <2>1
  <2> HIDE DEF d, h
  <2>3. i # 0 /\ i \in 1..MaxMessages /\ d < i
    BY <2>1, <2>2
  <2>4. QED
    BY <2>1, <2>3 DEF Ids, d
<1>6. IsNewest(c, i)
  <2>1. \E m \in messages : m.conv = c /\ m.id = i
    BY <1>3, <1>5 DEF MessagesOf
  <2>2. \A m \in messages : m.conv = c => m.id <= i
    BY <1>3 DEF MessagesOf
  <2>3. QED
    BY <2>1, <2>2 DEF IsNewest
<1>7. ~Underway(c, i)
  BY DEF Quiet, Underway, Sending, At, Stored
<1>8. ~(i <= conv[c].lastAt)
  BY <1>1, <1>5
<1>9. i \in untouched \/ \E m \in messages : m.conv = c /\ m.id \in overtaken
  BY <1>5, <1>6, <1>7, <1>8 DEF DatesInv, Dated
<1>10. QED
  BY <1>9 DEF i, MessagesOf
=============================================================================
