----------------------- MODULE RainCumulativeProofs -----------------------
(***************************************************************************)
(* Proofs about RainCumulative, for every gauge, any number of requests and *)
(* any number of instants.                                                  *)
(***************************************************************************)
EXTENDS RainCumulative, TLAPS

PCs == {"check", "fetch", "upsert", "write", "commit"}

\* A request is a record with these fields, or nil.
LEMMA RequestFields ==
  ASSUME TypeOK, NEW r \in Requests, req[r] # Nil
  PROVE  /\ req[r] \in Request /\ req[r].pc \in PCs
         /\ req[r].time \in Times /\ req[r].interval \in Amount
         /\ req[r].state \in BOOLEAN
BY DEF TypeOK, Request, PCs

\* Request r gets these fields, and the others stay as they are.
Becomes(r, pc, t, mm, st) ==
  /\ req' \in [Requests -> Request \union {Nil}]
  /\ req'[r] # Nil
  /\ req'[r].pc = pc /\ req'[r].time = t
  /\ req'[r].interval = mm /\ req'[r].state = st
  /\ \A q \in Requests : q # r => req'[q] = req[q]

LEMMA Replaced ==
  ASSUME TypeOK, NEW r \in Requests, NEW q \in Request,
         req' = [req EXCEPT ![r] = q]
  PROVE  Becomes(r, q.pc, q.time, q.interval, q.state)
BY NilAssumption DEF TypeOK, Becomes, Request

LEMMA SendEffect ==
  ASSUME TypeOK, NEW r \in Requests, NEW t \in Times, Send(r, t)
  PROVE  Becomes(r, "check", t, 0, FALSE)
<1> DEFINE new == [pc |-> "check", time |-> t, interval |-> 0, state |-> FALSE]
<1>1. /\ new \in Request /\ new.pc = "check" /\ new.time = t
      /\ new.interval = 0 /\ new.state = FALSE
  BY BoundAssumption DEF Request, Amount
<1>2. req' = [req EXCEPT ![r] = new]
  BY DEF Send
<1> HIDE DEF new
<1> QED BY <1>1, <1>2, Replaced

LEMMA GotoEffect ==
  ASSUME TypeOK, NEW r \in Requests, req[r] # Nil, NEW pc \in PCs,
         NEW mm \in Amount, Goto(r, pc, mm)
  PROVE  Becomes(r, pc, req[r].time, mm, req[r].state)
<1> DEFINE new == [req[r] EXCEPT !.pc = pc, !.interval = mm]
<1>1. /\ new \in Request /\ new.pc = pc /\ new.time = req[r].time
      /\ new.interval = mm /\ new.state = req[r].state
  BY RequestFields DEF Request, PCs
<1>2. req' = [req EXCEPT ![r] = new]
  BY RequestFields DEF Goto, TypeOK, Request
<1> HIDE DEF new
<1> QED BY <1>1, <1>2, Replaced

LEMMA UpsertEffect ==
  ASSUME TypeOK, NEW r \in Requests, Upsert(r)
  PROVE  Becomes(r, "write", req[r].time, req[r].interval, TRUE)
<1> DEFINE new == [req[r] EXCEPT !.pc = "write", !.state = TRUE]
<1>1. /\ new \in Request /\ new.pc = "write" /\ new.time = req[r].time
      /\ new.interval = req[r].interval /\ new.state = TRUE
  BY RequestFields DEF Upsert, At, Request, PCs
<1>2. req' = [req EXCEPT ![r] = new]
  BY RequestFields DEF Upsert, At, TypeOK, Request
<1> HIDE DEF new
<1> QED BY <1>1, <1>2, Replaced

LEMMA WriteEffect ==
  ASSUME TypeOK, NEW r \in Requests, Write(r)
  PROVE  Becomes(r, "commit", req[r].time, req[r].interval, req[r].state)
<1> DEFINE new == [req[r] EXCEPT !.pc = "commit"]
<1>1. /\ new \in Request /\ new.pc = "commit" /\ new.time = req[r].time
      /\ new.interval = req[r].interval /\ new.state = req[r].state
  BY RequestFields DEF Write, At, Request, PCs
<1>2. req' = [req EXCEPT ![r] = new]
  BY RequestFields DEF Write, At, TypeOK, Request
<1> HIDE DEF new
<1> QED BY <1>1, <1>2, Replaced

\* What a reading that passes the check of replays goes on with.
LEMMA CheckEffect ==
  ASSUME TypeOK, NEW r \in Requests, Check(r)
  PROVE  LET t == req[r].time IN
         /\ req[r] # Nil /\ req[r].pc = "check" /\ t \in Times
         /\ \/ Stored(t) /\ Becomes(r, "write", t, rows[t], req[r].state)
            \/ /\ ~Stored(t) /\ gauge[t] = 0
               /\ Becomes(r, "write", t, 0, req[r].state)
            \/ /\ ~Stored(t) /\ gauge[t] > 0
               /\ Becomes(r, "fetch", t, 0, req[r].state)
<1> DEFINE t == req[r].time
<1>1. /\ req[r] # Nil /\ req[r].pc = "check" /\ t \in Times
      /\ gauge[t] \in Nat /\ 0 \in Amount
      /\ Stored(t) => rows[t] \in Amount
  BY RequestFields, BoundAssumption DEF Check, At, TypeOK, Amount, Stored
<1>2. CASE Stored(t)
  BY <1>1, <1>2, GotoEffect DEF Check, PCs
<1>3. CASE ~Stored(t) /\ gauge[t] = 0
  BY <1>1, <1>3, GotoEffect DEF Check, PCs
<1>4. CASE ~Stored(t) /\ gauge[t] > 0
  BY <1>1, <1>4, GotoEffect DEF Check, PCs
<1> QED BY <1>1, <1>2, <1>3, <1>4

LEMMA FetchEffect ==
  ASSUME TypeOK, NEW r \in Requests, Fetch(r)
  PROVE  /\ Rise(req[r].time) \in Amount
         /\ Becomes(r, "upsert", req[r].time, Rise(req[r].time), req[r].state)
<1>1. /\ req[r] # Nil /\ req[r].time \in Times
      /\ Rise(req[r].time) \in Amount
  BY RequestFields, BoundAssumption DEF Fetch, At, Rise, Amount, TypeOK
<1> QED BY <1>1, GotoEffect DEF Fetch, PCs

\* A transaction ends.
LEMMA EndEffect ==
  ASSUME TypeOK, NEW r \in Requests, req' = [req EXCEPT ![r] = Nil]
  PROVE  /\ req' \in [Requests -> Request \union {Nil}]
         /\ req'[r] = Nil
         /\ \A q \in Requests : q # r => req'[q] = req[q]
BY DEF TypeOK

LEMMA TypeInit == Init => TypeOK
BY DEF Init, TypeOK

LEMMA TypeStep == TypeOK /\ [Next]_vars => TypeOK'
<1> SUFFICES ASSUME TypeOK, [Next]_vars PROVE TypeOK'
  OBVIOUS
<1>1. CASE UNCHANGED vars
  BY <1>1 DEF TypeOK, vars
<1>2. ASSUME NEW r \in Requests, NEW t \in Times, Send(r, t)
      PROVE  TypeOK'
  BY <1>2, SendEffect DEF Send, TypeOK, Becomes
<1>3. ASSUME NEW r \in Requests, RequestStep(r)
      PROVE  TypeOK'
  <2>1. CASE Check(r)
    BY <2>1, CheckEffect DEF Check, TypeOK, Becomes
  <2>2. CASE Fetch(r)
    BY <2>2, FetchEffect DEF Fetch, TypeOK, Becomes
  <2>3. CASE Upsert(r)
    BY <2>3, UpsertEffect DEF Upsert, TypeOK, Becomes
  <2>4. CASE Write(r)
    BY <2>4, WriteEffect DEF Write, TypeOK, Becomes
  <2>5. CASE Commit(r)
    <3>1. req[r] # Nil
      BY <2>5 DEF Commit, At
    <3>2. req' \in [Requests -> Request \union {Nil}]
      BY <2>5, EndEffect DEF Commit
    <3> QED BY <2>5, <3>1, <3>2, RequestFields DEF Commit, TypeOK
  <2>6. CASE Rollback(r)
    BY <2>6, EndEffect DEF Rollback, TypeOK
  <2> QED
    BY <1>3, <2>1, <2>2, <2>3, <2>4, <2>5, <2>6 DEF RequestStep
<1> QED BY <1>1, <1>2, <1>3 DEF Next

\* Every reachable state is well typed: an interval is never negative nor
\* more than the gauge can show.
THEOREM Typing == Spec => []TypeOK
BY TypeInit, TypeStep, PTL DEF Spec

-----------------------------------------------------------------------------
(***************************************************************************)
(* Requests in any order and any interleaving.  Alone, neither property is  *)
(* inductive: what a transaction carries from Fetch to Commit must be the   *)
(* difference of stored readings too, and one that writes no state row must *)
(* be a replay or show nothing.                                             *)
(***************************************************************************)
Difference(t, mm) ==
  \E u \in Times : Stored(u) /\ gauge[u] > 0 /\ mm = gauge[t] - gauge[u]

Carries(pc, t, mm, st) ==
  /\ pc \in {"check", "fetch", "upsert"} => ~st
  /\ pc \in {"fetch", "upsert"} \/ st => gauge[t] > 0
  /\ pc \in {"write", "commit"} /\ ~st => gauge[t] = 0 \/ Stored(t)
  /\ mm > 0 => Difference(t, mm)

CarriesAll ==
  \A r \in Requests : req[r] # Nil =>
    Carries(req[r].pc, req[r].time, req[r].interval, req[r].state)

HistoryInv == TypeOK /\ RowIsDifference /\ StateMatchesRows /\ CarriesAll

LEMMA HistoryInit == Init => HistoryInv
BY TypeInit DEF Init, HistoryInv, RowIsDifference, StateMatchesRows, CarriesAll,
                Stored

LEMMA NatTypes ==
  ASSUME TypeOK
  PROVE  /\ \A t \in Times : gauge[t] \in Nat
         /\ \A t \in Times : Stored(t) => rows[t] \in Nat
         /\ state # Nil => state \in Nat
BY BoundAssumption DEF TypeOK, Amount, Stored

\* Steps that store nothing: only the request of the step is looked at.
LEMMA HistoryKept ==
  ASSUME HistoryInv, UNCHANGED <<gauge, rows, state>>, TypeOK',
         NEW r \in Requests,
         req'[r] # Nil =>
           Carries(req'[r].pc, req'[r].time, req'[r].interval, req'[r].state),
         \A q \in Requests : q # r => req'[q] = req[q]
  PROVE  HistoryInv'
BY DEF HistoryInv, RowIsDifference, StateMatchesRows, CarriesAll, Carries,
       Difference, Stored

LEMMA HistoryStep == HistoryInv /\ [Next]_vars => HistoryInv'
<1> SUFFICES ASSUME HistoryInv, [Next]_vars PROVE HistoryInv'
  OBVIOUS
<1>a. TypeOK /\ TypeOK' /\ BoundAssumption
  BY TypeStep, BoundAssumption DEF HistoryInv
<1>b. /\ \A t \in Times : gauge[t] \in Nat
      /\ \A t \in Times : Stored(t) => rows[t] \in Nat
      /\ state # Nil => state \in Nat
  BY <1>a, NatTypes
<1>1. CASE UNCHANGED vars
  BY <1>1, <1>a DEF vars, HistoryInv, RowIsDifference, StateMatchesRows,
                 CarriesAll, Carries, Difference, Stored
<1>2. ASSUME NEW r \in Requests, NEW t \in Times, Send(r, t)
      PROVE  HistoryInv'
  <2>1. Becomes(r, "check", t, 0, FALSE) /\ UNCHANGED <<gauge, rows, state>>
    BY <1>2, <1>a, SendEffect DEF Send
  <2> QED BY <1>a, <2>1, HistoryKept DEF Becomes, Carries
<1>3. ASSUME NEW r \in Requests, req[r] # Nil, RequestStep(r)
      PROVE  HistoryInv'
  <2>b. PICK t \in Times : t = req[r].time
    BY <1>3, <1>a, RequestFields
  <2>a. /\ req[r].interval \in Nat /\ req[r].state \in BOOLEAN
        /\ Carries(req[r].pc, t, req[r].interval, req[r].state)
    BY <1>3, <1>a, <2>b, RequestFields, BoundAssumption
    DEF HistoryInv, CarriesAll, Amount
  <2>1. CASE Check(r)
    <3>1. /\ req[r].pc = "check"
          /\ \/ Stored(t) /\ Becomes(r, "write", t, rows[t], req[r].state)
             \/ gauge[t] = 0 /\ Becomes(r, "write", t, 0, req[r].state)
             \/ gauge[t] > 0 /\ Becomes(r, "fetch", t, 0, req[r].state)
      BY <1>a, <2>b, <2>1, CheckEffect
    <3>2. Stored(t) /\ rows[t] > 0 => Difference(t, rows[t])
      BY <2>b DEF HistoryInv, RowIsDifference, Difference
    <3>3. UNCHANGED <<gauge, rows, state>>
      BY <2>1 DEF Check
    <3>4. CASE Stored(t) /\ Becomes(r, "write", t, rows[t], req[r].state)
      BY <1>a, <2>a, <3>1, <3>2, <3>3, <3>4, HistoryKept DEF Becomes, Carries
    <3>5. CASE gauge[t] = 0 /\ Becomes(r, "write", t, 0, req[r].state)
      BY <1>a, <2>a, <3>1, <3>3, <3>5, HistoryKept DEF Becomes, Carries
    <3>6. CASE gauge[t] > 0 /\ Becomes(r, "fetch", t, 0, req[r].state)
      BY <1>a, <2>a, <3>1, <3>3, <3>6, HistoryKept DEF Becomes, Carries
    <3> QED BY <3>1, <3>4, <3>5, <3>6
  <2>2. CASE Fetch(r)
    <3>1. /\ req[r].pc = "fetch"
          /\ Becomes(r, "upsert", t, Rise(t), req[r].state)
          /\ UNCHANGED <<gauge, rows, state>>
      BY <1>a, <2>b, <2>2, FetchEffect DEF Fetch, At
    <3>2. Rise(t) > 0 => Difference(t, Rise(t))
      BY <1>b, <2>a DEF Rise, Difference, HistoryInv, StateMatchesRows
    <3> QED BY <1>a, <2>a, <3>1, <3>2, HistoryKept DEF Becomes, Carries
  <2>3. CASE Upsert(r)
    <3>1. /\ req[r].pc = "upsert"
          /\ Becomes(r, "write", t, req[r].interval, TRUE)
          /\ UNCHANGED <<gauge, rows, state>>
      BY <1>a, <2>b, <2>3, UpsertEffect DEF Upsert, At
    <3> QED BY <1>a, <2>a, <3>1, HistoryKept DEF Becomes, Carries
  <2>4. CASE Write(r)
    <3>1. /\ req[r].pc = "write"
          /\ Becomes(r, "commit", t, req[r].interval, req[r].state)
          /\ UNCHANGED <<gauge, rows, state>>
      BY <1>a, <2>b, <2>4, WriteEffect DEF Write, At
    <3> QED BY <1>a, <2>a, <3>1, HistoryKept DEF Becomes, Carries
  <2>5. CASE Commit(r)
    <3>1. /\ req[r].pc = "commit" /\ req'[r] = Nil
          /\ \A q \in Requests : q # r => req'[q] = req[q]
          /\ UNCHANGED gauge
      BY <1>a, <2>5, EndEffect DEF Commit, At
    <3>2. /\ rows'[t] = req[r].interval
          /\ \A u \in Times : u # t => rows'[u] = rows[u]
      BY <1>a, <2>5, <2>a, <2>b DEF Commit, TypeOK
    <3>3. Stored(t)' /\ \A u \in Times : Stored(u) => Stored(u)'
      BY <2>a, <3>2, NilAssumption DEF Stored
    <3>4. state' = IF req[r].state THEN gauge[t] ELSE state
      BY <2>b, <2>5 DEF Commit
    <3>5. \A u \in Times, mm \in Int : Difference(u, mm) => Difference(u, mm)'
      BY <3>1, <3>3 DEF Difference
    <3>6. RowIsDifference'
      <4> SUFFICES ASSUME NEW u \in Times, Stored(u)', rows'[u] > 0
                   PROVE  Difference(u, rows[u])'
        BY DEF RowIsDifference, Difference
      <4>1. CASE u = t
        BY <2>a, <3>2, <3>5, <4>1 DEF Carries
      <4>2. CASE u # t
        <5>1. Stored(u) /\ rows'[u] = rows[u] /\ rows[u] \in Nat
          BY <1>b, <3>2, <4>2 DEF Stored
        <5>2. Difference(u, rows[u])
          BY <5>1 DEF HistoryInv, RowIsDifference, Difference
        <5> QED BY <3>5, <5>1, <5>2
      <4> QED BY <4>1, <4>2
    <3>7. StateMatchesRows'
      <4>1. CASE req[r].state
        BY <1>b, <2>a, <3>1, <3>3, <3>4, <4>1, NilAssumption
        DEF StateMatchesRows, Carries
      <4>2. CASE ~req[r].state /\ state = Nil
        BY <2>a, <3>1, <3>2, <3>4, <4>2
        DEF HistoryInv, StateMatchesRows, Carries, Stored
      <4>3. CASE ~req[r].state /\ state # Nil
        BY <3>1, <3>3, <3>4, <4>3 DEF HistoryInv, StateMatchesRows
      <4> QED BY <4>1, <4>2, <4>3
    <3>8. CarriesAll'
      <4> SUFFICES ASSUME NEW q \in Requests, req'[q] # Nil
                   PROVE  Carries(req[q].pc, req[q].time, req[q].interval,
                                  req[q].state)' /\ req'[q] = req[q]
        BY DEF CarriesAll
      <4>1. req'[q] = req[q] /\ req[q] # Nil
        BY <3>1
      <4>2. Carries(req[q].pc, req[q].time, req[q].interval, req[q].state)
        BY <4>1 DEF HistoryInv, CarriesAll
      <4>3. req[q].time \in Times /\ req[q].interval \in Int
        BY <1>a, <4>1, RequestFields, BoundAssumption DEF Amount
      <4> QED BY <3>1, <3>3, <3>5, <4>1, <4>2, <4>3 DEF Carries
    <3> QED BY <1>a, <3>6, <3>7, <3>8 DEF HistoryInv
  <2>6. CASE Rollback(r)
    <3>1. /\ req'[r] = Nil /\ UNCHANGED <<gauge, rows, state>>
          /\ \A q \in Requests : q # r => req'[q] = req[q]
      BY <1>a, <2>6, EndEffect DEF Rollback
    <3> QED BY <1>a, <3>1, HistoryKept
  <2> QED
    BY <1>3, <2>1, <2>2, <2>3, <2>4, <2>5, <2>6 DEF RequestStep
<1> QED
  BY <1>1, <1>2, <1>3
  DEF Next, RequestStep, Check, Fetch, Upsert, Write, Commit, Rollback, At

\* However readings are interleaved, reordered, replayed or rolled back, a
\* stored interval never counts what the gauge showed before the first
\* reading or after a reset.
THEOREM NoHistoryCounted == Spec => []RowIsDifference
BY HistoryInit, HistoryStep, PTL DEF Spec, HistoryInv

\* The state row is always the reading of a stored measurement.
THEOREM OneHistory == Spec => []StateMatchesRows
BY HistoryInit, HistoryStep, PTL DEF Spec, HistoryInv

-----------------------------------------------------------------------------
(***************************************************************************)
(* Readings one at a time and in order.  The state row is the last reading  *)
(* that showed something, and the one transaction under way is either a     *)
(* replay, which carries what is stored, or comes after all that is stored, *)
(* and carries the rise since the state row.                                *)
(***************************************************************************)
Showed(t) == Stored(t) /\ gauge[t] > 0

StateIsLast ==
  IF state = Nil THEN \A t \in Times : ~Showed(t)
  ELSE \E t \in Times : /\ Showed(t) /\ state = gauge[t]
                        /\ \A u \in Times : Showed(u) => u <= t

OneRequest == \A q, r \in Requests : req[q] # Nil /\ req[r] # Nil => q = r

InOrder(t) == Stored(t) \/ \A u \in Times : Stored(u) => u < t

Pending(pc, t, mm, st) ==
  /\ InOrder(t)
  /\ pc \in {"check", "fetch", "upsert"} => ~st
  /\ pc \in {"fetch", "upsert"} => ~Stored(t) /\ gauge[t] > 0
  /\ pc = "upsert" => mm = Rise(t)
  /\ pc \in {"write", "commit"} =>
       IF Stored(t) THEN mm = rows[t] /\ ~st
       ELSE /\ st <=> gauge[t] > 0
            /\ mm = IF gauge[t] > 0 THEN Rise(t) ELSE 0

PendingAll ==
  \A r \in Requests : req[r] # Nil =>
    Pending(req[r].pc, req[r].time, req[r].interval, req[r].state)

EveryRise == \A t \in Times : Stored(t) => IsRise(t, rows[t])

Serial == EveryRise /\ StateIsLast /\ OneRequest /\ PendingAll
SerialInv == TypeOK /\ (orderly => Serial)

LEMMA SerialInit == Init => SerialInv
BY TypeInit DEF Init, SerialInv, Serial, EveryRise, StateIsLast, OneRequest,
                PendingAll, Stored, Showed

\* What EveryRise and StateIsLast say only depends on the tables.
LEMMA SerialKept ==
  ASSUME Serial, UNCHANGED <<gauge, rows, state>>,
         NEW r \in Requests, \A q \in Requests : q # r => req'[q] = Nil,
         req'[r] # Nil =>
           Pending(req'[r].pc, req'[r].time, req'[r].interval, req'[r].state)
  PROVE  Serial'
<1>1. EveryRise'
  BY DEF Serial, EveryRise, IsRise, Earlier, Stored
<1>2. StateIsLast'
  BY DEF Serial, StateIsLast, Showed, Stored
<1>3. OneRequest'
  BY DEF OneRequest
<1>4. PendingAll'
  BY DEF PendingAll, Pending, InOrder, Stored, Rise
<1> QED BY <1>1, <1>2, <1>3, <1>4 DEF Serial

\* The reading of a new instant is the rise since the last one that showed
\* something, which is what the state row says.
LEMMA NewRise ==
  ASSUME TypeOK, StateIsLast, NEW t \in Times, ~Stored(t), InOrder(t)
  PROVE  IsRise(t, IF gauge[t] > 0 THEN Rise(t) ELSE 0)
<1>1. \A u \in Times : u \in Earlier(t) <=> Showed(u)
  BY DEF Earlier, Showed, InOrder
<1>2. gauge[t] \in Nat /\ (gauge[t] > 0 \/ gauge[t] = 0)
  BY NatTypes
<1>3. CASE gauge[t] = 0
  BY <1>3 DEF IsRise
<1>4. CASE gauge[t] > 0 /\ state = Nil
  <2>1. Earlier(t) = {}
    BY <1>1, <1>4 DEF StateIsLast, Earlier
  <2> QED BY <1>4, <2>1 DEF IsRise, Rise
<1>5. CASE gauge[t] > 0 /\ state # Nil
  <2>1. PICK u \in Times : /\ Showed(u) /\ state = gauge[u]
                           /\ \A v \in Times : Showed(v) => v <= u
    BY <1>5 DEF StateIsLast
  <2>2. u \in Earlier(t) /\ \A v \in Earlier(t) : v <= u
    BY <1>1, <2>1 DEF Earlier
  <2> QED BY <1>5, <2>1, <2>2 DEF IsRise, Rise
<1> QED BY <1>2, <1>3, <1>4, <1>5

LEMMA SerialStep == SerialInv /\ [Next]_vars => SerialInv'
<1> SUFFICES ASSUME TypeOK, Serial, [Next]_vars, orderly' PROVE Serial'
  <2>1. SerialInv /\ [Next]_vars => TypeOK'
    BY TypeStep DEF SerialInv
  <2>2. [Next]_vars /\ orderly' => orderly
    BY DEF Next, vars, RequestStep, Send, Check, Fetch, Upsert, Write, Commit,
           Rollback
  <2> QED BY <2>1, <2>2 DEF SerialInv
<1>a. TypeOK
  OBVIOUS
<1>b. \A t \in Times : gauge[t] \in Nat
  BY <1>a, NatTypes
<1>1. CASE UNCHANGED vars
  <2>1. EveryRise'
    BY <1>1 DEF vars, Serial, EveryRise, IsRise, Earlier, Stored
  <2>2. StateIsLast' /\ OneRequest'
    BY <1>1 DEF vars, Serial, StateIsLast, Showed, Stored, OneRequest
  <2>3. PendingAll'
    BY <1>1 DEF vars, Serial, PendingAll, Pending, InOrder, Stored, Rise
  <2> QED BY <1>a, <2>1, <2>2, <2>3 DEF Serial
<1>2. ASSUME NEW r \in Requests, NEW t \in Times, Send(r, t)
      PROVE  Serial'
  <2>1. Becomes(r, "check", t, 0, FALSE) /\ UNCHANGED <<gauge, rows, state>>
    BY <1>2, <1>a, SendEffect DEF Send
  <2>2. InOrder(t) /\ \A q \in Requests : req[q] = Nil
    BY <1>2 DEF Send, InOrder
  <2>3. Pending(req'[r].pc, req'[r].time, req'[r].interval, req'[r].state)
    BY <2>1, <2>2 DEF Becomes, Pending
  <2> QED BY <1>a, <2>1, <2>2, <2>3, SerialKept DEF Becomes
<1>3. ASSUME NEW r \in Requests, req[r] # Nil, RequestStep(r)
      PROVE  Serial'
  <2>b. PICK t \in Times : t = req[r].time
    BY <1>3, <1>a, RequestFields
  <2>a. Pending(req[r].pc, t, req[r].interval, req[r].state)
    BY <1>3, <2>b DEF Serial, PendingAll
  <2>c. \A q \in Requests : q # r => req[q] = Nil
    BY <1>3 DEF Serial, OneRequest
  <2>1. CASE Check(r)
    <3>1. /\ req[r].pc = "check"
          /\ \/ Stored(t) /\ Becomes(r, "write", t, rows[t], req[r].state)
             \/ /\ ~Stored(t) /\ gauge[t] = 0
                /\ Becomes(r, "write", t, 0, req[r].state)
             \/ /\ ~Stored(t) /\ gauge[t] > 0
                /\ Becomes(r, "fetch", t, 0, req[r].state)
      BY <1>a, <2>b, <2>1, CheckEffect
    <3>2. UNCHANGED <<gauge, rows, state>>
      BY <2>1 DEF Check
    <3>3. Pending(req'[r].pc, req'[r].time, req'[r].interval, req'[r].state)
      BY <1>b, <2>a, <3>1 DEF Becomes, Pending
    <3>4. \A q \in Requests : q # r => req'[q] = Nil
      BY <2>c, <3>1 DEF Becomes
    <3> QED BY <1>a, <3>2, <3>3, <3>4, SerialKept
  <2>2. CASE Fetch(r)
    <3>1. /\ req[r].pc = "fetch"
          /\ Becomes(r, "upsert", t, Rise(t), req[r].state)
          /\ UNCHANGED <<gauge, rows, state>>
      BY <1>a, <2>b, <2>2, FetchEffect DEF Fetch, At
    <3>2. Pending(req'[r].pc, req'[r].time, req'[r].interval, req'[r].state)
      BY <2>a, <3>1 DEF Becomes, Pending
    <3> QED BY <1>a, <2>c, <3>1, <3>2, SerialKept DEF Becomes
  <2>3. CASE Upsert(r)
    <3>1. /\ req[r].pc = "upsert"
          /\ Becomes(r, "write", t, req[r].interval, TRUE)
          /\ UNCHANGED <<gauge, rows, state>>
      BY <1>a, <2>b, <2>3, UpsertEffect DEF Upsert, At
    <3>2. Pending(req'[r].pc, req'[r].time, req'[r].interval, req'[r].state)
      BY <2>a, <3>1 DEF Becomes, Pending
    <3> QED BY <1>a, <2>c, <3>1, <3>2, SerialKept DEF Becomes
  <2>4. CASE Write(r)
    <3>1. /\ req[r].pc = "write"
          /\ Becomes(r, "commit", t, req[r].interval, req[r].state)
          /\ UNCHANGED <<gauge, rows, state>>
      BY <1>a, <2>b, <2>4, WriteEffect DEF Write, At
    <3>2. Pending(req'[r].pc, req'[r].time, req'[r].interval, req'[r].state)
      BY <2>a, <3>1 DEF Becomes, Pending
    <3> QED BY <1>a, <2>c, <3>1, <3>2, SerialKept DEF Becomes
  <2>5. CASE Rollback(r)
    <3>1. /\ req'[r] = Nil /\ UNCHANGED <<gauge, rows, state>>
          /\ \A q \in Requests : q # r => req'[q] = req[q]
      BY <1>a, <2>5, EndEffect DEF Rollback
    <3> QED BY <1>a, <2>c, <3>1, SerialKept
  <2>6. CASE Commit(r)
    <3>1. /\ req[r].pc = "commit" /\ \A q \in Requests : req'[q] = Nil
          /\ UNCHANGED gauge
      BY <1>a, <2>6, <2>c, EndEffect DEF Commit, At
    <3>2. /\ rows'[t] = req[r].interval /\ req[r].interval \in Nat
          /\ \A u \in Times : u # t => rows'[u] = rows[u]
      BY <1>a, <1>3, <2>6, <2>b, RequestFields, BoundAssumption
      DEF Commit, TypeOK, Amount
    <3>3. state' = IF req[r].state THEN gauge[t] ELSE state
      BY <2>b, <2>6 DEF Commit
    <3>4. OneRequest' /\ PendingAll'
      BY <3>1 DEF OneRequest, PendingAll
    <3>5. CASE Stored(t)
      \* A replay: nothing changes.
      <4>1. \A u \in Times : rows'[u] = rows[u]
        BY <2>a, <3>1, <3>2, <3>5 DEF Pending
      <4>2. UNCHANGED state
        BY <2>a, <3>1, <3>3, <3>5 DEF Pending
      <4>3. EveryRise'
        BY <3>1, <4>1 DEF Serial, EveryRise, IsRise, Earlier, Stored
      <4>4. StateIsLast'
        BY <3>1, <4>1, <4>2 DEF Serial, StateIsLast, Showed, Stored
      <4> QED BY <1>a, <3>4, <4>3, <4>4 DEF Serial
    <3>6. CASE ~Stored(t)
      <4>1. /\ \A u \in Times : Stored(u) => u < t
            /\ req[r].state <=> gauge[t] > 0
            /\ req[r].interval = IF gauge[t] > 0 THEN Rise(t) ELSE 0
        BY <2>a, <3>1, <3>6 DEF Pending, InOrder
      <4>2. /\ Stored(t)'
            /\ \A u \in Times : u # t => (Stored(u)' <=> Stored(u))
        BY <3>2, NilAssumption DEF Stored
      \* No reading is between an earlier one and what was before it.
      <4>3. \A u \in Times : u <= t => Earlier(u)' = Earlier(u)
        BY <3>1, <4>2 DEF Earlier, Times
      <4>4. IsRise(t, req[r].interval)
        BY <1>a, <2>a, <3>6, <4>1, NewRise DEF Serial, Pending
      <4>5. EveryRise'
        <5> SUFFICES ASSUME NEW u \in Times, Stored(u)'
                     PROVE  IsRise(u, rows[u])'
          BY DEF EveryRise
        <5>1. CASE u = t
          BY <3>1, <3>2, <4>3, <4>4, <5>1 DEF IsRise, Times, Earlier
        <5>2. CASE u # t
          <6>1. Stored(u) /\ u < t /\ rows'[u] = rows[u]
            BY <3>2, <4>1, <4>2, <5>2
          <6>2. Earlier(u)' = Earlier(u) /\ IsRise(u, rows[u])
            BY <4>3, <6>1 DEF Serial, EveryRise, Times
          <6> QED BY <3>1, <6>1, <6>2 DEF IsRise, Earlier
        <5> QED BY <5>1, <5>2
      <4>6. StateIsLast'
        <5>1. CASE gauge[t] > 0
          <6>1. state' = gauge[t] /\ state' # Nil
            BY <1>b, <3>3, <4>1, <5>1, NilAssumption
          <6>2. Showed(t)' /\ \A u \in Times : Showed(u)' => u <= t
            BY <3>1, <4>1, <4>2, <5>1 DEF Showed, Times
          <6> QED BY <3>1, <6>1, <6>2 DEF StateIsLast
        <5>2. CASE ~(gauge[t] > 0)
          <6>1. UNCHANGED state
            BY <3>3, <4>1, <5>2
          <6>2. \A u \in Times : Showed(u)' <=> Showed(u)
            BY <3>1, <4>2, <5>2 DEF Showed
          <6> QED BY <3>1, <6>1, <6>2 DEF Serial, StateIsLast
        <5> QED BY <5>1, <5>2
      <4> QED BY <1>a, <3>4, <4>5, <4>6 DEF Serial
    <3> QED BY <3>5, <3>6
  <2> QED
    BY <1>3, <2>1, <2>2, <2>3, <2>4, <2>5, <2>6 DEF RequestStep
<1> QED
  BY <1>1, <1>2, <1>3
  DEF Next, RequestStep, Check, Fetch, Upsert, Write, Commit, Rollback, At

\* As long as readings come one at a time and in order, every stored
\* interval is the rise of the gauge since the reading before it, with any
\* number of replays, lost readings and rollbacks.
THEOREM RainIsRise == Spec => []EachRise
<1>1. SerialInv => EachRise
  BY DEF SerialInv, Serial, EveryRise, EachRise
<1> QED BY <1>1, SerialInit, SerialStep, PTL DEF Spec
=============================================================================
