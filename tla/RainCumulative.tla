--------------------------- MODULE RainCumulative ---------------------------
(***************************************************************************)
(* Rain of one gauge that counts up (rain_mode :cumulative): each reading   *)
(* is stored as the rise since the reading before it, which is remembered   *)
(* in a state row (rain_measurement.ex, compute_interval_from_cumulative.ex,*)
(* rain_cumulative_state.ex).                                               *)
(*                                                                          *)
(* A request handles one reading in one database transaction, at the        *)
(* isolation level READ COMMITTED: it reads what is committed, its writes   *)
(* lock the rows they touch and are seen by others when it commits.         *)
(***************************************************************************)
EXTENDS Integers

CONSTANTS
  LastTime,   \* bound: readings are taken at the instants 1..LastTime
  MaxGauge,   \* bound: what the gauge shows at most, in hundredths of a mm
  Requests,   \* requests that may be under way at once
  Nil         \* nil, no row

ASSUME BoundAssumption == LastTime \in Nat /\ MaxGauge \in Nat

Times == 1..LastTime
Amount == 0..MaxGauge

ASSUME NilAssumption ==
  /\ Nil \notin Int
  /\ Nil \notin [pc : {"check", "fetch", "upsert", "write", "commit"},
                 time : Times, interval : Amount, state : BOOLEAN]

VARIABLES
  gauge,   \* what the gauge showed at each instant
  rows,    \* interval_mm of the committed measurement of each instant
  state,   \* last_cumulative_value of the committed state row
  req,     \* the transaction of each request
  orderly  \* history: readings came one at a time and in order so far

vars == <<gauge, rows, state, req, orderly>>

\* state: this transaction has written, and so locked, the state row.
Request == [pc : {"check", "fetch", "upsert", "write", "commit"},
            time : Times, interval : Amount, state : BOOLEAN]

TypeOK ==
  /\ gauge \in [Times -> Amount]
  /\ rows \in [Times -> Amount \union {Nil}]
  /\ state \in Amount \union {Nil}
  /\ req \in [Requests -> Request \union {Nil}]
  /\ orderly \in BOOLEAN

At(r, pc) == req[r] # Nil /\ req[r].pc = pc
Stored(t) == rows[t] # Nil

-----------------------------------------------------------------------------
(***************************************************************************)
(* The steps of a transaction.                                              *)
(***************************************************************************)
\* A reading is sent, for the first time or again.
Send(r, t) ==
  /\ req[r] = Nil
  /\ req' = [req EXCEPT ![r] = [pc |-> "check", time |-> t,
                                interval |-> 0, state |-> FALSE]]
  /\ orderly' = (/\ orderly
                 /\ \A q \in Requests : req[q] = Nil
                 /\ Stored(t) \/ \A u \in Times : Stored(u) => u < t)
  /\ UNCHANGED <<gauge, rows, state>>

Goto(r, pc, interval) ==
  req' = [req EXCEPT ![r].pc = pc, ![r].interval = interval]

\* (mutant: a replay is not recognised)
CheckAlwaysNew(r) ==
  /\ At(r, "check")
  /\ IF gauge[req[r].time] = 0 THEN Goto(r, "write", 0) ELSE Goto(r, "fetch", 0)
  /\ UNCHANGED <<gauge, rows, state, orderly>>

\* A replay keeps the interval that is stored; a gauge that shows nothing
\* has none, and both leave the state row alone.
Check(r) ==
  /\ At(r, "check")
  /\ LET t == req[r].time IN
       IF Stored(t) THEN Goto(r, "write", rows[t])
       ELSE IF gauge[t] = 0 THEN Goto(r, "write", 0)
       ELSE Goto(r, "fetch", 0)
  /\ UNCHANGED <<gauge, rows, state, orderly>>

\* (mutant: without a state row the whole gauge counts)
RiseFromZero(t) == IF state = Nil THEN gauge[t]
                   ELSE IF gauge[t] > state THEN gauge[t] - state ELSE 0

\* (mutant: a gauge that restarts counts from zero)
RiseOrWhole(t) == IF state = Nil THEN 0
                  ELSE IF gauge[t] >= state THEN gauge[t] - state ELSE gauge[t]

\* (mutant: a gauge that goes down counts as it is)
RiseUnclamped(t) == IF state = Nil THEN 0 ELSE gauge[t] - state

\* The first reading is a baseline; a gauge that goes down was reset.
Rise(t) == IF state = Nil THEN 0
           ELSE IF gauge[t] > state THEN gauge[t] - state ELSE 0

Fetch(r) ==
  /\ At(r, "fetch")
  /\ Goto(r, "upsert", Rise(req[r].time))
  /\ UNCHANGED <<gauge, rows, state, orderly>>

\* (mutant: the state row is written outside of the transaction)
UpsertAtOnce(r) ==
  /\ At(r, "upsert")
  /\ req' = [req EXCEPT ![r].pc = "write"]
  /\ state' = gauge[req[r].time]
  /\ UNCHANGED <<gauge, rows, orderly>>

\* Waits for a transaction that has written the state row.
Upsert(r) ==
  /\ At(r, "upsert")
  /\ \A q \in Requests : req[q] # Nil => ~req[q].state
  /\ req' = [req EXCEPT ![r].pc = "write", ![r].state = TRUE]
  /\ UNCHANGED <<gauge, rows, state, orderly>>

\* Waits for a transaction that has written the row of the same instant.
Write(r) ==
  /\ At(r, "write")
  /\ \A q \in Requests : At(q, "commit") => req[q].time # req[r].time
  /\ req' = [req EXCEPT ![r].pc = "commit"]
  /\ UNCHANGED <<gauge, rows, state, orderly>>

Commit(r) ==
  /\ At(r, "commit")
  /\ rows' = [rows EXCEPT ![req[r].time] = req[r].interval]
  /\ state' = IF req[r].state THEN gauge[req[r].time] ELSE state
  /\ req' = [req EXCEPT ![r] = Nil]
  /\ UNCHANGED <<gauge, orderly>>

\* The request or the database fails: nothing of it is kept.
Rollback(r) ==
  /\ req[r] # Nil
  /\ req' = [req EXCEPT ![r] = Nil]
  /\ UNCHANGED <<gauge, rows, state, orderly>>

-----------------------------------------------------------------------------
Init ==
  /\ gauge \in [Times -> Amount]
  /\ rows = [t \in Times |-> Nil]
  /\ state = Nil
  /\ req = [r \in Requests |-> Nil]
  /\ orderly = TRUE

RequestStep(r) ==
  Check(r) \/ Fetch(r) \/ Upsert(r) \/ Write(r) \/ Commit(r) \/ Rollback(r)

Next ==
  \E r \in Requests : RequestStep(r) \/ \E t \in Times : Send(r, t)

Spec == Init /\ [][Next]_vars

-----------------------------------------------------------------------------
(***************************************************************************)
(* Properties.                                                              *)
(***************************************************************************)
\* The instants before t whose reading has set the state row.
Earlier(t) == {u \in Times : u < t /\ Stored(u) /\ gauge[u] > 0}

IsRise(t, mm) ==
  \/ /\ gauge[t] = 0 \/ Earlier(t) = {}
     /\ mm = 0
  \/ /\ gauge[t] > 0
     /\ \E u \in Earlier(t) :
          /\ \A v \in Earlier(t) : v <= u
          /\ mm = IF gauge[t] > gauge[u] THEN gauge[t] - gauge[u] ELSE 0

\* As long as readings arrive one at a time and in order, every stored
\* interval is the rise of the gauge since the last reading that showed something,
\* whatever is lost, rolled back or replayed in between.
EachRise == orderly => \A t \in Times : Stored(t) => IsRise(t, rows[t])

\* However readings are interleaved and reordered, a positive interval is
\* the difference of two stored readings: rain that fell before the first
\* reading is never counted, nor what a gauge shows after a reset.
RowIsDifference ==
  \A t \in Times : Stored(t) /\ rows[t] > 0 =>
    \E u \in Times : Stored(u) /\ gauge[u] > 0 /\ rows[t] = gauge[t] - gauge[u]

\* The state row and the measurements are of one history, whatever fails:
\* the state is the reading of a stored measurement, and there is one as
\* soon as a stored measurement showed something.
StateMatchesRows ==
  IF state = Nil THEN \A t \in Times : Stored(t) => gauge[t] = 0
  ELSE state > 0 /\ \E t \in Times : Stored(t) /\ gauge[t] = state

\* rain_measurement_test.exs: "duplicate cumulative replay reuses stored
\* interval without mutating state".
ReplayKeepsInterval ==
  [][\A t \in Times : Stored(t) => rows'[t] = rows[t]]_vars

=============================================================================
