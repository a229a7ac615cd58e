-------------------------- MODULE ShotPurgerProofs --------------------------
(***************************************************************************)
(* Proofs about ShotPurger, for any shots, any batch size, and whatever is  *)
(* uploaded, deleted or fails while a job goes on.                          *)
(***************************************************************************)
EXTENDS ShotPurger, FiniteSetTheorems, TLAPS

Recorded == {id \in Ids : at[id] # Nil}

-----------------------------------------------------------------------------
(***************************************************************************)
(* What the steps do to the fields of job and hand.                         *)
(***************************************************************************)
LEMMA JobFields ==
  ASSUME TypeOK
  PROVE  /\ job.status \in Statuses /\ job.to \in Times \union {Nil}
         /\ job.cursor \in Cursors \union {Nil}
         /\ job.total \in Nat /\ job.processed \in Nat
         /\ job.deleted \in Nat /\ job.failed \in Nat
         /\ job.target \subseteq Ids /\ job.seen \subseteq Ids
         /\ job.lost \subseteq Ids
BY DEF TypeOK, Job

LEMMA HandFields ==
  ASSUME TypeOK, hand # Nil
  PROVE  /\ hand \in Hand
         /\ hand.batch \subseteq Ids /\ hand.left \subseteq Ids
         /\ hand.pc \in {"object", "row"} /\ hand.deleted \in Nat
         /\ hand.lost \subseteq Ids
BY DEF TypeOK, Hand

\* Sets of shots are finite.
LEMMA FiniteShots ==
  ASSUME NEW S \in SUBSET Ids
  PROVE  IsFiniteSet(S) /\ Cardinality(S) \in Nat
BY IdAssumption, FS_Subset, FS_CardinalityType

LEMMA StartEffect ==
  ASSUME TypeOK, NEW to \in Times, StartPurge(to)
  PROVE  /\ job' \in Job /\ hand = Nil /\ hand' = Nil
         /\ job.status # "running" /\ job'.status = "running"
         /\ job'.to = to /\ job'.cursor = Nil
         /\ job'.processed = 0 /\ job'.deleted = 0 /\ job'.failed = 0
         /\ job'.target = {id \in rows : at[id] <= to}
         /\ job'.seen = {} /\ job'.lost = {}
<1> DEFINE shots == {id \in rows : at[id] <= to}
<1>1. shots \in SUBSET Ids
  BY DEF TypeOK
<1>2. Cardinality(shots) \in Nat
  BY <1>1, FiniteShots
<1>3. job' = [Idle EXCEPT !.status = "running", !.to = to,
                          !.total = Cardinality(shots), !.target = shots]
  BY DEF StartPurge
<1> HIDE DEF shots
<1>4. job' = [status |-> "running", to |-> to, cursor |-> Nil,
              total |-> Cardinality(shots), processed |-> 0, deleted |-> 0,
              failed |-> 0, target |-> shots, seen |-> {}, lost |-> {}]
  BY <1>3 DEF Idle
<1>5. job' \in Job
  BY <1>1, <1>2, <1>4 DEF Job, Statuses
<1>6. /\ job'.status = "running" /\ job'.to = to /\ job'.cursor = Nil
      /\ job'.processed = 0 /\ job'.deleted = 0 /\ job'.failed = 0
      /\ job'.target = shots /\ job'.seen = {} /\ job'.lost = {}
  BY <1>4
<1>7. /\ hand = Nil /\ job.status # "running" /\ hand' = hand
  BY DEF StartPurge, CanStart
<1> QED
  BY <1>5, <1>6, <1>7 DEF shots

LEMMA StatusEffect ==
  ASSUME TypeOK, NEW s \in Statuses, job' = [job EXCEPT !.status = s]
  PROVE  /\ job' \in Job
         /\ job'.status = s /\ job'.to = job.to /\ job'.cursor = job.cursor
         /\ job'.processed = job.processed /\ job'.deleted = job.deleted
         /\ job'.failed = job.failed /\ job'.target = job.target
         /\ job'.seen = job.seen /\ job'.lost = job.lost
BY DEF TypeOK, Job

\* (the parameter is a number in every use of Counted)
LEMMA CountedEffect ==
  ASSUME TypeOK, hand # Nil, hand.batch \subseteq Recorded,
         NEW n \in Nat, Counted(n)
  PROVE  \E last \in hand.batch :
           /\ Last(last, hand.batch)
           /\ job' \in Job
           /\ job'.status = job.status /\ job'.to = job.to
           /\ job'.target = job.target
           /\ job'.processed = n
           /\ job'.deleted = job.deleted + hand.deleted
           /\ job'.failed = job.failed + Cardinality(hand.lost)
           /\ job'.cursor # Nil
           /\ job'.cursor.at = at[last] /\ job'.cursor.id = last
           /\ job'.seen = job.seen \union hand.batch
           /\ job'.lost = job.lost \union hand.lost
<1>1. PICK last \in hand.batch :
        /\ Last(last, hand.batch)
        /\ job' = [job EXCEPT
                     !.processed = n,
                     !.deleted = job.deleted + hand.deleted,
                     !.failed = job.failed + Cardinality(hand.lost),
                     !.cursor = [at |-> at[last], id |-> last],
                     !.seen = job.seen \union hand.batch,
                     !.lost = job.lost \union hand.lost]
  BY DEF Counted
<1> DEFINE c == [at |-> at[last], id |-> last]
           d == job.deleted + hand.deleted
           f == job.failed + Cardinality(hand.lost)
<1>2. c \in Cursors /\ c.at = at[last] /\ c.id = last
  BY DEF TypeOK, Recorded, Cursors
<1>3. c # Nil
  BY <1>2, NilAssumption
<1>4. d \in Nat /\ f \in Nat
  BY JobFields, HandFields, FiniteShots
<1>5. /\ job.seen \union hand.batch \subseteq Ids
      /\ job.lost \union hand.lost \subseteq Ids
  BY JobFields, HandFields
<1>6. job' = [job EXCEPT !.processed = n, !.deleted = d, !.failed = f,
                !.cursor = c, !.seen = job.seen \union hand.batch,
                !.lost = job.lost \union hand.lost]
  BY <1>1
<1> HIDE DEF c, d, f
<1>7. /\ job' \in Job
      /\ job'.status = job.status /\ job'.to = job.to
      /\ job'.target = job.target
      /\ job'.processed = n /\ job'.deleted = d /\ job'.failed = f
      /\ job'.cursor = c
      /\ job'.seen = job.seen \union hand.batch
      /\ job'.lost = job.lost \union hand.lost
  BY <1>2, <1>4, <1>5, <1>6 DEF TypeOK, Job
<1> QED
  BY <1>1, <1>2, <1>3, <1>7 DEF d, f

LEMMA TakeEffect ==
  ASSUME TypeOK, TakeBatch
  PROVE  /\ hand' \in Hand /\ hand' # Nil
         /\ hand'.batch \subseteq Due /\ hand'.left = hand'.batch
         /\ \A a \in hand'.batch, b \in Due \ hand'.batch : Before(a, b)
         /\ hand'.deleted = 0 /\ hand'.lost = {}
<1>1. PICK batch \in SUBSET Due :
        /\ \A a \in batch, b \in Due \ batch : Before(a, b)
        /\ hand' = [batch |-> batch, left |-> batch, pc |-> "object",
                    deleted |-> 0, lost |-> {}]
  BY DEF TakeBatch
<1>2. Due \subseteq Ids
  BY DEF Due, TypeOK
<1>3. hand' \in Hand
  BY <1>1, <1>2 DEF Hand
<1> QED
  BY <1>1, <1>3, NilAssumption

LEMMA DeletedEffect ==
  ASSUME TypeOK, hand # Nil, NEW id, Deleted(id)
  PROVE  /\ hand' \in Hand /\ hand' # Nil
         /\ hand'.batch = hand.batch /\ hand'.left = hand.left \ {id}
         /\ hand'.deleted = hand.deleted + 1 /\ hand'.lost = hand.lost
<1>1. hand.deleted + 1 \in Nat /\ hand.left \ {id} \subseteq Ids
  BY HandFields
<1>2. hand \in Hand
  BY HandFields
<1>3. /\ hand' \in Hand
      /\ hand'.batch = hand.batch /\ hand'.left = hand.left \ {id}
      /\ hand'.deleted = hand.deleted + 1 /\ hand'.lost = hand.lost
  BY <1>1, <1>2 DEF Deleted, Hand
<1> QED
  BY <1>3, NilAssumption

LEMMA FailedEffect ==
  ASSUME TypeOK, hand # Nil, NEW id \in Ids, Failed(id)
  PROVE  /\ hand' \in Hand /\ hand' # Nil
         /\ hand'.batch = hand.batch /\ hand'.left = hand.left \ {id}
         /\ hand'.deleted = hand.deleted
         /\ hand'.lost = hand.lost \union {id}
<1>1. /\ hand \in Hand /\ hand.left \ {id} \subseteq Ids
      /\ hand.lost \union {id} \subseteq Ids
  BY HandFields
<1>2. /\ hand' \in Hand
      /\ hand'.batch = hand.batch /\ hand'.left = hand.left \ {id}
      /\ hand'.deleted = hand.deleted
      /\ hand'.lost = hand.lost \union {id}
  BY <1>1 DEF Failed, Hand
<1> QED
  BY <1>2, NilAssumption

LEMMA ToRowEffect ==
  ASSUME TypeOK, hand # Nil, hand' = [hand EXCEPT !.pc = "row"]
  PROVE  /\ hand' \in Hand /\ hand' # Nil
         /\ hand'.batch = hand.batch /\ hand'.left = hand.left
         /\ hand'.deleted = hand.deleted /\ hand'.lost = hand.lost
<1>1. hand' \in Hand
  BY HandFields DEF Hand
<1> QED
  BY <1>1, HandFields, NilAssumption DEF Hand

-----------------------------------------------------------------------------
(***************************************************************************)
(* Types, and the one message of a running job.                             *)
(***************************************************************************)
\* Work in hand belongs to a running job, and is about recorded shots.
InHandRuns ==
  hand # Nil => job.status = "running" /\ hand.batch \subseteq Recorded

Basic == TypeOK /\ OneBatchMessage /\ InHandRuns

LEMMA BasicInit == Init => Basic
<1> SUFFICES ASSUME Init PROVE Basic
  OBVIOUS
<1>1. job \in Job /\ job.status = "idle"
  BY DEF Init, Idle, Job, Statuses
<1>2. TypeOK
  BY <1>1 DEF Init, TypeOK
<1> QED
  BY <1>1, <1>2 DEF Init, Basic, OneBatchMessage, InHandRuns

LEMMA BasicNext == Basic /\ [Next]_vars => Basic'
<1> SUFFICES ASSUME Basic, [Next]_vars PROVE Basic'
  OBVIOUS
<1> USE DEF Basic
<1>s. smooth' \in BOOLEAN
  BY DEF TypeOK, vars, Next, Record, BulkDelete, DeletePending, StartPurge,
         PurgerStep, TakeBatch, Complete, DeleteObject, DestroyRow, EndBatch,
         Raise, Crash
\* Steps of others leave job, hand and mail alone.
<1> DEFINE Apart == UNCHANGED <<job, hand, mail>>
<1>0. ASSUME Apart, at' \in [Ids -> Times \union {Nil}],
             rows' \subseteq Recorded', objects' \subseteq Recorded',
             pending' \subseteq objects', Recorded \subseteq Recorded'
      PROVE  Basic'
  <2>1. TypeOK'
    BY <1>s, <1>0 DEF TypeOK, Recorded
  <2> QED
    BY <1>0, <2>1 DEF OneBatchMessage, InHandRuns
\* Steps of the process record nothing.
<1>00. ASSUME UNCHANGED at, rows' \subseteq rows, objects' \subseteq objects,
              pending' \subseteq objects', job' \in Job,
              hand' \in Hand \union {Nil},
              hand' # Nil => /\ job'.status = "running"
                             /\ hand'.batch \subseteq Recorded,
              mail' = IF job'.status = "running" /\ hand' = Nil THEN 1 ELSE 0
       PROVE  Basic'
  <2>1. TypeOK'
    BY <1>s, <1>00 DEF TypeOK
  <2>2. Recorded' = Recorded
    BY <1>00 DEF Recorded
  <2> QED
    BY <1>00, <2>1, <2>2 DEF OneBatchMessage, InHandRuns
<1>1. ASSUME NEW id \in Ids, NEW t \in Times, Record(id, t) PROVE Basic'
  <2>1. /\ Apart /\ at' \in [Ids -> Times \union {Nil}]
        /\ at' = [at EXCEPT ![id] = t] /\ at[id] = Nil
        /\ rows' = rows \union {id} /\ objects' = objects \union {id}
        /\ pending' = pending
    BY <1>1 DEF Record, TypeOK
  <2>2. t # Nil
    BY NilAssumption DEF Times
  <2>3. id \in Recorded' /\ Recorded \subseteq Recorded'
    BY <2>1, <2>2 DEF Recorded, TypeOK
  <2>4. /\ rows' \subseteq Recorded' /\ objects' \subseteq Recorded'
        /\ pending' \subseteq objects'
    BY <2>1, <2>3 DEF TypeOK, Recorded
  <2> QED
    BY <1>0, <2>1, <2>3, <2>4
<1>2. ASSUME NEW from \in Times, NEW to \in Times, BulkDelete(from, to)
      PROVE  Basic'
  <2>1. /\ Apart /\ at' = at /\ rows' \subseteq rows /\ objects' = objects
        /\ pending' \subseteq objects
    BY <1>2 DEF BulkDelete, TypeOK
  <2> QED
    BY <1>0, <2>1 DEF TypeOK, Recorded
<1>3. ASSUME NEW id \in Ids, DeletePending(id) PROVE Basic'
  <2>1. /\ Apart /\ at' = at /\ rows' = rows /\ objects' = objects \ {id}
        /\ pending' = pending \ {id}
    BY <1>3 DEF DeletePending
  <2> QED
    BY <1>0, <2>1 DEF TypeOK, Recorded
<1>4. ASSUME NEW to \in Times, StartPurge(to) PROVE Basic'
  <2>1. job' \in Job /\ hand' = Nil /\ job'.status = "running"
    BY <1>4, StartEffect
  <2>2. mail = 0
    BY <1>4, StartEffect DEF OneBatchMessage
  <2>3. mail' = 1
    BY <1>4, <2>2 DEF StartPurge
  <2> QED
    BY <1>00, <1>4, <2>1, <2>3 DEF StartPurge, TypeOK
<1>5. ASSUME NextMessage PROVE mail' = 0 /\ hand = Nil /\ job.status = "running"
  <2>1. hand = Nil /\ job.status = "running" /\ mail' = mail - 1
    BY <1>5 DEF NextMessage
  <2>2. mail = 1
    BY <2>1 DEF OneBatchMessage
  <2> QED
    BY <2>1, <2>2
<1>6. CASE TakeBatch
  <2>1. NextMessage /\ UNCHANGED <<at, rows, objects, pending, job>>
    BY <1>6 DEF TakeBatch
  <2>2. Due \subseteq Recorded
    BY DEF Due, TypeOK, Recorded
  <2> QED
    BY <1>00, <1>5, <1>6, <2>1, <2>2, TakeEffect DEF TypeOK
<1>7. CASE Complete
  <2>1. /\ NextMessage /\ UNCHANGED <<at, rows, objects, pending, hand>>
        /\ job' = [job EXCEPT !.status = "completed"]
    BY <1>7 DEF Complete
  <2>2. job' \in Job /\ job'.status = "completed"
    BY <2>1, StatusEffect DEF Statuses
  <2> QED
    BY <1>00, <1>5, <2>1, <2>2 DEF TypeOK
\* A step on one shot of the batch in hand.
<1>8. ASSUME hand # Nil, hand' \in Hand, hand' # Nil, hand'.batch = hand.batch,
             rows' \subseteq rows, objects' \subseteq objects,
             pending' \subseteq objects', UNCHANGED <<at, job, mail>>
      PROVE  Basic'
  <2>1. job.status = "running" /\ hand.batch \subseteq Recorded /\ mail = 0
    BY <1>8 DEF InHandRuns, OneBatchMessage
  <2> QED
    BY <1>00, <1>8, <2>1 DEF TypeOK
<1>9. CASE DeleteObject
  <2>1. PICK id \in hand.left :
          \/ /\ objects' = objects \ {id} /\ pending' = pending \ {id}
             /\ hand' = [hand EXCEPT !.pc = "row"]
          \/ Failed(id) /\ UNCHANGED <<objects, pending>>
    BY <1>9 DEF DeleteObject
  <2>2. hand # Nil /\ UNCHANGED <<at, rows, job, mail>>
    BY <1>9 DEF DeleteObject, InHand
  <2>3. id \in Ids
    BY <2>2, HandFields
  <2>4. /\ objects' \subseteq objects /\ pending' \subseteq objects'
        /\ hand' \in Hand /\ hand' # Nil /\ hand'.batch = hand.batch
    BY <2>1, <2>2, <2>3, FailedEffect, ToRowEffect DEF TypeOK
  <2> QED
    BY <1>8, <2>2, <2>4
<1>10. CASE DestroyRow
  <2>1. PICK id \in hand.left :
          \/ rows' = rows \ {id} /\ Deleted(id)
          \/ Failed(id) /\ UNCHANGED rows
    BY <1>10 DEF DestroyRow
  <2>2. hand # Nil /\ UNCHANGED <<at, objects, pending, job, mail>>
    BY <1>10 DEF DestroyRow, InHand
  <2>3. id \in Ids
    BY <2>2, HandFields
  <2>4. rows' \subseteq rows /\ hand' \in Hand /\ hand' # Nil /\ hand'.batch = hand.batch
    BY <2>1, <2>2, <2>3, FailedEffect, DeletedEffect
  <2> QED
    BY <1>8, <2>2, <2>4 DEF TypeOK
<1>11. CASE EndBatch
  <2>1. /\ hand # Nil /\ hand' = Nil /\ mail' = mail + 1
        /\ UNCHANGED <<at, rows, objects, pending>>
        /\ Counted(job.processed + Cardinality(hand.batch))
    BY <1>11 DEF EndBatch
  <2>2. job.status = "running" /\ hand.batch \subseteq Recorded /\ mail = 0
    BY <2>1 DEF InHandRuns, OneBatchMessage
  <2>3. job.processed + Cardinality(hand.batch) \in Nat
    BY <2>1, JobFields, HandFields, FiniteShots
  <2>4. job' \in Job /\ job'.status = "running"
    BY <2>1, <2>2, <2>3, CountedEffect
  <2>5. mail' = 1
    BY <2>1, <2>2
  <2> QED
    BY <1>00, <2>1, <2>4, <2>5 DEF TypeOK
<1>12. CASE Raise
  <2>1. job' \in Job /\ job'.status = "failed"
    BY <1>12, StatusEffect DEF Raise, Rescued, Statuses
  <2>2. UNCHANGED <<at, rows, objects, pending>>
    BY <1>12 DEF Raise
  <2>3. hand' = Nil /\ mail' = 0
    <3>1. CASE NextMessage /\ UNCHANGED hand
      BY <3>1, <1>5
    <3>2. CASE hand # Nil /\ hand' = Nil /\ UNCHANGED mail
      BY <3>2 DEF OneBatchMessage
    <3> QED
      BY <1>12, <3>1, <3>2 DEF Raise
  <2> QED
    BY <1>00, <2>1, <2>2, <2>3 DEF TypeOK
<1>13. CASE Crash
  <2>1. job' \in Job /\ job'.status = "idle"
    BY <1>13 DEF Crash, Idle, Job, Statuses
  <2> QED
    BY <1>00, <1>13, <2>1 DEF Crash, TypeOK
<1>14. CASE UNCHANGED vars
  BY <1>14 DEF vars, TypeOK, OneBatchMessage, InHandRuns, Recorded
<1> HIDE DEF Basic
<1> QED
  BY <1>1, <1>2, <1>3, <1>4, <1>6, <1>7, <1>9, <1>10, <1>11, <1>12, <1>13, <1>14
  DEF Next, PurgerStep

-----------------------------------------------------------------------------
(***************************************************************************)
(* The order of the walk.                                                   *)
(***************************************************************************)
LEMMA RecordedTimes ==
  ASSUME TypeOK, NEW id \in Recorded
  PROVE  id \in Int /\ at[id] \in Int
BY IdAssumption, BoundAssumption DEF TypeOK, Recorded, Times

\* The shots after a cursor are those after its shot, in the order of the walk.
LEMMA AfterLast ==
  ASSUME TypeOK, NEW last \in Recorded, NEW id \in Recorded,
         job.cursor # Nil, job.cursor.at = at[last], job.cursor.id = last
  PROVE  AfterCursor(id) <=> Before(last, id)
BY RecordedTimes DEF AfterCursor, Before

LEMMA BeforeTransitive ==
  ASSUME TypeOK, NEW a \in Recorded, NEW b \in Recorded, NEW c \in Recorded,
         Before(a, b), Before(b, c)
  PROVE  Before(a, c)
BY RecordedTimes DEF Before

LEMMA BeforeIrreflexive ==
  ASSUME TypeOK, NEW a \in Recorded, NEW b \in Recorded, Before(a, b)
  PROVE  a # b /\ ~Before(b, a)
BY RecordedTimes DEF Before

\* A shot behind the cursor stays behind when it moves on.
LEMMA BehindStaysBehind ==
  ASSUME TypeOK, NEW last \in Recorded, NEW id \in Recorded,
         AfterCursor(last), ~AfterCursor(id)
  PROVE  ~Before(last, id)
<1>1. job.cursor # Nil
  <2>1. job.cursor = Nil => AfterCursor(id)
    BY DEF AfterCursor
  <2> QED
    BY <2>1
<1>2. job.cursor \in Cursors
  BY <1>1, JobFields
<1>3. job.cursor.at \in Int /\ job.cursor.id \in Int
  <2>1. job.cursor.at \in Times /\ job.cursor.id \in Ids
    BY <1>2 DEF Cursors
  <2>2. Times \subseteq Int /\ Ids \subseteq Int
    BY IdAssumption, BoundAssumption DEF Times
  <2> QED
    BY <2>1, <2>2
<1>4. id \in Int /\ last \in Int /\ at[id] \in Int /\ at[last] \in Int
  BY RecordedTimes
<1> QED
  BY <1>1, <1>3, <1>4 DEF AfterCursor, Before

-----------------------------------------------------------------------------
(***************************************************************************)
(* Every shot is counted once.                                              *)
(***************************************************************************)
\* What the job has gone through is behind its cursor.
SeenBehind ==
  /\ job.lost \subseteq job.seen
  /\ job.seen \subseteq Recorded
  /\ job.seen # {} => job.cursor # Nil
  /\ \A id \in job.seen : ~AfterCursor(id)

\* The counters of the batch in hand are about what is done of it, and it is
\* all after the cursor.
HandCounts ==
  hand # Nil =>
    /\ hand.left \subseteq hand.batch
    /\ hand.lost \subseteq hand.batch \ hand.left
    /\ hand.deleted + Cardinality(hand.lost) = Cardinality(hand.batch \ hand.left)
    /\ \A id \in hand.batch : AfterCursor(id)

Counting == CountsAgree /\ SeenBehind /\ HandCounts

LEMMA CountingInit == Init => Counting
BY FS_EmptySet
DEF Init, Idle, Counting, CountsAgree, SeenBehind, HandCounts, Recorded

\* One shot is done with, as deleted (d = 1) or as failed.
LEMMA OneDone ==
  ASSUME Basic, Counting, hand # Nil, NEW id \in hand.left,
         Deleted(id) \/ Failed(id), UNCHANGED <<at, job>>
  PROVE  Counting'
<1>1. id \in Ids /\ TypeOK
  BY HandFields DEF Basic
<1>2. /\ hand'.batch = hand.batch /\ hand'.left = hand.left \ {id}
      /\ hand' # Nil
  BY <1>1, DeletedEffect, FailedEffect
<1> DEFINE done == hand.batch \ hand.left
<1>3. /\ hand.left \subseteq hand.batch /\ hand.lost \subseteq done
      /\ hand.deleted + Cardinality(hand.lost) = Cardinality(done)
      /\ \A b \in hand.batch : AfterCursor(b)
  BY DEF Counting, HandCounts
<1>4. /\ hand.batch \ hand'.left = done \union {id}
      /\ id \notin done /\ id \notin hand.lost
  BY <1>2, <1>3
<1>5. done \in SUBSET Ids /\ hand.lost \in SUBSET Ids /\ hand.deleted \in Nat
  BY <1>1, HandFields
<1>6. /\ IsFiniteSet(done) /\ IsFiniteSet(hand.lost)
      /\ Cardinality(done) \in Nat /\ Cardinality(hand.lost) \in Nat
  BY <1>5, FiniteShots
<1>7. /\ Cardinality(done \union {id}) = Cardinality(done) + 1
      /\ Cardinality(hand.lost \union {id}) = Cardinality(hand.lost) + 1
  BY <1>4, <1>6, FS_AddElement
<1>8. /\ hand'.lost \subseteq done \union {id}
      /\ hand'.deleted + Cardinality(hand'.lost) = Cardinality(done) + 1
  <2>1. CASE Deleted(id)
    BY <1>1, <1>3, <1>5, <1>6, <2>1, DeletedEffect
  <2>2. CASE Failed(id)
    <3>1. hand'.deleted = hand.deleted /\ hand'.lost = hand.lost \union {id}
      BY <1>1, <2>2, FailedEffect
    <3> QED
      BY <1>3, <1>5, <1>6, <1>7, <3>1
  <2> QED
    BY <2>1, <2>2
<1>9. \A b \in hand.batch : AfterCursor(b)'
  BY <1>3 DEF AfterCursor
<1>10. HandCounts'
  BY <1>2, <1>3, <1>4, <1>7, <1>8, <1>9 DEF HandCounts
<1>11. CountsAgree' /\ SeenBehind'
  BY DEF Counting, CountsAgree, SeenBehind, AfterCursor, Recorded
<1> QED
  BY <1>10, <1>11 DEF Counting

LEMMA CountingNext == Basic /\ Basic' /\ Counting /\ [Next]_vars => Counting'
<1> SUFFICES ASSUME Basic, Basic', Counting, [Next]_vars PROVE Counting'
  OBVIOUS
<1>t. TypeOK /\ TypeOK'
  BY DEF Basic
\* Steps that leave job and hand alone, and the recorded shots as they were.
<1>0. ASSUME UNCHANGED <<job, hand>>, Recorded \subseteq Recorded',
             \A id \in Recorded : at'[id] = at[id]
      PROVE  Counting'
  <2>1. hand # Nil => hand.batch \subseteq Recorded
    BY DEF Basic, InHandRuns
  <2>2. \A id \in Recorded : AfterCursor(id)' <=> AfterCursor(id)
    BY <1>0 DEF AfterCursor
  <2>3. CountsAgree'
    BY <1>0 DEF Counting, CountsAgree
  <2>4. SeenBehind'
    BY <1>0, <2>2 DEF Counting, SeenBehind
  <2>5. HandCounts'
    BY <1>0, <2>1, <2>2 DEF Counting, HandCounts
  <2> QED
    BY <2>3, <2>4, <2>5 DEF Counting
\* Steps that drop the batch in hand and keep what the job has counted.
<1>00. ASSUME hand' = Nil, UNCHANGED at,
              job'.processed = job.processed, job'.deleted = job.deleted,
              job'.failed = job.failed, job'.seen = job.seen,
              job'.lost = job.lost, job'.cursor = job.cursor
       PROVE  Counting'
  <2>1. Recorded' = Recorded /\ \A id \in Recorded : AfterCursor(id)' <=> AfterCursor(id)
    BY <1>00 DEF AfterCursor, Recorded
  <2> QED
    BY <1>00, <2>1 DEF Counting, CountsAgree, SeenBehind, HandCounts
<1>1. ASSUME NEW id \in Ids, NEW t \in Times, Record(id, t) PROVE Counting'
  <2>1. /\ UNCHANGED <<job, hand>> /\ at' = [at EXCEPT ![id] = t]
        /\ at[id] = Nil
    BY <1>1 DEF Record
  <2>2. t # Nil
    BY NilAssumption DEF Times
  <2>3. /\ Recorded \subseteq Recorded'
        /\ \A a \in Recorded : at'[a] = at[a]
    BY <1>t, <2>1, <2>2 DEF Recorded, TypeOK
  <2> QED
    BY <1>0, <2>1, <2>3
<1>2. ASSUME NEW from \in Times, NEW to \in Times, BulkDelete(from, to)
      PROVE  Counting'
  BY <1>0, <1>2 DEF BulkDelete, Recorded
<1>3. ASSUME NEW id \in Ids, DeletePending(id) PROVE Counting'
  BY <1>0, <1>3 DEF DeletePending, Recorded
<1>4. ASSUME NEW to \in Times, StartPurge(to) PROVE Counting'
  <2>1. /\ hand' = Nil /\ job'.processed = 0 /\ job'.deleted = 0
        /\ job'.failed = 0 /\ job'.seen = {} /\ job'.lost = {}
    BY <1>t, <1>4, StartEffect
  <2> QED
    BY <2>1, FS_EmptySet DEF Counting, CountsAgree, SeenBehind, HandCounts
<1>5. CASE TakeBatch
  <2>1. UNCHANGED <<at, job>>
    BY <1>5 DEF TakeBatch
  <2>2. CountsAgree' /\ SeenBehind'
    BY <2>1 DEF Counting, CountsAgree, SeenBehind, AfterCursor, Recorded
  <2>3. /\ hand'.batch \subseteq Due /\ hand'.left = hand'.batch
        /\ hand'.deleted = 0 /\ hand'.lost = {}
    BY <1>t, <1>5, TakeEffect
  <2>4. \A id \in hand'.batch : AfterCursor(id)'
    BY <2>1, <2>3 DEF Due, AfterCursor
  <2>5. hand'.batch \ hand'.left = {} /\ Cardinality({}) = 0
    BY <2>3, FS_EmptySet
  <2> QED
    BY <2>2, <2>3, <2>4, <2>5 DEF Counting, HandCounts
<1>6. CASE Complete
  <2>1. hand' = Nil /\ UNCHANGED at /\ job' = [job EXCEPT !.status = "completed"]
    BY <1>6 DEF Complete, NextMessage
  <2> QED
    BY <1>t, <1>00, <2>1, StatusEffect DEF Statuses
<1>7. CASE DeleteObject
  <2>1. PICK id \in hand.left :
          hand' = [hand EXCEPT !.pc = "row"] \/ Failed(id)
    BY <1>7 DEF DeleteObject
  <2>2. hand # Nil /\ UNCHANGED <<at, job>>
    BY <1>7 DEF DeleteObject, InHand
  <2>3. CASE Failed(id)
    BY <2>2, <2>3, OneDone
  <2>4. CASE hand' = [hand EXCEPT !.pc = "row"]
    <3>1. /\ hand'.batch = hand.batch /\ hand'.left = hand.left
          /\ hand'.deleted = hand.deleted /\ hand'.lost = hand.lost
      BY <1>t, <2>2, <2>4, ToRowEffect
    <3>2. \A id_1 \in Ids : AfterCursor(id_1)' <=> AfterCursor(id_1)
      BY <2>2 DEF AfterCursor
    <3>3. CountsAgree' /\ SeenBehind'
      BY <2>2 DEF Counting, CountsAgree, SeenBehind, AfterCursor, Recorded
    <3>4. HandCounts'
      BY <1>t, <2>2, <3>1, <3>2, HandFields DEF Counting, HandCounts
    <3> QED
      BY <3>3, <3>4 DEF Counting
  <2> QED
    BY <2>1, <2>3, <2>4
<1>8. CASE DestroyRow
  <2>1. PICK id \in hand.left : Deleted(id) \/ Failed(id)
    BY <1>8 DEF DestroyRow
  <2>2. hand # Nil /\ UNCHANGED <<at, job>>
    BY <1>8 DEF DestroyRow, InHand
  <2> QED
    BY <2>1, <2>2, OneDone
<1>9. CASE EndBatch
  <2>1. /\ hand # Nil /\ hand' = Nil /\ hand.left = {} /\ UNCHANGED at
        /\ Counted(job.processed + Cardinality(hand.batch))
    BY <1>9 DEF EndBatch
  <2>2. /\ job.processed \in Nat /\ job.deleted \in Nat /\ job.failed \in Nat
        /\ hand.deleted \in Nat
        /\ IsFiniteSet(hand.batch) /\ Cardinality(hand.batch) \in Nat
        /\ IsFiniteSet(hand.lost) /\ Cardinality(hand.lost) \in Nat
        /\ IsFiniteSet(job.seen) /\ Cardinality(job.seen) \in Nat
        /\ IsFiniteSet(job.lost) /\ Cardinality(job.lost) \in Nat
    BY <1>t, <2>1, JobFields, HandFields, FiniteShots
  <2>3. hand.batch \subseteq Recorded
    BY <2>1 DEF Basic, InHandRuns
  <2>4. PICK last \in hand.batch :
          /\ Last(last, hand.batch)
          /\ job'.processed = job.processed + Cardinality(hand.batch)
          /\ job'.deleted = job.deleted + hand.deleted
          /\ job'.failed = job.failed + Cardinality(hand.lost)
          /\ job'.cursor # Nil
          /\ job'.cursor.at = at[last] /\ job'.cursor.id = last
          /\ job'.seen = job.seen \union hand.batch
          /\ job'.lost = job.lost \union hand.lost
    BY <1>t, <2>1, <2>2, <2>3, CountedEffect
  <2>5. /\ hand.lost \subseteq hand.batch
        /\ hand.deleted + Cardinality(hand.lost) = Cardinality(hand.batch)
        /\ \A id \in hand.batch : AfterCursor(id)
    <3>1. hand.batch \ hand.left = hand.batch
      BY <2>1
    <3> QED
      BY <2>1, <3>1 DEF Counting, HandCounts
  <2>6. /\ job.processed = Cardinality(job.seen)
        /\ job.processed = job.deleted + job.failed
        /\ job.failed = Cardinality(job.lost)
        /\ job.lost \subseteq job.seen /\ job.seen \subseteq Recorded
        /\ \A id \in job.seen : ~AfterCursor(id)
    BY DEF Counting, CountsAgree, SeenBehind
  <2>7. job.seen \intersect hand.batch = {} /\ job.lost \intersect hand.lost = {}
    BY <2>5, <2>6
  <2>8. /\ Cardinality(job.seen \union hand.batch)
             = Cardinality(job.seen) + Cardinality(hand.batch)
        /\ Cardinality(job.lost \union hand.lost)
             = Cardinality(job.lost) + Cardinality(hand.lost)
    <3>1. /\ Cardinality(job.seen \union hand.batch)
               = Cardinality(job.seen) + Cardinality(hand.batch) - Cardinality({})
          /\ Cardinality(job.lost \union hand.lost)
               = Cardinality(job.lost) + Cardinality(hand.lost) - Cardinality({})
      BY <2>2, <2>7, FS_Union
    <3> QED
      BY <2>2, <3>1, FS_EmptySet
  <2>9. CountsAgree'
    BY <2>2, <2>4, <2>5, <2>6, <2>8 DEF CountsAgree
  <2>10. Recorded' = Recorded
    BY <2>1 DEF Recorded
  <2>11. ASSUME NEW id \in Recorded
         PROVE  AfterCursor(id)' <=> Before(last, id)
    <3>1. /\ last \in Int /\ id \in Int /\ at[last] \in Int /\ at[id] \in Int
      BY <1>t, <2>3, RecordedTimes
    <3> QED
      BY <2>1, <2>4, <3>1 DEF AfterCursor, Before
  <2>12. ASSUME NEW id \in job.seen \union hand.batch PROVE ~AfterCursor(id)'
    <3>1. id \in Recorded /\ last \in Recorded
      BY <2>3, <2>6
    <3>2. ~Before(last, id)
      <4>1. CASE id \in hand.batch
        <5>1. id = last \/ Before(id, last)
          BY <2>4, <4>1 DEF Last
        <5> QED
          BY <1>t, <3>1, <5>1, BeforeIrreflexive
      <4>2. CASE id \in job.seen
        BY <1>t, <2>5, <2>6, <3>1, <4>2, BehindStaysBehind
      <4> QED
        BY <4>1, <4>2
    <3> QED
      BY <2>11, <3>1, <3>2
  <2>13. SeenBehind'
    BY <2>3, <2>4, <2>5, <2>6, <2>10, <2>12 DEF SeenBehind
  <2> QED
    BY <2>1, <2>9, <2>13 DEF Counting, HandCounts
<1>10. CASE Raise
  <2>1. hand' = Nil /\ UNCHANGED at /\ job' = [job EXCEPT !.status = "failed"]
    BY <1>10 DEF Raise, NextMessage, Rescued
  <2> QED
    BY <1>t, <1>00, <2>1, StatusEffect DEF Statuses
<1>11. CASE Crash
  BY <1>11, FS_EmptySet
  DEF Crash, Idle, Counting, CountsAgree, SeenBehind, HandCounts
<1>12. CASE UNCHANGED vars
  BY <1>0, <1>12 DEF vars, Recorded
<1> QED
  BY <1>1, <1>2, <1>3, <1>4, <1>5, <1>6, <1>7, <1>8, <1>9, <1>10, <1>11, <1>12
  DEF Next, PurgerStep

-----------------------------------------------------------------------------
(***************************************************************************)
(* A completed job has reached every shot of its start.                     *)
(***************************************************************************)
\* A shot of the start that is still in the database, and is not counted as
\* failed, is ahead of the walk: after the cursor, and, if a batch is in
\* hand, still to be done in it, failed in it, or after all of it.
Ahead(id) ==
  /\ at[id] <= job.to
  /\ AfterCursor(id)
  /\ hand # Nil => \/ id \in hand.left \union hand.lost
                   \/ \A b \in hand.batch : Before(b, id)

Covering ==
  /\ CompletedCovers
  /\ job.target \subseteq Recorded
  /\ job.status = "running" =>
       \A id \in (job.target \intersect rows) \ job.lost : Ahead(id)

LEMMA CoveringInit == Init => Covering
BY DEF Init, Idle, Covering, CompletedCovers

LEMMA CoveringNext ==
  Basic /\ Basic' /\ Counting /\ Covering /\ [Next]_vars => Covering'
<1> SUFFICES ASSUME Basic, Basic', Counting, Covering, [Next]_vars
             PROVE  Covering'
  OBVIOUS
<1>t. TypeOK /\ TypeOK'
  BY DEF Basic
<1>h. hand # Nil => job.status = "running" /\ hand.batch \subseteq Recorded
  BY DEF Basic, InHandRuns
<1> DEFINE Open == (job.target \intersect rows) \ job.lost
<1>o. job.target \subseteq Recorded /\ Open \subseteq Recorded
  BY DEF Covering
\* Steps that leave job and hand alone, and bring no recorded shot back.
<1>0. ASSUME UNCHANGED <<job, hand>>, Recorded \subseteq Recorded',
             \A id \in Recorded : at'[id] = at[id],
             rows' \intersect Recorded \subseteq rows
      PROVE  Covering'
  <2>1. ASSUME NEW id \in Recorded, Ahead(id) PROVE Ahead(id)'
    <3>1. at'[id] = at[id] /\ job' = job /\ hand' = hand
      BY <1>0
    <3>2. AfterCursor(id)'
      BY <2>1, <3>1 DEF Ahead, AfterCursor
    <3>3. ASSUME NEW b \in hand.batch, hand # Nil, Before(b, id)
          PROVE  Before(b, id)'
      BY <1>0, <1>h, <3>1, <3>3 DEF Before
    <3> QED
      BY <2>1, <3>1, <3>2, <3>3 DEF Ahead
  <2>2. Open' \subseteq Open
    BY <1>0, <1>o
  <2>3. job.status = "running" => \A id \in Open' : Ahead(id)'
    BY <1>o, <2>1, <2>2 DEF Covering
  <2>4. CompletedCovers'
    BY <1>0, <1>o DEF Covering, CompletedCovers
  <2> QED
    BY <1>0, <1>o, <2>3, <2>4 DEF Covering
\* Steps on one shot of the batch in hand: it is done with, or gone.
<1>00. ASSUME hand # Nil, hand' # Nil, UNCHANGED <<at, job>>,
              rows' \subseteq rows, hand'.batch = hand.batch,
              \A id \in rows' : id \in hand.left \union hand.lost
                                  => id \in hand'.left \union hand'.lost
       PROVE  Covering'
  <2>1. job.status = "running"
    BY <1>00, <1>h
  <2>2. ASSUME NEW id \in Open' PROVE Ahead(id)'
    <3>1. id \in Open /\ id \in rows'
      BY <1>00
    <3>2. Ahead(id)
      BY <2>1, <3>1 DEF Covering
    <3>3. AfterCursor(id)' /\ at'[id] <= job'.to
      BY <1>00, <3>2 DEF Ahead, AfterCursor
    <3>4. \/ id \in hand'.left \union hand'.lost
          \/ \A b \in hand'.batch : Before(b, id)'
      BY <1>00, <3>1, <3>2 DEF Ahead, Before
    <3> QED
      BY <3>3, <3>4 DEF Ahead
  <2>3. CompletedCovers' /\ (job.target \subseteq Recorded)'
    BY <1>00, <1>o, <2>1 DEF CompletedCovers, Recorded
  <2> QED
    BY <2>2, <2>3 DEF Covering
<1>1. ASSUME NEW id \in Ids, NEW t \in Times, Record(id, t) PROVE Covering'
  <2>1. /\ UNCHANGED <<job, hand>> /\ at' = [at EXCEPT ![id] = t]
        /\ at[id] = Nil /\ rows' = rows \union {id}
    BY <1>1 DEF Record
  <2>2. t # Nil
    BY NilAssumption DEF Times
  <2>3. /\ Recorded \subseteq Recorded' /\ id \notin Recorded
        /\ \A a \in Recorded : at'[a] = at[a]
    BY <1>t, <2>1, <2>2 DEF Recorded, TypeOK
  <2> QED
    BY <1>0, <2>1, <2>3
<1>2. ASSUME NEW from \in Times, NEW to \in Times, BulkDelete(from, to)
      PROVE  Covering'
  <2>1. rows' \subseteq rows /\ UNCHANGED <<at, job, hand>>
    BY <1>2 DEF BulkDelete
  <2> QED
    BY <1>0, <2>1 DEF Recorded
<1>3. ASSUME NEW id \in Ids, DeletePending(id) PROVE Covering'
  BY <1>0, <1>3 DEF DeletePending, Recorded
<1>4. ASSUME NEW to \in Times, StartPurge(to) PROVE Covering'
  <2>1. /\ hand' = Nil /\ job'.status = "running" /\ job'.to = to
        /\ job'.cursor = Nil /\ job'.target = {id \in rows : at[id] <= to}
    BY <1>t, <1>4, StartEffect
  <2>2. UNCHANGED <<at, rows>>
    BY <1>4 DEF StartPurge
  <2>3. \A id \in job'.target : Ahead(id)'
    BY <2>1, <2>2 DEF Ahead, AfterCursor
  <2>4. (job.target \subseteq Recorded)'
    BY <1>t, <2>1, <2>2 DEF TypeOK, Recorded
  <2> QED
    BY <2>1, <2>3, <2>4 DEF Covering, CompletedCovers
<1>5. CASE TakeBatch
  <2>1. /\ UNCHANGED <<at, rows, job>> /\ job.status = "running" /\ hand = Nil
    BY <1>5 DEF TakeBatch, NextMessage
  <2>2. /\ hand' # Nil /\ hand'.left = hand'.batch
        /\ \A a \in hand'.batch, b \in Due \ hand'.batch : Before(a, b)
    BY <1>t, <1>5, TakeEffect
  <2>3. ASSUME NEW id \in Open PROVE Ahead(id)'
    <3>1. Ahead(id)
      BY <2>1 DEF Covering
    <3>2. id \in Due
      BY <3>1 DEF Ahead, Due
    <3>3. id \in hand'.left \/ \A b \in hand'.batch : Before(b, id)'
      BY <2>1, <2>2, <3>2 DEF Before
    <3> QED
      BY <2>1, <3>1, <3>3 DEF Ahead, AfterCursor
  <2>4. CompletedCovers' /\ (job.target \subseteq Recorded)'
    BY <1>o, <2>1 DEF CompletedCovers, Recorded
  <2> QED
    BY <2>1, <2>3, <2>4 DEF Covering
<1>6. CASE Complete
  <2>1. /\ UNCHANGED <<at, rows>> /\ Due = {} /\ job.status = "running"
        /\ job' = [job EXCEPT !.status = "completed"]
    BY <1>6 DEF Complete, NextMessage
  <2>2. job'.status = "completed" /\ job'.target = job.target /\ job'.lost = job.lost
    BY <1>t, <2>1, StatusEffect DEF Statuses
  <2>3. ASSUME NEW id \in Open PROVE FALSE
    <3>1. Ahead(id)
      BY <2>1 DEF Covering
    <3> QED
      BY <2>1, <3>1 DEF Ahead, Due
  <2>4. CompletedCovers'
    BY <2>1, <2>2, <2>3 DEF CompletedCovers
  <2> QED
    BY <1>o, <2>1, <2>2, <2>4 DEF Covering, Recorded
<1>7. CASE DeleteObject
  <2>1. PICK id \in hand.left :
          hand' = [hand EXCEPT !.pc = "row"] \/ Failed(id)
    BY <1>7 DEF DeleteObject
  <2>2. hand # Nil /\ UNCHANGED <<at, job, rows>>
    BY <1>7 DEF DeleteObject, InHand
  <2>3. id \in Ids
    BY <1>t, <2>2, HandFields
  <2>4. /\ hand' # Nil /\ hand'.batch = hand.batch
        /\ hand.left \union hand.lost \subseteq hand'.left \union hand'.lost
    BY <1>t, <2>1, <2>2, <2>3, FailedEffect, ToRowEffect
  <2> QED
    BY <1>00, <2>2, <2>4
<1>8. CASE DestroyRow
  <2>1. PICK id \in hand.left :
          \/ rows' = rows \ {id} /\ Deleted(id)
          \/ Failed(id) /\ UNCHANGED rows
    BY <1>8 DEF DestroyRow
  <2>2. hand # Nil /\ UNCHANGED <<at, job>>
    BY <1>8 DEF DestroyRow, InHand
  <2>3. id \in Ids
    BY <1>t, <2>2, HandFields
  <2>4. /\ hand' # Nil /\ hand'.batch = hand.batch /\ rows' \subseteq rows
        /\ \A a \in rows' : a \in hand.left \union hand.lost
                              => a \in hand'.left \union hand'.lost
    BY <1>t, <2>1, <2>2, <2>3, FailedEffect, DeletedEffect
  <2> QED
    BY <1>00, <2>2, <2>4
<1>9. CASE EndBatch
  <2>1. /\ hand # Nil /\ hand' = Nil /\ hand.left = {}
        /\ UNCHANGED <<at, rows>>
        /\ Counted(job.processed + Cardinality(hand.batch))
    BY <1>9 DEF EndBatch
  <2>2. job.processed + Cardinality(hand.batch) \in Nat
    BY <1>t, <2>1, JobFields, HandFields, FiniteShots
  <2>3. hand.batch \subseteq Recorded /\ job.status = "running"
    BY <1>h, <2>1
  <2>4. PICK last \in hand.batch :
          /\ job'.status = job.status /\ job'.to = job.to
          /\ job'.target = job.target
          /\ job'.cursor # Nil
          /\ job'.cursor.at = at[last] /\ job'.cursor.id = last
          /\ job'.lost = job.lost \union hand.lost
    BY <1>t, <2>1, <2>2, <2>3, CountedEffect
  <2>5. ASSUME NEW id \in Open' PROVE Ahead(id)'
    <3>1. id \in Open /\ id \notin hand.lost
      BY <2>1, <2>4
    <3>2. Ahead(id)
      BY <2>3, <3>1 DEF Covering
    <3>3. Before(last, id)
      BY <2>1, <3>1, <3>2 DEF Ahead
    <3>4. id \in Recorded /\ last \in Recorded
      BY <1>o, <2>3, <3>1
    <3>5. AfterCursor(id)'
      BY <1>t, <2>1, <2>4, <3>3, <3>4, RecordedTimes DEF AfterCursor, Before
    <3> QED
      BY <2>1, <2>4, <3>2, <3>5 DEF Ahead
  <2>6. (job.target \subseteq Recorded)'
    BY <1>o, <2>1, <2>4 DEF Recorded
  <2> QED
    BY <2>3, <2>4, <2>5, <2>6 DEF Covering, CompletedCovers
<1>10. CASE Raise
  <2>1. UNCHANGED at /\ job' = [job EXCEPT !.status = "failed"]
    BY <1>10 DEF Raise, Rescued
  <2>2. job'.status = "failed" /\ job'.target = job.target
    BY <1>t, <2>1, StatusEffect DEF Statuses
  <2> QED
    BY <1>o, <2>1, <2>2 DEF Covering, CompletedCovers, Recorded
<1>11. CASE Crash
  BY <1>11 DEF Crash, Idle, Covering, CompletedCovers
<1>12. CASE UNCHANGED vars
  BY <1>0, <1>12 DEF vars, Recorded
<1> QED
  BY <1>1, <1>2, <1>3, <1>4, <1>5, <1>6, <1>7, <1>8, <1>9, <1>10, <1>11, <1>12
  DEF Next, PurgerStep

-----------------------------------------------------------------------------
(***************************************************************************)
(* Rows and objects.                                                        *)
(***************************************************************************)
\* What is about to be deleted has no row, and the shot in hand has lost its
\* object when its row is about to go.
Together ==
  /\ RowsMatchObjects
  /\ smooth => /\ pending \intersect rows = {}
               /\ InHand("row") =>
                    \A id \in hand.left : First(id, hand.left) => id \notin objects

LEMMA TogetherInit == Init => Together
BY DEF Init, Together, RowsMatchObjects, InHand

LEMMA TogetherNext ==
  Basic /\ Basic' /\ Counting /\ Together /\ [Next]_vars => Together'
<1> SUFFICES ASSUME Basic, Basic', Counting, Together, [Next]_vars, smooth'
             PROVE  Together'
  BY DEF Together, RowsMatchObjects
<1>s. smooth
  BY DEF vars, Next, Record, BulkDelete, DeletePending, StartPurge,
         PurgerStep, TakeBatch, Complete, DeleteObject, DestroyRow, EndBatch,
         Raise, Crash
<1>t. TypeOK /\ TypeOK'
  BY DEF Basic
<1>b. hand # Nil => hand.left \subseteq Recorded
  BY DEF Basic, InHandRuns, Counting, HandCounts
<1>1. /\ \A id \in rows \ objects : InHand("row") /\ First(id, hand.left)
      /\ objects \ rows \subseteq pending
      /\ pending \intersect rows = {}
      /\ InHand("row") =>
           \A id \in hand.left : First(id, hand.left) => id \notin objects
  BY <1>s DEF Together, RowsMatchObjects
\* The order of the shots in hand does not change.
<1>f. ASSUME \A id \in Recorded : at'[id] = at[id], hand' = hand
      PROVE  /\ InHand("row")' <=> InHand("row")
             /\ InHand("row") =>
                  \A id : First(id, hand.left)' <=> First(id, hand.left)
  BY <1>f, <1>b DEF InHand, First, Before
\* Steps that leave the batch in hand alone.
<1>0. ASSUME hand' = hand, \A id \in Recorded : at'[id] = at[id],
             rows' \ objects' \subseteq rows \ objects,
             objects' \ rows' \subseteq pending',
             pending' \intersect rows' = {},
             objects' \intersect Recorded \subseteq objects
      PROVE  Together'
  <2>1. \A id \in rows' \ objects' : InHand("row")' /\ First(id, hand.left)'
    BY <1>0, <1>1, <1>f
  <2>2. ASSUME InHand("row")', NEW id \in hand.left, First(id, hand.left)'
        PROVE  id \notin objects'
    <3>1. id \in Recorded /\ id \notin objects
      BY <1>0, <1>1, <1>b, <1>f, <2>2 DEF InHand
    <3> QED
      BY <1>0, <3>1
  <2> QED
    BY <1>0, <2>1, <2>2 DEF Together, RowsMatchObjects
\* Steps with no batch in hand at the row of a shot, before or after.
<1>00. ASSUME ~InHand("row"), ~InHand("row")', UNCHANGED <<rows, objects, pending>>
       PROVE  Together'
  BY <1>1, <1>00 DEF Together, RowsMatchObjects
<1>2. ASSUME NEW id \in Ids, NEW t \in Times, Record(id, t) PROVE Together'
  <2>1. /\ hand' = hand /\ pending' = pending /\ at' = [at EXCEPT ![id] = t]
        /\ rows' = rows \union {id} /\ objects' = objects \union {id}
        /\ at[id] = Nil
    BY <1>2 DEF Record
  <2>2. id \notin Recorded /\ pending \subseteq Recorded
    BY <1>t, <2>1 DEF Recorded, TypeOK
  <2>3. \A a \in Recorded : at'[a] = at[a]
    BY <1>t, <2>1, <2>2 DEF TypeOK, Recorded
  <2> QED
    BY <1>0, <1>1, <2>1, <2>2, <2>3
<1>3. ASSUME NEW from \in Times, NEW to \in Times, BulkDelete(from, to)
      PROVE  Together'
  <2>1. PICK shots \in SUBSET rows :
          /\ rows' = rows \ shots
          /\ pending' = pending \union (shots \intersect objects)
    BY <1>3 DEF BulkDelete
  <2>2. UNCHANGED <<at, objects, job, hand, mail>>
    BY <1>3 DEF BulkDelete
  <2> QED
    BY <1>0, <1>1, <2>1, <2>2
<1>4. ASSUME NEW id \in Ids, DeletePending(id) PROVE Together'
  <2>1. /\ id \in pending /\ pending' = pending \ {id}
        /\ objects' = objects \ {id} /\ UNCHANGED <<at, rows, hand>>
    BY <1>4 DEF DeletePending
  <2> QED
    BY <1>0, <1>1, <2>1
<1>5. ASSUME NEW to \in Times, StartPurge(to) PROVE Together'
  BY <1>0, <1>1, <1>5 DEF StartPurge
<1>6. CASE TakeBatch
  <2>1. /\ hand = Nil /\ UNCHANGED <<rows, objects, pending>>
        /\ hand'.pc = "object"
    BY <1>6 DEF TakeBatch, NextMessage
  <2> QED
    BY <1>00, <2>1 DEF InHand
<1>7. CASE Complete
  BY <1>0, <1>1, <1>7 DEF Complete
<1>8. CASE DeleteObject
  <2>1. PICK id \in hand.left :
          /\ First(id, hand.left)
          /\ objects' = objects \ {id} /\ pending' = pending \ {id}
          /\ hand' = [hand EXCEPT !.pc = "row"]
    BY <1>8 DEF DeleteObject
  <2>2. /\ hand # Nil /\ hand.pc = "object" /\ hand.left # {}
        /\ UNCHANGED <<at, rows>>
    BY <1>8 DEF DeleteObject, InHand
  <2>3. hand' # Nil /\ hand'.left = hand.left /\ hand'.pc = "row"
    BY <1>t, <2>1, <2>2, ToRowEffect, HandFields DEF Hand
  <2>4. rows \subseteq objects
    BY <1>1, <2>2 DEF InHand
  <2>5. \A a \in hand.left : First(a, hand.left) => a = id
    <3>1. id \in Recorded /\ hand.left \subseteq Recorded
      BY <1>b, <2>2
    <3> QED
      BY <1>t, <2>1, <3>1, BeforeIrreflexive DEF First
  <2>6. \A a : First(a, hand.left)' <=> First(a, hand.left)
    BY <2>2, <2>3 DEF First, Before
  <2>7. /\ \A a \in rows' \ objects' : InHand("row")' /\ First(a, hand.left)'
        /\ objects' \ rows' \subseteq pending'
        /\ pending' \intersect rows' = {}
        /\ \A a \in hand'.left : First(a, hand.left)' => a \notin objects'
    BY <1>1, <2>1, <2>2, <2>3, <2>4, <2>5, <2>6 DEF InHand
  <2> QED
    BY <2>7 DEF Together, RowsMatchObjects
<1>9. CASE DestroyRow
  <2>1. PICK id \in hand.left :
          /\ First(id, hand.left)
          /\ \/ rows' = rows \ {id} /\ Deleted(id)
             \/ id \notin rows /\ Failed(id) /\ UNCHANGED rows
    BY <1>9 DEF DestroyRow
  <2>2. /\ InHand("row") /\ hand # Nil /\ UNCHANGED <<at, objects, pending>>
    BY <1>9 DEF DestroyRow, InHand
  <2>3. id \in Recorded /\ id \in Ids /\ hand.left \subseteq Recorded
    BY <1>b, <2>2 DEF Recorded
  <2>4. rows' = rows \ {id} /\ id \notin objects
    BY <1>1, <2>1, <2>2
  <2>5. \A a \in rows \ objects : a = id
    <3>1. SUFFICES ASSUME NEW a \in rows \ objects, a # id PROVE FALSE
      OBVIOUS
    <3>2. a \in hand.left /\ First(a, hand.left)
      BY <1>1 DEF First
    <3>3. Before(a, id) /\ Before(id, a)
      BY <2>1, <3>1, <3>2 DEF First
    <3> QED
      BY <1>t, <2>3, <3>2, <3>3, BeforeIrreflexive
  <2>6. ~InHand("row")'
    <3>1. hand'.pc = "object"
      BY <1>t, <2>1, <2>2, HandFields DEF Deleted, Failed, Hand
    <3> QED
      BY <3>1 DEF InHand
  <2> QED
    BY <1>1, <2>2, <2>4, <2>5, <2>6 DEF Together, RowsMatchObjects
<1>10. CASE EndBatch
  <2>1. /\ hand.left = {} /\ hand' = Nil /\ UNCHANGED <<rows, objects, pending>>
    BY <1>10 DEF EndBatch
  <2> QED
    BY <1>00, <2>1 DEF InHand
<1>11. CASE Raise
  BY <1>11 DEF Raise
<1>12. CASE Crash
  BY <1>12 DEF Crash
<1>13. CASE UNCHANGED vars
  BY <1>0, <1>1, <1>13 DEF vars
<1> QED
  BY <1>2, <1>3, <1>4, <1>5, <1>6, <1>7, <1>8, <1>9, <1>10, <1>11, <1>12, <1>13
  DEF Next, PurgerStep

-----------------------------------------------------------------------------
(***************************************************************************)
(* The sweep.                                                               *)
(***************************************************************************)
\* What a sweep sees of the state.
SweepSame == UNCHANGED <<rows, job.status, job.target, Reached, Lost>>

\* What a job reaches was recorded.
LEMMA ReachedRecorded ==
  ASSUME Basic, Counting
  PROVE  Reached \subseteq Recorded
BY DEF Basic, InHandRuns, Counting, SeenBehind, Reached

\* One shot of the batch in hand is deleted, or counted as failed.
LEMMA OneReached ==
  ASSUME Basic, Counting, hand # Nil, NEW id \in hand.left, UNCHANGED job,
         \/ rows' = rows \ {id} /\ Deleted(id)
         \/ Failed(id) /\ UNCHANGED rows
  PROVE  Sweep!Reach(id)
<1>1. id \in Ids /\ TypeOK /\ job.status = "running"
  BY HandFields DEF Basic, InHandRuns
<1>2. /\ hand' # Nil /\ hand'.batch = hand.batch /\ hand'.left = hand.left \ {id}
      /\ Deleted(id) => hand'.lost = hand.lost
      /\ Failed(id) => hand'.lost = hand.lost \union {id}
  BY <1>1, DeletedEffect, FailedEffect
<1>3. /\ hand.left \subseteq hand.batch
      /\ \A b \in hand.batch : AfterCursor(b)
      /\ \A b \in job.seen : ~AfterCursor(b)
  BY DEF Counting, HandCounts, SeenBehind
<1>4. id \notin Reached
  BY <1>3 DEF Reached
<1>5. Reached' = Reached \union {id}
  BY <1>2, <1>3 DEF Reached
<1>6. /\ Deleted(id) => Lost' = Lost
      /\ Failed(id) => Lost' = Lost \union {id}
  BY <1>2 DEF Lost
<1> QED
  BY <1>1, <1>4, <1>5, <1>6 DEF Sweep!Reach

\* Every step of the purger and of the others is a step of the sweep.
LEMMA SweepStep ==
  ASSUME Basic, Counting, Covering, [Next]_vars
  PROVE  [Sweep!SweepNext]_Sweep!sweepVars
<1> USE DEF Sweep!SweepNext
<1>t. TypeOK
  BY DEF Basic
<1>0. SweepSame => UNCHANGED Sweep!sweepVars
  BY DEF SweepSame, Sweep!sweepVars
<1>h. UNCHANGED <<job, hand>> =>
        UNCHANGED <<job.status, job.target, Reached, Lost>>
  BY DEF Reached, Lost
<1>1. ASSUME NEW id \in Ids, NEW t \in Times, Record(id, t) PROVE Sweep!Arrive(id)
  <2>1. UNCHANGED <<job, hand>> /\ rows' = rows \union {id} /\ id \notin Recorded
    BY <1>1 DEF Record, Recorded
  <2>2. rows \union job.target \union Reached \subseteq Recorded
    BY <1>t, ReachedRecorded DEF TypeOK, Recorded, Covering
  <2> QED
    BY <1>h, <2>1, <2>2 DEF Sweep!Arrive
<1>2. ASSUME NEW from \in Times, NEW to \in Times, BulkDelete(from, to)
      PROVE  Sweep!Remove
  <2>1. rows' \subseteq rows /\ UNCHANGED <<job, hand>>
    BY <1>2 DEF BulkDelete
  <2> QED
    BY <1>h, <2>1 DEF Sweep!Remove
<1>3. ASSUME NEW id \in Ids, DeletePending(id) PROVE SweepSame
  BY <1>h, <1>3 DEF DeletePending, SweepSame
<1>4. ASSUME NEW to \in Times, StartPurge(to) PROVE Sweep!Start
  <2>1. /\ hand' = Nil /\ job.status # "running" /\ job'.status = "running"
        /\ job'.target \subseteq rows /\ job'.seen = {} /\ job'.lost = {}
    BY <1>t, <1>4, StartEffect
  <2>2. UNCHANGED rows
    BY <1>4 DEF StartPurge
  <2> QED
    BY <2>1, <2>2 DEF Sweep!Start, Reached, Lost
<1>5. CASE TakeBatch
  <2>1. hand = Nil /\ UNCHANGED <<rows, job>>
    BY <1>5 DEF TakeBatch, NextMessage
  <2>2. hand' # Nil /\ hand'.left = hand'.batch /\ hand'.lost = {}
    BY <1>t, <1>5, TakeEffect
  <2>3. SweepSame
    BY <2>1, <2>2 DEF SweepSame, Reached, Lost
  <2> QED
    BY <1>0, <2>3
<1>6. CASE Complete
  <2>1. /\ UNCHANGED <<rows, hand>> /\ hand = Nil /\ Due = {} /\ job.status = "running"
        /\ job' = [job EXCEPT !.status = "completed"]
    BY <1>6 DEF Complete, NextMessage
  <2>2. /\ job'.status = "completed" /\ job'.target = job.target
        /\ job'.seen = job.seen /\ job'.lost = job.lost
    BY <1>t, <2>1, StatusEffect DEF Statuses
  <2>3. job.target \intersect rows \subseteq job.lost
    BY <2>1 DEF Covering, Ahead, Due
  <2>4. job.target \intersect rows \subseteq Reached
    BY <2>3 DEF Counting, SeenBehind, Reached
  <2> QED
    BY <2>1, <2>2, <2>4 DEF Sweep!Finish, Reached, Lost
<1>7. CASE DeleteObject
  <2>1. PICK id \in hand.left :
          hand' = [hand EXCEPT !.pc = "row"] \/ Failed(id)
    BY <1>7 DEF DeleteObject
  <2>2. hand # Nil /\ UNCHANGED <<job, rows>>
    BY <1>7 DEF DeleteObject, InHand
  <2>3. CASE Failed(id)
    <3>1. id \in Ids
      BY <1>t, <2>2, HandFields
    <3> QED
      BY <2>2, <2>3, <3>1, OneReached
  <2>4. CASE hand' = [hand EXCEPT !.pc = "row"]
    <3>1. /\ hand' # Nil /\ hand'.batch = hand.batch
          /\ hand'.left = hand.left /\ hand'.lost = hand.lost
      BY <1>t, <2>2, <2>4, ToRowEffect
    <3>2. SweepSame
      BY <2>2, <3>1 DEF SweepSame, Reached, Lost
    <3> QED
      BY <1>0, <3>2
  <2> QED
    BY <2>1, <2>3, <2>4
<1>8. CASE DestroyRow
  <2>1. PICK id \in hand.left :
          \/ rows' = rows \ {id} /\ Deleted(id)
          \/ Failed(id) /\ UNCHANGED rows
    BY <1>8 DEF DestroyRow
  <2>2. hand # Nil /\ UNCHANGED job
    BY <1>8 DEF DestroyRow, InHand
  <2>3. id \in Ids
    BY <1>t, <2>2, HandFields
  <2> QED
    BY <2>1, <2>2, <2>3, OneReached
<1>9. CASE EndBatch
  <2>1. /\ hand # Nil /\ hand' = Nil /\ hand.left = {} /\ UNCHANGED rows
        /\ Counted(job.processed + Cardinality(hand.batch))
    BY <1>9 DEF EndBatch
  <2>2. job.processed + Cardinality(hand.batch) \in Nat
    BY <1>t, <2>1, JobFields, HandFields, FiniteShots
  <2>3. hand.batch \subseteq Recorded
    BY <2>1 DEF Basic, InHandRuns
  <2>4. /\ job'.status = job.status /\ job'.target = job.target
        /\ job'.seen = job.seen \union hand.batch
        /\ job'.lost = job.lost \union hand.lost
    BY <1>t, <2>1, <2>2, <2>3, CountedEffect
  <2>5. SweepSame
    BY <2>1, <2>4 DEF SweepSame, Reached, Lost
  <2> QED
    BY <1>0, <2>5
<1>10. CASE Raise
  <2>1. /\ hand' = Nil /\ UNCHANGED rows
        /\ job' = [job EXCEPT !.status = "failed"]
    BY <1>10 DEF Raise, Rescued, NextMessage
  <2>2. /\ job'.status = "failed" /\ job'.target = job.target
        /\ job'.seen = job.seen /\ job'.lost = job.lost
    BY <1>t, <2>1, StatusEffect DEF Statuses
  <2> QED
    BY <2>1, <2>2 DEF Sweep!Abort, Reached, Lost
<1>11. CASE Crash
  <2>1. hand' = Nil /\ UNCHANGED rows /\ job' = Idle
    BY <1>11 DEF Crash
  <2>2. /\ job'.status = "idle" /\ job'.target = {}
        /\ job'.seen = {} /\ job'.lost = {}
    BY <2>1 DEF Idle
  <2> QED
    BY <2>1, <2>2 DEF Sweep!Abort, Reached, Lost
<1>12. CASE UNCHANGED vars
  BY <1>0, <1>h, <1>12 DEF vars, SweepSame
<1> QED
  BY <1>0, <1>1, <1>2, <1>3, <1>4, <1>5, <1>6, <1>7, <1>8, <1>9, <1>10, <1>11, <1>12
  DEF Next, PurgerStep

-----------------------------------------------------------------------------
(***************************************************************************)
(* The theorems.                                                            *)
(***************************************************************************)
\* The state of the purger and of its batch is well typed: in particular its
\* mailbox never holds two messages.
THEOREM Typing == Spec => []TypeOK
<1>1. Basic => TypeOK
  BY DEF Basic
<1> QED
  BY <1>1, BasicInit, BasicNext, PTL DEF Spec

\* A running job has a batch in hand or exactly one message waiting, whatever
\* was raised, started again or restarted before.
THEOREM OneMessage == Spec => []OneBatchMessage
<1>1. Basic => OneBatchMessage
  BY DEF Basic
<1> QED
  BY <1>1, BasicInit, BasicNext, PTL DEF Spec

\* Whatever is uploaded and deleted meanwhile, a job takes a shot once at
\* most, and processed is always the sum of deleted and failed.
THEOREM CountedOnce == Spec => []CountsAgree
<1>1. Counting => CountsAgree
  BY DEF Counting
<1> QED
  BY <1>1, BasicInit, BasicNext, CountingInit, CountingNext, PTL DEF Spec

\* A job that completes has reached every shot there was when it started.
THEOREM CompletedReachedAll == Spec => []CompletedCovers
<1>1. Covering => CompletedCovers
  BY DEF Covering
<1> QED
  BY <1>1, BasicInit, BasicNext, CountingInit, CountingNext,
     CoveringInit, CoveringNext, PTL DEF Spec

\* Uploads, bulk deletes and a purge of the same shots never separate a row
\* from its object, as long as nothing fails.
THEOREM NothingSeparated == Spec => []RowsMatchObjects
<1>1. Together => RowsMatchObjects
  BY DEF Together
<1> QED
  BY <1>1, BasicInit, BasicNext, CountingInit, CountingNext,
     TogetherInit, TogetherNext, PTL DEF Spec

\* The purge is a sweep: whatever is uploaded, deleted, raised or restarted,
\* it reaches no shot twice and completes when all of its start are reached.
THEOREM Sweeping == Spec => PurgeSweeps
<1>1. Init => Sweep!SweepInit
  BY DEF Init, Idle, Sweep!SweepInit, Reached, Lost
<1>2. Basic /\ Counting /\ Covering /\ [Next]_vars
        => [Sweep!SweepNext]_Sweep!sweepVars
  BY SweepStep
<1> QED
  BY <1>1, <1>2, BasicInit, BasicNext, CountingInit, CountingNext,
     CoveringInit, CoveringNext, PTL DEF Spec, PurgeSweeps, Sweep!SweepSpec

=============================================================================
