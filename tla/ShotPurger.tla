----------------------------- MODULE ShotPurger -----------------------------
(***************************************************************************)
(* The process that deletes the webcam shots of a time range in batches     *)
(* (lib/voria2/network/webcam_shot_purger.ex), with what changes the shots  *)
(* meanwhile: uploads, and the bulk delete of the admin pages (network.ex). *)
(*                                                                          *)
(* A shot is a row and an object in the store, under one identity; rows are *)
(* walked in the order of captured_at and id.                               *)
(***************************************************************************)
EXTENDS Integers, FiniteSets

CONSTANTS
  Ids,        \* identities of the shots that may be recorded
  LastTime,   \* bound: shots are captured at the instants 1..LastTime
  BatchSize,  \* @batch_size
  Disturbances,  \* which of the things below may happen
  Nil         \* nil

Times == 1..LastTime
Cursors == [at : Times, id : Ids]
Statuses == {"idle", "running", "completed", "failed"}

ASSUME IdAssumption == Ids \subseteq Nat /\ IsFiniteSet(Ids)
ASSUME BoundAssumption == LastTime \in Nat /\ BatchSize \in Nat \ {0}
ASSUME DisturbanceAssumption ==
  Disturbances \subseteq {"upload", "bulk_delete", "store_error", "row_error",
                          "raise", "crash", "no_task"}

VARIABLES
  at,       \* captured_at of every shot that was ever recorded
  rows,     \* the shots that are in the database
  objects,  \* the shots whose object is in the store
  pending,  \* objects that the task of a bulk delete has still to delete
  job,      \* the state of the process
  hand,     \* the batch that it has in hand
  mail,     \* how many :process_next_batch messages its mailbox holds
  smooth    \* history: nothing has failed so far

vars == <<at, rows, objects, pending, job, hand, mail, smooth>>

\* target, seen and lost are history: the shots there were when the job
\* started, those it has gone through, and those of them it counts as failed.
Job == [status : Statuses, to : Times \union {Nil}, cursor : Cursors \union {Nil},
        total : Nat, processed : Nat, deleted : Nat, failed : Nat,
        target : SUBSET Ids, seen : SUBSET Ids, lost : SUBSET Ids]
Hand == [batch : SUBSET Ids, left : SUBSET Ids, pc : {"object", "row"},
         deleted : Nat, lost : SUBSET Ids]

ASSUME NilAssumption == Nil \notin Int /\ Nil \notin Cursors /\ Nil \notin Hand

TypeOK ==
  /\ at \in [Ids -> Times \union {Nil}]
  /\ rows \subseteq {id \in Ids : at[id] # Nil}
  /\ objects \subseteq {id \in Ids : at[id] # Nil}
  /\ pending \subseteq objects
  /\ job \in Job
  /\ hand \in Hand \union {Nil}
  /\ mail \in 0..1
  /\ smooth \in BOOLEAN

Before(a, b) == at[a] < at[b] \/ (at[a] = at[b] /\ a < b)
First(a, S) == a \in S /\ \A b \in S \ {a} : Before(a, b)
Last(b, S) == b \in S /\ \A a \in S \ {b} : Before(a, b)

-----------------------------------------------------------------------------
(***************************************************************************)
(* The shots.                                                               *)
(***************************************************************************)
\* captured_at is taken before the row is committed, so shots need not
\* appear in its order.
Record(id, t) ==
  /\ "upload" \in Disturbances
  /\ at[id] = Nil
  /\ at' = [at EXCEPT ![id] = t]
  /\ rows' = rows \union {id}
  /\ objects' = objects \union {id}
  /\ UNCHANGED <<pending, job, hand, mail, smooth>>

\* (mutant: the objects are deleted first)
BulkDeleteObjectsFirst(from, to) ==
  /\ "bulk_delete" \in Disturbances
  /\ LET shots == {id \in rows : from <= at[id] /\ at[id] <= to} IN
       /\ shots # {}
       /\ objects' = objects \ shots
  /\ UNCHANGED <<at, rows, pending, job, hand, mail, smooth>>

\* Rows first; a task then deletes the objects, if the supervisor of tasks
\* has room for it. An error among the rows keeps the task from starting,
\* with some of the rows gone. (A shot that is purged after the read of the
\* shots and before this is gone either way.)
BulkDelete(from, to) ==
  /\ "bulk_delete" \in Disturbances
  /\ LET shots == {id \in rows : from <= at[id] /\ at[id] <= to} IN
       /\ shots # {}
       /\ \/ /\ rows' = rows \ shots
             /\ pending' = pending \union (shots \intersect objects)
             /\ UNCHANGED smooth
          \/ /\ "no_task" \in Disturbances
             /\ rows' = rows \ shots
             /\ smooth' = FALSE
             /\ UNCHANGED pending
          \/ /\ "row_error" \in Disturbances
             /\ \E gone \in SUBSET shots : rows' = rows \ gone
             /\ smooth' = FALSE
             /\ UNCHANGED pending
  /\ UNCHANGED <<at, objects, job, hand, mail>>

DeletePending(id) ==
  /\ id \in pending
  /\ pending' = pending \ {id}
  /\ objects' = objects \ {id}
  /\ UNCHANGED <<at, rows, job, hand, mail, smooth>>

-----------------------------------------------------------------------------
(***************************************************************************)
(* The process handles one message at a time.                               *)
(***************************************************************************)
Idle == [status |-> "idle", to |-> Nil, cursor |-> Nil, total |-> 0,
         processed |-> 0, deleted |-> 0, failed |-> 0,
         target |-> {}, seen |-> {}, lost |-> {}]

\* (mutant: a job may be started over a running one)
CanAlwaysStart == hand = Nil

CanStart == hand = Nil /\ job.status # "running"

\* A job that is running answers :already_running.
StartPurge(to) ==
  /\ CanStart
  /\ LET shots == {id \in rows : at[id] <= to} IN
       job' = [Idle EXCEPT !.status = "running", !.to = to,
                           !.total = Cardinality(shots), !.target = shots]
  /\ mail' = mail + 1
  /\ UNCHANGED <<at, rows, objects, pending, hand, smooth>>

\* (mutant: only captured_at is compared)
AfterTimeOnly(id) == job.cursor # Nil => at[id] > job.cursor.at

\* (mutant: the shot of the cursor is taken again)
FromCursor(id) ==
  job.cursor # Nil =>
    \/ at[id] > job.cursor.at
    \/ at[id] = job.cursor.at /\ id >= job.cursor.id

AfterCursor(id) ==
  job.cursor # Nil =>
    \/ at[id] > job.cursor.at
    \/ at[id] = job.cursor.at /\ id > job.cursor.id

Due == {id \in rows : at[id] <= job.to /\ AfterCursor(id)}

NextMessage == hand = Nil /\ mail > 0 /\ job.status = "running" /\ mail' = mail - 1

\* The first BatchSize shots that are due.
TakeBatch ==
  /\ NextMessage
  /\ \E batch \in SUBSET Due :
       /\ batch # {}
       /\ Cardinality(batch) <= BatchSize
       /\ batch # Due => Cardinality(batch) = BatchSize
       /\ \A a \in batch, b \in Due \ batch : Before(a, b)
       /\ hand' = [batch |-> batch, left |-> batch, pc |-> "object",
                   deleted |-> 0, lost |-> {}]
  /\ UNCHANGED <<at, rows, objects, pending, job, smooth>>

Complete ==
  /\ NextMessage
  /\ Due = {}
  /\ job' = [job EXCEPT !.status = "completed"]
  /\ UNCHANGED <<at, rows, objects, pending, hand, smooth>>

InHand(pc) == hand # Nil /\ hand.left # {} /\ hand.pc = pc

\* The shot is done with, as deleted or as failed.
Deleted(id) ==
  hand' = [hand EXCEPT !.left = hand.left \ {id}, !.pc = "object",
                       !.deleted = hand.deleted + 1]
Failed(id) ==
  hand' = [hand EXCEPT !.left = hand.left \ {id}, !.pc = "object",
                       !.lost = hand.lost \union {id}]

DeleteObject ==
  /\ InHand("object")
  /\ \E id \in hand.left :
       /\ First(id, hand.left)
       /\ \/ /\ objects' = objects \ {id}
             /\ pending' = pending \ {id}
             /\ hand' = [hand EXCEPT !.pc = "row"]
             /\ UNCHANGED smooth
          \/ /\ "store_error" \in Disturbances
             /\ Failed(id)
             /\ smooth' = FALSE
             /\ UNCHANGED <<objects, pending>>
  /\ UNCHANGED <<at, rows, job, mail>>

\* Destroying a row that is gone already is an error, or not, as the data
\* layer has it.
DestroyRow ==
  /\ InHand("row")
  /\ \E id \in hand.left :
       /\ First(id, hand.left)
       /\ \/ rows' = rows \ {id} /\ Deleted(id) /\ UNCHANGED smooth
          \/ id \notin rows /\ Failed(id) /\ UNCHANGED <<rows, smooth>>
          \/ /\ "row_error" \in Disturbances
             /\ Failed(id)
             /\ smooth' = FALSE
             /\ UNCHANGED rows
  /\ UNCHANGED <<at, objects, pending, job, mail>>

\* The counters take in the batch in hand, and the cursor its last shot.
Counted(processed) ==
  \E last \in hand.batch :
    /\ Last(last, hand.batch)
    /\ job' = [job EXCEPT
                 !.processed = processed,
                 !.deleted = job.deleted + hand.deleted,
                 !.failed = job.failed + Cardinality(hand.lost),
                 !.cursor = [at |-> at[last], id |-> last],
                 !.seen = job.seen \union hand.batch,
                 !.lost = job.lost \union hand.lost]

\* (mutant: the shots that failed are not counted as processed)
EndBatchDeletedOnly ==
  /\ hand # Nil /\ hand.left = {}
  /\ Counted(job.processed + hand.deleted)
  /\ hand' = Nil
  /\ mail' = mail + 1
  /\ UNCHANGED <<at, rows, objects, pending, smooth>>

\* (mutant: the job does not send itself the next message)
EndBatchSilent ==
  /\ hand # Nil /\ hand.left = {}
  /\ Counted(job.processed + Cardinality(hand.batch))
  /\ hand' = Nil
  /\ UNCHANGED <<at, rows, objects, pending, mail, smooth>>

EndBatch ==
  /\ hand # Nil /\ hand.left = {}
  /\ Counted(job.processed + Cardinality(hand.batch))
  /\ hand' = Nil
  /\ mail' = mail + 1
  /\ UNCHANGED <<at, rows, objects, pending, smooth>>

\* What a batch raises is rescued: the job ends with the counters it had
\* before the batch.
Rescued == job' = [job EXCEPT !.status = "failed"]

Raise ==
  /\ "raise" \in Disturbances
  /\ \/ NextMessage /\ UNCHANGED hand
     \/ hand # Nil /\ hand' = Nil /\ UNCHANGED mail
  /\ Rescued
  /\ smooth' = FALSE
  /\ UNCHANGED <<at, rows, objects, pending>>

\* The process or its node is started again, the tasks may end too.
Crash ==
  /\ "crash" \in Disturbances
  /\ job' = Idle
  /\ hand' = Nil
  /\ mail' = 0
  /\ pending' \in {{}, pending}
  /\ smooth' = FALSE
  /\ UNCHANGED <<at, rows, objects>>

-----------------------------------------------------------------------------
\* Some shots are there from the start.
Init ==
  /\ \E shots \in SUBSET Ids :
       /\ at \in [Ids -> Times \union {Nil}]
       /\ \A id \in Ids : at[id] # Nil <=> id \in shots
       /\ rows = shots /\ objects = shots
  /\ pending = {}
  /\ job = Idle
  /\ hand = Nil
  /\ mail = 0
  /\ smooth = TRUE

PurgerStep == TakeBatch \/ Complete \/ DeleteObject \/ DestroyRow \/ EndBatch

Next ==
  \/ \E id \in Ids, t \in Times : Record(id, t)
  \/ \E from, to \in Times : BulkDelete(from, to)
  \/ \E id \in Ids : DeletePending(id)
  \/ \E to \in Times : StartPurge(to)
  \/ PurgerStep
  \/ Raise
  \/ Crash

Spec == Init /\ [][Next]_vars

\* A process with a message, or with work in hand, goes on.
FairSpec == Spec /\ WF_vars(PurgerStep)

-----------------------------------------------------------------------------
(***************************************************************************)
(* Properties.                                                              *)
(***************************************************************************)
\* A job goes through every shot at most once, although shots come and go
\* behind and before its cursor, and its counters say how it went.
CountsAgree ==
  /\ job.processed = Cardinality(job.seen)
  /\ job.processed = job.deleted + job.failed
  /\ job.failed = Cardinality(job.lost)

\* A completed job has reached every shot that it counted at its start: it
\* is not in the database any more, or is one of those counted as failed.
CompletedCovers ==
  job.status = "completed" => job.target \intersect rows \subseteq job.lost

\* The shots that the job has gone through, and those of them it has failed to
\* delete, with what the batch in hand has done so far.
Reached == job.seen \union (IF hand = Nil THEN {} ELSE hand.batch \ hand.left)
Lost == job.lost \union (IF hand = Nil THEN {} ELSE hand.lost)
Sweep == INSTANCE ShotSweep WITH status <- job.status, due <- job.target,
                                 reached <- Reached, lost <- Lost

\* Without its cursor, batches and messages, the job is a sweep: it reaches no
\* shot twice, and completes only when all of its start are reached or gone.
PurgeSweeps == Sweep!SweepSpec

\* A running job has work in hand or exactly one message waiting, and no
\* other job has any: it neither stalls nor runs twice.
OneBatchMessage ==
  mail = IF job.status = "running" /\ hand = Nil THEN 1 ELSE 0

\* As long as nothing fails, uploads, bulk deletes and a purge of the same
\* shots keep rows and objects together: a row whose object is gone is the
\* one in hand, and an object without a row is about to be deleted.
RowsMatchObjects ==
  smooth =>
    /\ \A id \in rows \ objects : InHand("row") /\ First(id, hand.left)
    /\ objects \ rows \subseteq pending

\* A job ends, with shots recorded all the time.
PurgeEnds == job.status = "running" ~> job.status # "running"

=============================================================================
