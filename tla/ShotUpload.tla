------------------------------ MODULE ShotUpload ------------------------------
(***************************************************************************)
(* The upload of webcam shots (lib/voria2/webcam_ingest.ex, behind          *)
(* webcam_ingest_controller.ex): requests that run at once, each of which   *)
(* looks for a duplicate, stores the image under a new key and records a    *)
(* row. Shots are deleted meanwhile, by a bulk delete (row, then object) or  *)
(* by the purger (object, then row); both hold the key that they read.      *)
(*                                                                          *)
(* An image stands for its hash: rows are unique by it.                     *)
(***************************************************************************)
EXTENDS Integers, FiniteSets

CONSTANTS
  Images,       \* the images that are sent, as often as the sender likes
  Uploads,      \* requests under way at once
  MaxKey,       \* bound: keys drawn in one runtime
  MaxRestarts,  \* bound: restarts of the runtime
  Nil           \* nil

Keys == 1..MaxKey

ASSUME BoundAssumption == MaxKey \in Nat /\ MaxRestarts \in Nat

VARIABLES
  rows,      \* s3_key of the row of each image
  store,     \* the image that the object of each key holds
  next,      \* the next unique integer of this runtime
  up,        \* what each request is doing
  doomed,    \* keys that the tasks of bulk deletes have still to delete
  purge,     \* the shot that the purger has in hand
  told,      \* history: images whose sender was told they are kept, and that
             \* nobody has deleted since
  old,       \* history: keys that earlier runtimes drew
  redrawn,   \* history: keys that were drawn again after a restart
  stranded,  \* history: images whose row outlived the purger that took their
             \* object
  restarts

history == <<old, redrawn, stranded>>
vars == <<rows, store, next, up, doomed, purge, told, history, restarts>>

Upload == [pc : {"check", "upload", "record"}, image : Images, key : Keys \union {Nil}]
Purge == [pc : {"object", "row"}, image : Images, key : Keys]

ASSUME NilAssumption == Nil \notin Int /\ Nil \notin Images /\ Nil \notin Upload
                        /\ Nil \notin Purge

TypeOK ==
  /\ rows \in [Images -> Keys \union {Nil}]
  /\ store \in [Keys -> Images \union {Nil}]
  /\ next \in 1..(MaxKey + 1)
  /\ up \in [Uploads -> Upload \union {Nil}]
  /\ doomed \subseteq Keys
  /\ purge \in Purge \union {Nil}
  /\ told \subseteq Images
  /\ old \subseteq Keys /\ redrawn \subseteq Keys /\ stranded \subseteq Images
  /\ restarts \in 0..MaxRestarts

At(u, pc) == up[u] # Nil /\ up[u].pc = pc
Done(u) == up' = [up EXCEPT ![u] = Nil]

-----------------------------------------------------------------------------
(***************************************************************************)
(* One request.                                                             *)
(***************************************************************************)
\* The same image may be sent again while its first request is under way.
Send(u, i) ==
  /\ up[u] = Nil
  /\ up' = [up EXCEPT ![u] = [pc |-> "check", image |-> i, key |-> Nil]]
  /\ UNCHANGED <<rows, store, next, doomed, purge, told, history, restarts>>

\* The sender is told of a duplicate, which counts as success.
Duplicate(u) ==
  /\ At(u, "check")
  /\ rows[up[u].image] # Nil
  /\ told' = told \union {up[u].image}
  /\ Done(u)
  /\ UNCHANGED <<rows, store, next, doomed, purge, history, restarts>>

\* A file that is no image is refused.
Refuse(u) ==
  /\ At(u, "check")
  /\ Done(u)
  /\ UNCHANGED <<rows, store, next, doomed, purge, told, history, restarts>>

\* (mutant: the key is the number of shots there are)
DrawCount(u) ==
  /\ At(u, "check")
  /\ LET count == 1 + Cardinality({i \in Images : rows[i] # Nil}) IN
       /\ count <= MaxKey
       /\ up' = [up EXCEPT ![u].pc = "upload", ![u].key = count]
  /\ UNCHANGED <<rows, store, next, doomed, purge, told, history, restarts>>

\* No duplicate was found, or the query for one failed: that counts as new.
Draw(u) ==
  /\ At(u, "check")
  /\ next <= MaxKey
  /\ next' = next + 1
  /\ up' = [up EXCEPT ![u].pc = "upload", ![u].key = next]
  /\ redrawn' = redrawn \union (old \intersect {next})
  /\ UNCHANGED <<rows, store, doomed, purge, told, old, stranded, restarts>>

Put(u) ==
  /\ At(u, "upload")
  /\ \/ /\ store' = [store EXCEPT ![up[u].key] = up[u].image]
        /\ up' = [up EXCEPT ![u].pc = "record"]
     \/ Done(u) /\ UNCHANGED store
  /\ UNCHANGED <<rows, next, doomed, purge, told, history, restarts>>

\* (mutant: a row that is there already gets the new key)
RecordReplaces(u) ==
  /\ At(u, "record")
  /\ LET i == up[u].image IN
       \/ /\ rows' = [rows EXCEPT ![i] = up[u].key]
          /\ told' = told \union {i}
       \/ UNCHANGED <<rows, told>>
  /\ Done(u)
  /\ UNCHANGED <<store, next, doomed, purge, history, restarts>>

\* The row is refused when another request has recorded the same image; an
\* error leaves the object without a row.
Record(u) ==
  /\ At(u, "record")
  /\ LET i == up[u].image IN
       \/ /\ rows[i] = Nil
          /\ rows' = [rows EXCEPT ![i] = up[u].key]
          /\ told' = told \union {i}
       \/ UNCHANGED <<rows, told>>
  /\ Done(u)
  /\ UNCHANGED <<store, next, doomed, purge, history, restarts>>

-----------------------------------------------------------------------------
(***************************************************************************)
(* Deletions.                                                               *)
(***************************************************************************)
BulkDelete(i) ==
  /\ rows[i] # Nil
  /\ rows' = [rows EXCEPT ![i] = Nil]
  /\ doomed' = doomed \union {rows[i]}
  /\ told' = told \ {i}
  /\ stranded' = stranded \ {i}
  /\ UNCHANGED <<store, next, up, purge, old, redrawn, restarts>>

DeleteDoomed(k) ==
  /\ k \in doomed
  /\ doomed' = doomed \ {k}
  /\ store' = [store EXCEPT ![k] = Nil]
  /\ UNCHANGED <<rows, next, up, purge, told, history, restarts>>

PurgeTake(i) ==
  /\ purge = Nil
  /\ rows[i] # Nil
  /\ purge' = [pc |-> "object", image |-> i, key |-> rows[i]]
  /\ UNCHANGED <<rows, store, next, up, doomed, told, history, restarts>>

PurgeObject ==
  /\ purge # Nil /\ purge.pc = "object"
  /\ \/ /\ store' = [store EXCEPT ![purge.key] = Nil]
        /\ purge' = [purge EXCEPT !.pc = "row"]
     \/ purge' = Nil /\ UNCHANGED store
  /\ UNCHANGED <<rows, next, up, doomed, told, history, restarts>>

\* (mutant: the row is found by its hash)
PurgeRowByHash ==
  /\ purge # Nil /\ purge.pc = "row"
  /\ rows' = [rows EXCEPT ![purge.image] = Nil]
  /\ told' = IF rows[purge.image] = purge.key THEN told \ {purge.image} ELSE told
  /\ purge' = Nil
  /\ UNCHANGED <<store, next, up, doomed, history, restarts>>

\* The image whose row the purger has not reached, though its object is gone.
Leaving ==
  {i \in Images : purge # Nil /\ purge.pc = "row" /\ purge.image = i
                  /\ rows[i] = purge.key}

\* The row that was read is destroyed, not one that was recorded since.  When
\* the database refuses, or the job ends with an exception, the row stays.
PurgeRow ==
  /\ purge # Nil /\ purge.pc = "row"
  /\ \/ /\ rows' = [i \in Images |-> IF i \in Leaving THEN Nil ELSE rows[i]]
        /\ told' = told \ Leaving
        /\ stranded' = stranded \ Leaving
     \/ /\ stranded' = stranded \union Leaving
        /\ UNCHANGED <<rows, told>>
  /\ purge' = Nil
  /\ UNCHANGED <<store, next, up, doomed, old, redrawn, restarts>>

\* Unique integers are unique in one runtime: the next one draws them anew.
\* (On the next day the date is another part of the key.)
Restart ==
  /\ restarts < MaxRestarts
  /\ restarts' = restarts + 1
  /\ next' = 1
  /\ up' = [u \in Uploads |-> Nil]
  /\ doomed' = {}
  /\ purge' = Nil
  /\ old' = old \union {k \in Keys : k < next}
  /\ stranded' = stranded \union Leaving
  /\ UNCHANGED <<rows, store, told, redrawn>>

-----------------------------------------------------------------------------
Init ==
  /\ rows = [i \in Images |-> Nil]
  /\ store = [k \in Keys |-> Nil]
  /\ next = 1
  /\ up = [u \in Uploads |-> Nil]
  /\ doomed = {}
  /\ purge = Nil
  /\ told = {}
  /\ old = {} /\ redrawn = {} /\ stranded = {}
  /\ restarts = 0

Step(u) == Duplicate(u) \/ Refuse(u) \/ Draw(u) \/ Put(u) \/ Record(u)

Next ==
  \/ \E u \in Uploads, i \in Images : Send(u, i)
  \/ \E u \in Uploads : Step(u)
  \/ \E i \in Images : BulkDelete(i) \/ PurgeTake(i)
  \/ \E k \in Keys : DeleteDoomed(k)
  \/ PurgeObject
  \/ PurgeRow
  \/ Restart

Spec == Init /\ [][Next]_vars

-----------------------------------------------------------------------------
(***************************************************************************)
(* Properties.                                                              *)
(***************************************************************************)
\* The key of a row holds the image that was recorded with it: no upload stores
\* over it, and no deletion of an earlier shot of the same image takes it away.
\* There are three exceptions: the purger is at that row; the purger took the
\* object and left the row, since the database refused, the job failed or the
\* runtime ended; the key was drawn a second time after a restart.
ObjectHoldsImage ==
  \A i \in Images :
    rows[i] # Nil =>
      \/ store[rows[i]] = i
      \/ purge # Nil /\ purge.pc = "row" /\ purge.key = rows[i]
      \/ i \in stranded
      \/ rows[i] \in redrawn

\* What a sender was told is kept has a row, until somebody deletes it:
\* whatever requests of the same image, restarts and purges were under way.
ToldIsKept == \A i \in told : rows[i] # Nil

\* The images that are kept, those that a viewer is sure to be served, and the
\* one that is on its way out.
Kept == {i \in Images : rows[i] # Nil}
Served == {i \in Kept : rows[i] \notin redrawn /\ store[rows[i]] = i}
OnItsWayOut == {i \in Leaving : rows[i] \notin redrawn}
Archive == INSTANCE ShotArchive
             WITH kept <- Kept, served <- Served, leaving <- OnItsWayOut,
                  restarted <- restarts > 0

\* Without its keys, objects, requests and tasks, this is the archive: rows
\* come and go one image at a time, no promise goes but with its row, and as
\* long as no key is drawn twice nothing but a purge takes an image from a row
\* that stays, and never from two at a time.
KeepsImages == Archive!ArchiveSpec

\* A key names one shot (docs/WEBCAM_INGEST_API.md, s3_key).  This is lost
\* with a restart (README, section 4); no configuration checks it.
KeysUnique ==
  \A i, j \in Images : rows[i] # Nil /\ rows[i] = rows[j] => i = j

=============================================================================
