----------------------------- MODULE WarmCache -----------------------------
(***************************************************************************)
(* The read-through ETS cache of one node and the listener that invalidates *)
(* and warms it (lib/voria2/cache.ex, cache_invalidation_listener.ex),      *)
(* for the two keys of a webcam: "latest", read from the database, and      *)
(* "bytes", computed from what is cached under "latest".  A summary and a   *)
(* daily log are the one-level case, "latest" alone.                        *)
(*                                                                          *)
(* A value is abstracted to whether it is what the database says now and,   *)
(* when it is not, for how long it has not been.  Instants are ages, which  *)
(* saturate.                                                                *)
(***************************************************************************)
EXTENDS Integers, Sequences, FiniteSets

CONSTANTS
  Tasks,      \* children of the task supervisor that this webcam may get
  Readers,    \* requests that read the cache
  TTL,        \* lifetime of an entry, in ticks
  LockTTL,    \* lifetime of a warm lock
  MaxRun,     \* bound: ticks that one computation takes at most
  MaxLate,    \* bound: lateness saturates here
  MaxOverruns,   \* bound: the count of overruns saturates here
  MaxMail,    \* bound: messages waiting for the listener
  Disturbances,  \* which of the things below may happen
  Nil         \* nil, no entry

Keys == {"latest", "bytes"}
Procs == Tasks \union Readers

ASSUME ProcAssumption == Tasks \intersect Readers = {} /\ IsFiniteSet(Tasks)
ASSUME TimeAssumption ==
  /\ TTL \in Nat \ {0} /\ LockTTL \in Nat \ {0} /\ MaxRun \in Nat
  /\ MaxLate \in Nat /\ MaxLate >= 2 * (TTL + MaxRun)
ASSUME MailAssumption == MaxMail \in Nat /\ MaxOverruns \in Nat
ASSUME DisturbanceAssumption ==
  Disturbances \subseteq {"purge", "bulk_delete", "lost_publication",
                          "listener_restart", "failed_task", "failed_query"}

VARIABLES
  cache,    \* the entries
  lock,     \* age of the warm lock of each key
  proc,     \* the computations under way
  outbox,   \* a change that is committed and not yet published
  mail,     \* messages of the listener
  toWarm,   \* keys the listener has still to warm for its current message
  overruns  \* how often the lock of a key expired under a task that warms it,
            \* since the key was last without one (observer)

vars == <<cache, lock, proc, outbox, mail, toWarm, overruns>>

Value == [fresh : BOOLEAN, late : 0..MaxLate]
Current == [fresh |-> TRUE, late |-> 0]
Entry == [val : Value \union {Nil}, age : 0..TTL]
Proc == [key : Keys, warm : BOOLEAN,
         pc : {"look", "read", "keep", "download", "put"},
         val : Value \union {Nil}, run : 0..MaxRun]
Message == {"new_webcam_shot", "invalidate_latest_shot"}

ASSUME NilAssumption ==
  /\ Nil \notin Value /\ Nil \notin Entry /\ Nil \notin Proc
  /\ Nil \notin Message /\ Nil \notin Int

TypeOK ==
  /\ cache \in [Keys -> Entry \union {Nil}]
  /\ lock \in [Keys -> 0..LockTTL \union {Nil}]
  /\ proc \in [Procs -> Proc \union {Nil}]
  /\ \A r \in Readers : proc[r] # Nil => ~proc[r].warm
  /\ outbox \in Message \union {Nil}
  /\ mail \in Seq(Message) /\ Len(mail) <= MaxMail
  /\ toWarm \in Seq(Keys)
  /\ overruns \in [Keys -> 0..MaxOverruns]

\* The tasks that warm a key now.
Warming(key) ==
  {t \in Tasks : proc[t] # Nil /\ proc[t].warm /\ proc[t].key = key}

(***************************************************************************)
(* ETS operations.                                                          *)
(***************************************************************************)
\* (mutant: the expiry is not looked at)
Present(key) == cache[key] # Nil

Live(key) == cache[key] # Nil /\ cache[key].age < TTL

Store(key, val) == [cache EXCEPT ![key] = [val |-> val, age |-> 0]]

\* (mutant: a hit renews the entry)
AfterSlidingLookup(key) ==
  IF Live(key) THEN [cache EXCEPT ![key].age = 0]
               ELSE [cache EXCEPT ![key] = Nil]

\* A lookup that finds an expired entry deletes it.
AfterLookup(key) == IF Live(key) THEN cache ELSE [cache EXCEPT ![key] = Nil]

InvalidateLatestShot == [key \in Keys |-> Nil]

(***************************************************************************)
(* Time.                                                                    *)
(***************************************************************************)
UpTo(n, bound) == IF n < bound THEN n + 1 ELSE n
LaterValue(val) ==
  IF val = Nil \/ val.fresh THEN val
  ELSE [fresh |-> FALSE, late |-> UpTo(val.late, MaxLate)]

Tick ==
  /\ \A p \in Procs : proc[p] # Nil => proc[p].run < MaxRun
  /\ cache' = [key \in Keys |->
       IF cache[key] = Nil THEN Nil
       ELSE [val |-> LaterValue(cache[key].val), age |-> UpTo(cache[key].age, TTL)]]
  /\ lock' = [key \in Keys |->
       IF lock[key] = Nil THEN Nil ELSE UpTo(lock[key], LockTTL)]
  /\ proc' = [p \in Procs |->
       IF proc[p] = Nil THEN Nil
       ELSE [proc[p] EXCEPT !.val = LaterValue(proc[p].val),
                            !.run = proc[p].run + 1]]
  /\ overruns' = [key \in Keys |->
       IF lock[key] = LockTTL - 1 /\ Warming(key) # {}
         THEN UpTo(overruns[key], MaxOverruns) ELSE overruns[key]]
  /\ UNCHANGED <<outbox, mail, toWarm>>

(***************************************************************************)
(* Changes of the newest shot: a shot is recorded and then published; the   *)
(* purger deletes shots, drops the keys of its own node and publishes that; *)
(* the bulk delete of the admin pages does neither.                         *)
(***************************************************************************)
Outdated(val) == IF val = Nil THEN Nil ELSE [val EXCEPT !.fresh = FALSE]

Change ==
  /\ cache' = [key \in Keys |-> IF cache[key] = Nil THEN Nil
                 ELSE [cache[key] EXCEPT !.val = Outdated(cache[key].val)]]
  /\ proc' = [p \in Procs |-> IF proc[p] = Nil THEN Nil
                 ELSE [proc[p] EXCEPT !.val = Outdated(proc[p].val)]]
  /\ UNCHANGED <<lock, mail, toWarm, overruns>>

RecordShot == outbox = Nil /\ Change /\ outbox' = "new_webcam_shot"
PurgeShots ==
  /\ "purge" \in Disturbances /\ outbox = Nil
  /\ Change /\ outbox' = "invalidate_latest_shot"
BulkDelete == "bulk_delete" \in Disturbances /\ Change /\ UNCHANGED outbox

Publish ==
  /\ outbox # Nil /\ Len(mail) < MaxMail
  /\ cache' = IF outbox = "invalidate_latest_shot"
                THEN InvalidateLatestShot ELSE cache
  /\ mail' = Append(mail, outbox)
  /\ outbox' = Nil
  /\ UNCHANGED <<lock, proc, toWarm, overruns>>

\* The process dies between its commit and its broadcast.
LosePublication ==
  /\ "lost_publication" \in Disturbances /\ outbox # Nil
  /\ outbox' = Nil
  /\ UNCHANGED <<cache, lock, proc, mail, toWarm, overruns>>

(***************************************************************************)
(* The listener: one message at a time, first every key is deleted, then a  *)
(* warm task is started for each key whose lock can be claimed.             *)
(***************************************************************************)
\* (mutant: the lock is not looked at)
AlwaysClaimable(key) == key \in Keys

Claimable(key) == lock[key] # Nil => lock[key] >= LockTTL

HandleMessage ==
  /\ toWarm = <<>> /\ mail # <<>>
  /\ cache' = InvalidateLatestShot
  /\ toWarm' = IF Head(mail) = "new_webcam_shot"
                 THEN <<"latest", "bytes">> ELSE <<>>
  /\ mail' = Tail(mail)
  /\ UNCHANGED <<lock, proc, outbox, overruns>>

\* (mutant: the warm runs in the process of a request)
SpawnAnywhere(key, isWarm, first) ==
  \E p \in Procs :
    /\ proc[p] = Nil
    /\ proc' = [proc EXCEPT ![p] = [key |-> key, warm |-> isWarm, pc |-> first,
                                    val |-> Nil, run |-> 0]]

Spawn(key, isWarm, first) ==
  \E t \in Tasks :
    /\ proc[t] = Nil
    /\ proc' = [proc EXCEPT ![t] = [key |-> key, warm |-> isWarm, pc |-> first,
                                    val |-> Nil, run |-> 0]]

FirstStep(key) == IF key = "latest" THEN "read" ELSE "look"

NextToWarm == toWarm # <<>> /\ toWarm' = Tail(toWarm)

\* The task may not start: the supervisor is at max_children, and then the
\* lock stays claimed.
StartWarm ==
  /\ NextToWarm /\ Claimable(Head(toWarm))
  /\ lock' = [lock EXCEPT ![Head(toWarm)] = 0]
  /\ \/ Spawn(Head(toWarm), TRUE, FirstStep(Head(toWarm)))
     \/ UNCHANGED proc
  /\ UNCHANGED <<cache, outbox, mail, overruns>>

SkipWarm ==
  /\ NextToWarm /\ ~Claimable(Head(toWarm))
  /\ UNCHANGED <<cache, lock, proc, outbox, mail, overruns>>

\* A new listener knows no message of the old one, and primes the bytes
\* without a lock.
RestartListener ==
  /\ "listener_restart" \in Disturbances
  /\ mail' = <<>> /\ toWarm' = <<>>
  /\ Spawn("bytes", FALSE, "look") \/ UNCHANGED proc
  /\ UNCHANGED <<cache, lock, outbox, overruns>>

(***************************************************************************)
(* Computations.  "latest": read the database, keep the value.  "bytes":    *)
(* look under "latest" (reading and keeping it on a miss), download, put.   *)
(***************************************************************************)
Goto(p, pc, val) == proc' = [proc EXCEPT ![p].pc = pc, ![p].val = val]
At(p, pc) == proc[p] # Nil /\ proc[p].pc = pc

\* A hit leaves nothing to do.
StartRead(r, key) ==
  /\ proc[r] = Nil
  /\ ~Live(key)
  /\ cache' = AfterLookup(key)
  /\ proc' = [proc EXCEPT ![r] = [key |-> key, warm |-> FALSE,
                pc |-> FirstStep(key), val |-> Nil, run |-> 0]]
  /\ UNCHANGED <<lock, outbox, mail, toWarm, overruns>>

LookLatest(p) ==
  /\ At(p, "look")
  /\ cache' = AfterLookup("latest")
  /\ IF Live("latest") THEN Goto(p, "download", cache["latest"].val)
                       ELSE Goto(p, "read", Nil)
  /\ UNCHANGED <<lock, outbox, mail, toWarm, overruns>>

\* A query that fails gives nil, and nil is cached like any shot.
ReadLatest(p) ==
  /\ At(p, "read")
  /\ \/ Goto(p, "keep", Current)
     \/ "failed_query" \in Disturbances /\ Goto(p, "keep", Nil)
  /\ UNCHANGED <<cache, lock, outbox, mail, toWarm, overruns>>

\* The last step of a warm task releases its key's lock, whoever claimed it.
Finish(p) ==
  /\ proc' = [proc EXCEPT ![p] = Nil]
  /\ lock' = IF proc[p].warm THEN [lock EXCEPT ![proc[p].key] = Nil] ELSE lock
  /\ overruns' = [key \in Keys |->
       IF Warming(key) \subseteq {p} THEN 0 ELSE overruns[key]]

KeepLatest(p) ==
  /\ At(p, "keep")
  /\ cache' = Store("latest", proc[p].val)
  /\ IF proc[p].key = "latest"
       THEN Finish(p)
       ELSE Goto(p, "download", proc[p].val) /\ UNCHANGED <<lock, overruns>>
  /\ UNCHANGED <<outbox, mail, toWarm>>

\* A failed download gives nil, and nil is cached like any bytes.
Download(p) ==
  /\ At(p, "download")
  /\ \/ Goto(p, "put", proc[p].val)
     \/ Goto(p, "put", Nil)
  /\ UNCHANGED <<cache, lock, outbox, mail, toWarm, overruns>>

PutBytes(p) ==
  /\ At(p, "put")
  /\ cache' = Store("bytes", proc[p].val)
  /\ Finish(p)
  /\ UNCHANGED <<outbox, mail, toWarm>>

\* The query raises: safe_run swallows it, and the lock is released after.
Fail(p) ==
  /\ "failed_task" \in Disturbances
  /\ proc[p] # Nil
  /\ Finish(p)
  /\ UNCHANGED <<cache, outbox, mail, toWarm>>

-----------------------------------------------------------------------------
Init ==
  /\ cache = [key \in Keys |-> Nil]
  /\ lock = [key \in Keys |-> Nil]
  /\ proc = [p \in Procs |-> Nil]
  /\ outbox = Nil
  /\ mail = <<>>
  /\ toWarm = <<>>
  /\ overruns = [key \in Keys |-> 0]

Changes == RecordShot \/ PurgeShots \/ BulkDelete

ListenerStep == HandleMessage \/ StartWarm \/ SkipWarm

ProcStep(p) ==
  LookLatest(p) \/ ReadLatest(p) \/ KeepLatest(p) \/ Download(p)
    \/ PutBytes(p) \/ Fail(p)

Next ==
  \/ Tick
  \/ Changes
  \/ Publish
  \/ LosePublication
  \/ ListenerStep
  \/ RestartListener
  \/ \E r \in Readers, key \in Keys : StartRead(r, key)
  \/ \E p \in Procs : ProcStep(p)

Spec == Init /\ [][Next]_vars

\* Time passes and computations end.
FairSpec == Spec /\ SF_vars(Tick) /\ \A p \in Procs : WF_vars(ProcStep(p))

-----------------------------------------------------------------------------
(***************************************************************************)
(* Properties.                                                              *)
(***************************************************************************)
Lateness(val) == IF val = Nil THEN 0 ELSE val.late

\* Invalidations can be lost, overtaken by a computation that read before
\* them, or never sent: what bounds the staleness of an answer is the TTL.
\* The newest shot is at most one lifetime and one computation late.
LatestBounded ==
  Live("latest") => Lateness(cache["latest"].val) < TTL + MaxRun

\* The bytes are computed from a cached shot, so the lifetimes add up.
BytesBounded ==
  Live("bytes") => Lateness(cache["bytes"].val) < 2 * (TTL + MaxRun) - 1

\* cache.ex: "Benign race: at most an occasional double-warm".  Nothing makes
\* a computation end before its lock expires (the bytes are a download), and
\* then any warm task takes the lock of its key away, whoever claimed it.  One
\* expiry can do that over and over, for the task that loses its lock takes
\* the next one's; yet the tasks that warm a key at a time are at most one
\* more than the times its lock expired under one of them since the key was
\* last without a task: no expiry, no double warm, and no pile grows of one.
WarmsBounded ==
  \A key \in Keys :
     overruns[key] < MaxOverruns => Cardinality(Warming(key)) <= 1 + overruns[key]

\* Once the shots stop changing, everything that is served becomes what the
\* database says (or nothing, where a download failed) and stays so.
Served(key) == Live(key) => cache[key].val = Nil \/ cache[key].val.fresh
EventuallyFresh ==
  (<>[][~Changes]_vars) => \A key \in Keys : <>[]Served(key)

\* cache_invalidation_listener.ex: "Duplicate warms are skipped silently -
\* the cache was already invalidated, so the next read computes lazily if
\* needed": with every message handled and nothing under way, what the cache
\* serves is what the database says.  The code does not keep this (README,
\* section 4); no configuration checks it.
QuiescentFresh ==
  (outbox = Nil /\ mail = <<>> /\ toWarm = <<>> /\ \A p \in Procs : proc[p] = Nil)
    => \A key \in Keys : Served(key)

=============================================================================
