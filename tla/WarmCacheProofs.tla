-------------------------- MODULE WarmCacheProofs --------------------------
(***************************************************************************)
(* Type correctness of WarmCache, the two staleness bounds, and that the    *)
(* warm tasks of a key are bounded by the expiries of its lock.             *)
(***************************************************************************)
EXTENDS WarmCache, SequenceTheorems, FiniteSetTheorems, TLAPS

\* What is cached was computed from a read that is at most one computation
\* older than the entry; bytes were computed from a live entry of "latest".
LatestInv ==
  Live("latest") =>
    Lateness(cache["latest"].val) <= cache["latest"].age + MaxRun
ProcInv ==
  \A p \in Procs : proc[p] # Nil =>
    /\ proc[p].pc = "keep" => Lateness(proc[p].val) <= proc[p].run
    /\ proc[p].pc \in {"download", "put"} =>
         Lateness(proc[p].val) <= proc[p].run + TTL - 1 + MaxRun
BytesInv ==
  Live("bytes") =>
    Lateness(cache["bytes"].val) <= cache["bytes"].age + TTL - 1 + 2 * MaxRun

LateInv == TypeOK /\ LatestInv /\ ProcInv /\ BytesInv

-----------------------------------------------------------------------------
LEMMA ValueTypes ==
  ASSUME NEW val \in Value \union {Nil}
  PROVE  /\ LaterValue(val) \in Value \union {Nil}
         /\ Outdated(val) \in Value \union {Nil}
         /\ Lateness(val) \in Nat
         /\ Lateness(LaterValue(val)) <= Lateness(val) + 1
         /\ Lateness(LaterValue(val)) \in Nat
         /\ Lateness(Outdated(val)) = Lateness(val)
         /\ Current \in Value /\ Lateness(Current) = 0 /\ Lateness(Nil) = 0
<1>1. CASE val = Nil
  BY <1>1, TimeAssumption, NilAssumption
     DEF LaterValue, Outdated, Lateness, Current, Value
<1>2. CASE val \in Value
  <2>1. val # Nil /\ val.late \in 0..MaxLate /\ val.fresh \in BOOLEAN
    BY <1>2, NilAssumption DEF Value
  <2>2. Outdated(val) \in Value /\ Lateness(Outdated(val)) = Lateness(val)
    <3>1. Outdated(val) = [val EXCEPT !.fresh = FALSE]
      BY <2>1 DEF Outdated
    <3>2. Outdated(val) \in Value /\ Outdated(val).late = val.late
      BY <1>2, <3>1 DEF Value
    <3> QED BY <2>1, <3>2, NilAssumption DEF Lateness
  <2>3. UpTo(val.late, MaxLate) \in 0..MaxLate
        /\ UpTo(val.late, MaxLate) <= val.late + 1
    BY <2>1, TimeAssumption DEF UpTo
  <2>4. LaterValue(val) \in Value
        /\ LaterValue(val).late \in {val.late, UpTo(val.late, MaxLate)}
    BY <1>2, <2>1, <2>3 DEF LaterValue, Value
  <2>5. Lateness(LaterValue(val)) = LaterValue(val).late
    BY <2>4, NilAssumption DEF Lateness
  <2>6. Current \in Value /\ Lateness(Current) = 0 /\ Lateness(Nil) = 0
    BY TimeAssumption, NilAssumption DEF Current, Value, Lateness
  <2> QED
    BY <2>1, <2>2, <2>3, <2>4, <2>5, <2>6, TimeAssumption DEF Lateness
<1> QED BY <1>1, <1>2

LEMMA GotoEffect ==
  ASSUME TypeOK, NEW p \in Procs, proc[p] # Nil,
         NEW pc \in {"look", "read", "keep", "download", "put"},
         NEW val \in Value \union {Nil}, Goto(p, pc, val)
  PROVE  /\ proc' \in [Procs -> Proc \union {Nil}]
         /\ proc'[p] # Nil
         /\ proc'[p].pc = pc /\ proc'[p].val = val
         /\ proc'[p].key = proc[p].key /\ proc'[p].warm = proc[p].warm
         /\ proc'[p].run = proc[p].run
         /\ \A q \in Procs : q # p => proc'[q] = proc[q]
<1> DEFINE new == [proc[p] EXCEPT !.pc = pc, !.val = val]
<1>1. proc[p] \in Proc
  BY DEF TypeOK
<1>2. /\ new \in Proc /\ new.pc = pc /\ new.val = val
      /\ new.key = proc[p].key /\ new.warm = proc[p].warm
      /\ new.run = proc[p].run
  BY <1>1 DEF Proc
<1>3. proc' = [proc EXCEPT ![p] = new]
  BY <1>1 DEF Goto, TypeOK, Proc
<1> HIDE DEF new
<1> QED BY <1>2, <1>3, NilAssumption DEF TypeOK

LEMMA SpawnEffect ==
  ASSUME TypeOK, NEW t \in Procs, NEW key \in Keys, NEW w \in BOOLEAN,
         proc[t] = Nil,
         proc' = [proc EXCEPT ![t] = [key |-> key, warm |-> w,
                    pc |-> FirstStep(key), val |-> Nil, run |-> 0]]
  PROVE  /\ proc' \in [Procs -> Proc \union {Nil}]
         /\ proc'[t] # Nil /\ proc'[t].key = key /\ proc'[t].warm = w
         /\ proc'[t].pc \in {"look", "read"} /\ proc'[t].run = 0
         /\ \A q \in Procs : q # t => proc'[q] = proc[q]
<1> DEFINE new == [key |-> key, warm |-> w, pc |-> FirstStep(key),
                   val |-> Nil, run |-> 0]
<1>1. /\ new \in Proc /\ new.key = key /\ new.warm = w
      /\ new.pc \in {"look", "read"} /\ new.run = 0
  BY TimeAssumption DEF Proc, FirstStep
<1>2. proc' = [proc EXCEPT ![t] = new]
  OBVIOUS
<1> HIDE DEF new
<1> QED BY <1>1, <1>2, NilAssumption DEF TypeOK

LEMMA StoreType ==
  ASSUME TypeOK, NEW key \in Keys, NEW val \in Value \union {Nil}
  PROVE  /\ Store(key, val) \in [Keys -> Entry \union {Nil}]
         /\ Store(key, val)[key] # Nil
         /\ Store(key, val)[key].val = val /\ Store(key, val)[key].age = 0
         /\ \A k \in Keys : k # key => Store(key, val)[k] = cache[k]
<1> DEFINE entry == [val |-> val, age |-> 0]
<1>1. entry \in Entry /\ entry.val = val /\ entry.age = 0
  BY TimeAssumption DEF Entry
<1>2. Store(key, val) = [cache EXCEPT ![key] = entry]
  BY DEF Store
<1> HIDE DEF entry
<1> QED BY <1>1, <1>2, NilAssumption DEF TypeOK

\* Time and changes of the database keep the shape of entries, and make what
\* they hold later by at most a tick.
LEMMA TickEffect ==
  ASSUME TypeOK, Tick
  PROVE  /\ TypeOK'
         /\ \A k \in Keys : cache'[k] # Nil =>
              /\ cache[k] # Nil
              /\ cache'[k].val = LaterValue(cache[k].val)
              /\ cache'[k].age = UpTo(cache[k].age, TTL)
         /\ \A p \in Procs : proc'[p] # Nil =>
              /\ proc[p] # Nil
              /\ proc'[p].val = LaterValue(proc[p].val)
              /\ proc'[p].run = proc[p].run + 1
              /\ proc'[p].pc = proc[p].pc /\ proc'[p].key = proc[p].key
              /\ proc'[p].warm = proc[p].warm
<1>1. ASSUME NEW k \in Keys, cache[k] # Nil
      PROVE  [val |-> LaterValue(cache[k].val), age |-> UpTo(cache[k].age, TTL)]
               \in Entry
  <2>1. cache[k] \in Entry
    BY <1>1 DEF TypeOK
  <2>2. /\ LaterValue(cache[k].val) \in Value \union {Nil}
        /\ UpTo(cache[k].age, TTL) \in 0..TTL
    BY <2>1, ValueTypes, TimeAssumption DEF Entry, UpTo
  <2> QED BY <2>2 DEF Entry
<1>2. cache' \in [Keys -> Entry \union {Nil}]
  BY <1>1 DEF Tick
<1>3. ASSUME NEW p \in Procs, proc[p] # Nil
      PROVE  /\ [proc[p] EXCEPT !.val = LaterValue(proc[p].val),
                                !.run = proc[p].run + 1] \in Proc
             /\ proc'[p] = [proc[p] EXCEPT !.val = LaterValue(proc[p].val),
                                           !.run = proc[p].run + 1]
             /\ proc[p] \in Proc
  <2>1. proc[p] \in Proc
    BY <1>3 DEF TypeOK
  <2>2. LaterValue(proc[p].val) \in Value \union {Nil}
    BY <2>1, ValueTypes DEF Proc
  <2>3. proc[p].run \in 0..MaxRun /\ proc[p].run < MaxRun
    BY <1>3, <2>1 DEF Tick, Proc
  <2>4. proc[p].run + 1 \in 0..MaxRun
    BY <2>3, TimeAssumption
  <2> QED BY <1>3, <2>1, <2>2, <2>4 DEF Tick, Proc
<1>4. proc' \in [Procs -> Proc \union {Nil}]
  BY <1>3 DEF Tick
<1>5. lock' \in [Keys -> 0..LockTTL \union {Nil}]
  <2>1. ASSUME NEW k \in Keys, lock[k] # Nil
        PROVE  UpTo(lock[k], LockTTL) \in 0..LockTTL
    <3>1. lock[k] \in 0..LockTTL
      BY <2>1 DEF TypeOK
    <3> QED BY <3>1, TimeAssumption DEF UpTo
  <2> QED BY <2>1 DEF Tick
<1>6. \A p \in Procs : proc'[p] # Nil =>
        /\ proc[p] # Nil
        /\ proc'[p].val = LaterValue(proc[p].val)
        /\ proc'[p].run = proc[p].run + 1
        /\ proc'[p].pc = proc[p].pc /\ proc'[p].key = proc[p].key
        /\ proc'[p].warm = proc[p].warm
  BY <1>3 DEF Tick, Proc
<1>7. \A r \in Readers : proc'[r] # Nil => ~proc'[r].warm
  BY <1>6 DEF TypeOK, Procs
<1>8. \A k \in Keys : cache'[k] # Nil =>
        /\ cache[k] # Nil
        /\ cache'[k].val = LaterValue(cache[k].val)
        /\ cache'[k].age = UpTo(cache[k].age, TTL)
  BY DEF Tick
<1>9. overruns' \in [Keys -> 0..MaxOverruns]
  <2>1. ASSUME NEW k \in Keys PROVE overruns'[k] \in 0..MaxOverruns
    <3>1. overruns[k] \in 0..MaxOverruns
      BY DEF TypeOK
    <3>2. overruns'[k] \in {overruns[k], UpTo(overruns[k], MaxOverruns)}
      BY <1>1 DEF Tick
    <3> QED BY <3>1, <3>2, MailAssumption DEF UpTo
  <2>2. overruns' = [k \in Keys |-> overruns'[k]]
    BY <1>1 DEF Tick
  <2> QED BY <2>1, <2>2
<1> QED
  BY <1>2, <1>4, <1>5, <1>6, <1>7, <1>8, <1>9 DEF Tick, TypeOK

LEMMA ChangeEffect ==
  ASSUME TypeOK, Change, outbox' \in Message \union {Nil}
  PROVE  /\ TypeOK'
         /\ \A k \in Keys : cache'[k] # Nil =>
              /\ cache[k] # Nil
              /\ cache'[k].val = Outdated(cache[k].val)
              /\ cache'[k].age = cache[k].age
         /\ \A p \in Procs : proc'[p] # Nil =>
              /\ proc[p] # Nil
              /\ proc'[p].val = Outdated(proc[p].val)
              /\ proc'[p].run = proc[p].run
              /\ proc'[p].pc = proc[p].pc /\ proc'[p].key = proc[p].key
              /\ proc'[p].warm = proc[p].warm
         /\ UNCHANGED lock
<1>1. ASSUME NEW k \in Keys, cache[k] # Nil
      PROVE  /\ cache'[k] = [cache[k] EXCEPT !.val = Outdated(cache[k].val)]
             /\ cache'[k] \in Entry
             /\ cache[k] \in Entry
  <2>1. cache[k] \in Entry
    BY <1>1 DEF TypeOK
  <2>2. Outdated(cache[k].val) \in Value \union {Nil}
    BY <2>1, ValueTypes DEF Entry
  <2> QED BY <1>1, <2>1, <2>2 DEF Change, Entry
<1>2. ASSUME NEW p \in Procs, proc[p] # Nil
      PROVE  /\ proc'[p] = [proc[p] EXCEPT !.val = Outdated(proc[p].val)]
             /\ proc'[p] \in Proc
             /\ proc[p] \in Proc
  <2>1. proc[p] \in Proc
    BY <1>2 DEF TypeOK
  <2>2. Outdated(proc[p].val) \in Value \union {Nil}
    BY <2>1, ValueTypes DEF Proc
  <2> QED BY <1>2, <2>1, <2>2 DEF Change, Proc
<1>3. cache' \in [Keys -> Entry \union {Nil}]
  BY <1>1 DEF Change
<1>4. proc' \in [Procs -> Proc \union {Nil}]
  BY <1>2 DEF Change
<1>5. \A p \in Procs : proc'[p] # Nil =>
        /\ proc[p] # Nil
        /\ proc'[p].val = Outdated(proc[p].val)
        /\ proc'[p].run = proc[p].run
        /\ proc'[p].pc = proc[p].pc /\ proc'[p].key = proc[p].key
        /\ proc'[p].warm = proc[p].warm
  BY <1>2 DEF Change, Proc
<1>6. \A k \in Keys : cache'[k] # Nil =>
        /\ cache[k] # Nil
        /\ cache'[k].val = Outdated(cache[k].val)
        /\ cache'[k].age = cache[k].age
  BY <1>1 DEF Change, Entry
<1>7. \A r \in Readers : proc'[r] # Nil => ~proc'[r].warm
  BY <1>5 DEF TypeOK, Procs
<1> QED
  BY <1>3, <1>4, <1>5, <1>6, <1>7 DEF Change, TypeOK

-----------------------------------------------------------------------------
LEMMA TypeInit == Init => TypeOK
<1> SUFFICES ASSUME Init PROVE TypeOK
  OBVIOUS
<1>1. mail \in Seq(Message) /\ Len(mail) = 0 /\ toWarm \in Seq(Keys)
  BY DEF Init
<1>2. Len(mail) <= MaxMail
  BY <1>1, MailAssumption
<1>3. \A r \in Readers : proc[r] = Nil
  BY DEF Init, Procs
<1>4. overruns \in [Keys -> 0..MaxOverruns]
  BY MailAssumption DEF Init
<1> QED BY <1>1, <1>2, <1>3, <1>4 DEF Init, TypeOK

LEMMA TypeStep == TypeOK /\ [Next]_vars => TypeOK'
<1> SUFFICES ASSUME TypeOK, [Next]_vars PROVE TypeOK'
  OBVIOUS
<1>1. CASE Tick
  BY <1>1, TickEffect
<1>2. CASE Changes
  <2>1. Change /\ outbox' \in Message \union {Nil}
    BY <1>2 DEF Changes, RecordShot, PurgeShots, BulkDelete, Message, TypeOK
  <2> QED BY <2>1, ChangeEffect
<1>3. CASE Publish
  <2>1. outbox \in Message
    BY <1>3 DEF Publish, TypeOK
  <2>2. /\ mail' \in Seq(Message) /\ Len(mail') = Len(mail) + 1
        /\ Len(mail) \in Nat /\ Len(mail) < MaxMail
    BY <1>3, <2>1 DEF Publish, TypeOK
  <2>3. cache' \in [Keys -> Entry \union {Nil}]
    BY <1>3 DEF Publish, TypeOK, InvalidateLatestShot
  <2> QED BY <1>3, <2>2, <2>3, MailAssumption DEF Publish, TypeOK
<1>4. CASE LosePublication
  BY <1>4 DEF LosePublication, TypeOK
<1>5. CASE HandleMessage
  <2>1. mail' \in Seq(Message) /\ Len(mail') <= MaxMail
    BY <1>5, MailAssumption DEF HandleMessage, TypeOK
  <2>2. toWarm' \in Seq(Keys)
    <3>1. <<"latest", "bytes">> \in Seq(Keys) /\ << >> \in Seq(Keys)
      BY DEF Keys
    <3>2. toWarm' = <<"latest", "bytes">> \/ toWarm' = << >>
      BY <1>5 DEF HandleMessage
    <3> QED BY <3>1, <3>2
  <2>3. cache' \in [Keys -> Entry \union {Nil}]
    BY <1>5 DEF HandleMessage, InvalidateLatestShot
  <2> QED BY <1>5, <2>1, <2>2, <2>3 DEF HandleMessage, TypeOK
<1>6. CASE StartWarm
  <2> DEFINE key == Head(toWarm)
  <2>1. key \in Keys /\ toWarm' \in Seq(Keys)
    BY <1>6 DEF StartWarm, NextToWarm, TypeOK
  <2>2. lock' \in [Keys -> 0..LockTTL \union {Nil}]
    BY <1>6, <2>1, TimeAssumption DEF StartWarm, TypeOK
  <2>3. /\ proc' \in [Procs -> Proc \union {Nil}]
        /\ \A r \in Readers : proc'[r] = proc[r]
    <3>1. CASE UNCHANGED proc
      BY <3>1 DEF TypeOK
    <3>2. CASE Spawn(key, TRUE, FirstStep(key))
      <4>1. PICK t \in Tasks :
              /\ proc[t] = Nil
              /\ proc' = [proc EXCEPT ![t] = [key |-> key, warm |-> TRUE,
                            pc |-> FirstStep(key), val |-> Nil, run |-> 0]]
        BY <3>2 DEF Spawn
      <4>2. t \in Procs /\ \A r \in Readers : r \in Procs /\ r # t
        BY ProcAssumption DEF Procs
      <4> HIDE DEF key
      <4> QED BY <2>1, <4>1, <4>2, SpawnEffect
    <3> QED BY <1>6, <3>1, <3>2 DEF StartWarm
  <2> QED BY <1>6, <2>1, <2>2, <2>3 DEF StartWarm, TypeOK
<1>7. CASE SkipWarm
  <2>1. toWarm' \in Seq(Keys)
    <3>1. toWarm \in Seq(Keys) /\ toWarm # <<>> /\ toWarm' = Tail(toWarm)
      BY <1>7 DEF SkipWarm, NextToWarm, TypeOK
    <3> QED BY <3>1, HeadTailProperties
  <2> QED BY <1>7, <2>1 DEF SkipWarm, TypeOK
<1>8. CASE RestartListener
  <2>1. mail' \in Seq(Message) /\ Len(mail') <= MaxMail /\ toWarm' \in Seq(Keys)
    BY <1>8, MailAssumption DEF RestartListener
  <2>2. /\ proc' \in [Procs -> Proc \union {Nil}]
        /\ \A r \in Readers : proc'[r] = proc[r]
    <3>1. CASE UNCHANGED proc
      BY <3>1 DEF TypeOK
    <3>2. CASE Spawn("bytes", FALSE, "look")
      <4>1. PICK t \in Tasks :
              /\ proc[t] = Nil
              /\ proc' = [proc EXCEPT ![t] = [key |-> "bytes", warm |-> FALSE,
                            pc |-> FirstStep("bytes"), val |-> Nil, run |-> 0]]
        BY <3>2 DEF Spawn, FirstStep
      <4>2. t \in Procs /\ \A r \in Readers : r \in Procs /\ r # t
        BY ProcAssumption DEF Procs
      <4>3. "bytes" \in Keys
        BY DEF Keys
      <4> QED BY <4>1, <4>2, <4>3, SpawnEffect
    <3> QED BY <1>8, <3>1, <3>2 DEF RestartListener
  <2> QED BY <1>8, <2>1, <2>2 DEF RestartListener, TypeOK
<1>9. ASSUME NEW r \in Readers, NEW key \in Keys, StartRead(r, key)
      PROVE  TypeOK'
  <2>1. cache' \in [Keys -> Entry \union {Nil}]
    BY <1>9 DEF StartRead, AfterLookup, TypeOK
  <2>2. r \in Procs /\ proc[r] = Nil
    BY <1>9 DEF StartRead, Procs
  <2>3. /\ proc' \in [Procs -> Proc \union {Nil}]
        /\ ~proc'[r].warm
        /\ \A q \in Procs : q # r => proc'[q] = proc[q]
    BY <1>9, <2>2, SpawnEffect DEF StartRead
  <2>4. \A q \in Readers : proc'[q] # Nil => ~proc'[q].warm
    BY <2>3 DEF TypeOK, Procs
  <2> QED BY <1>9, <2>1, <2>3, <2>4 DEF StartRead, TypeOK
<1>10. ASSUME NEW p \in Procs, LookLatest(p) \/ ReadLatest(p) \/ Download(p)
       PROVE  TypeOK'
  <2>1. proc[p] # Nil /\ proc[p] \in Proc
    BY <1>10 DEF LookLatest, ReadLatest, Download, At, TypeOK
  <2>2. cache' \in [Keys -> Entry \union {Nil}]
    BY <1>10 DEF LookLatest, ReadLatest, Download, AfterLookup, TypeOK, Keys
  <2>3. PICK pc \in {"look", "read", "keep", "download", "put"},
             val \in Value \union {Nil} : Goto(p, pc, val)
    <3>1. Live("latest") => cache["latest"].val \in Value \union {Nil}
      BY DEF Live, TypeOK, Keys, Entry
    <3>2. proc[p].val \in Value \union {Nil} /\ Current \in Value \union {Nil}
      BY <2>1, ValueTypes DEF Proc
    <3>3. CASE LookLatest(p)
      BY <3>1, <3>3 DEF LookLatest
    <3>4. CASE ReadLatest(p)
      BY <3>2, <3>4 DEF ReadLatest
    <3>5. CASE Download(p)
      BY <3>2, <3>5 DEF Download
    <3> QED BY <1>10, <3>3, <3>4, <3>5
  <2>4. /\ proc' \in [Procs -> Proc \union {Nil}]
        /\ proc'[p].warm = proc[p].warm
        /\ \A q \in Procs : q # p => proc'[q] = proc[q]
    BY <2>1, <2>3, GotoEffect
  <2>5. \A r \in Readers : proc'[r] # Nil => ~proc'[r].warm
    BY <2>1, <2>4 DEF TypeOK, Procs
  <2> QED
    BY <1>10, <2>2, <2>4, <2>5 DEF LookLatest, ReadLatest, Download, TypeOK
<1>11. ASSUME NEW p \in Procs, KeepLatest(p) \/ PutBytes(p) \/ Fail(p)
       PROVE  TypeOK'
  <2>1. proc[p] # Nil /\ proc[p] \in Proc
    BY <1>11 DEF KeepLatest, PutBytes, Fail, At, TypeOK
  <2>2. proc[p].val \in Value \union {Nil} /\ proc[p].key \in Keys
    BY <2>1 DEF Proc
  <2>3. cache' \in [Keys -> Entry \union {Nil}]
    BY <1>11, <2>2, StoreType DEF KeepLatest, PutBytes, Fail, TypeOK, Keys
  <2>4. CASE Finish(p)
    <3>1. /\ proc' \in [Procs -> Proc \union {Nil}]
          /\ \A r \in Readers : proc'[r] # Nil => ~proc'[r].warm
      BY <2>4 DEF Finish, TypeOK, Procs
    <3>2. lock' \in [Keys -> 0..LockTTL \union {Nil}]
      BY <2>2, <2>4 DEF Finish, TypeOK
    <3>3. overruns' \in [Keys -> 0..MaxOverruns]
      BY <2>4, MailAssumption DEF Finish, TypeOK
    <3> QED
      BY <1>11, <2>3, <3>1, <3>2, <3>3 DEF KeepLatest, PutBytes, Fail, TypeOK
  <2>5. CASE Goto(p, "download", proc[p].val) /\ UNCHANGED <<lock, overruns>>
    <3>1. /\ proc' \in [Procs -> Proc \union {Nil}]
          /\ proc'[p].warm = proc[p].warm
          /\ \A q \in Procs : q # p => proc'[q] = proc[q]
      BY <2>1, <2>2, <2>5, GotoEffect
    <3>2. \A r \in Readers : proc'[r] # Nil => ~proc'[r].warm
      BY <2>1, <3>1 DEF TypeOK, Procs
    <3> QED
      BY <1>11, <2>3, <2>5, <3>1, <3>2 DEF KeepLatest, PutBytes, Fail, TypeOK
  <2> QED BY <1>11, <2>4, <2>5 DEF KeepLatest, PutBytes, Fail
<1>12. CASE UNCHANGED vars
  BY <1>12 DEF vars, TypeOK
<1> QED
  BY <1>1, <1>2, <1>3, <1>4, <1>5, <1>6, <1>7, <1>8, <1>9, <1>10, <1>11, <1>12
     DEF Next, ListenerStep, ProcStep

\* Every variable keeps its type; a request never holds a warm lock.
THEOREM Typing == Spec => []TypeOK
BY TypeInit, TypeStep, PTL DEF Spec

-----------------------------------------------------------------------------
LEMMA LateInit == Init => LateInv
BY TypeInit, NilAssumption
   DEF Init, LateInv, LatestInv, ProcInv, BytesInv, Live, Keys

\* A step that gives no entry and no computation a later value keeps the bounds.
LEMMA LateStep == LateInv /\ [Next]_vars => LateInv'
<1> SUFFICES ASSUME TypeOK, LatestInv, ProcInv, BytesInv, [Next]_vars, TypeOK'
             PROVE  LatestInv' /\ ProcInv' /\ BytesInv'
  BY TypeStep DEF LateInv
<1>a. TTL \in Nat /\ TTL > 0 /\ MaxRun \in Nat
  BY TimeAssumption
<1>b. /\ "latest" \in Keys /\ "bytes" \in Keys
      /\ \A k \in Keys : cache[k] # Nil =>
           /\ cache[k].age \in 0..TTL
           /\ cache[k].val \in Value \union {Nil}
           /\ Lateness(cache[k].val) \in Nat
      /\ \A p \in Procs : proc[p] # Nil =>
           /\ proc[p] \in Proc
           /\ proc[p].run \in 0..MaxRun
           /\ proc[p].val \in Value \union {Nil}
           /\ Lateness(proc[p].val) \in Nat
  BY ValueTypes DEF TypeOK, Keys, Entry, Proc
\* Entries that are not newly stored, computations that go on unchanged.
<1>c. ASSUME NEW k \in Keys, cache'[k] = cache[k] \/ cache'[k] = Nil
      PROVE  /\ k = "latest" => LatestInv'
             /\ k = "bytes" => BytesInv'
  BY <1>c DEF LatestInv, BytesInv, Live
<1>d. ASSUME NEW p \in Procs,
             \A q \in Procs : q # p => proc'[q] = proc[q] \/ proc'[q] = Nil,
             proc'[p] # Nil =>
               /\ proc'[p].pc = "keep" => Lateness(proc'[p].val) <= proc'[p].run
               /\ proc'[p].pc \in {"download", "put"} =>
                    Lateness(proc'[p].val) <= proc'[p].run + TTL - 1 + MaxRun
      PROVE  ProcInv'
  BY <1>d DEF ProcInv
<1>e. UNCHANGED proc => ProcInv'
  BY DEF ProcInv
<1>1. CASE Tick
  <2>1. /\ \A k \in Keys : cache'[k] # Nil =>
             /\ cache[k] # Nil
             /\ cache'[k].age = UpTo(cache[k].age, TTL)
             /\ Lateness(cache'[k].val) <= Lateness(cache[k].val) + 1
             /\ Lateness(cache'[k].val) \in Nat
        /\ \A p \in Procs : proc'[p] # Nil =>
             /\ proc[p] # Nil
             /\ proc'[p].run = proc[p].run + 1 /\ proc'[p].pc = proc[p].pc
             /\ Lateness(proc'[p].val) <= Lateness(proc[p].val) + 1
             /\ Lateness(proc'[p].val) \in Nat
    BY <1>1, <1>b, TickEffect, ValueTypes
  <2>2. \A k \in Keys : cache'[k] # Nil /\ cache'[k].age < TTL =>
          cache[k].age < TTL /\ cache'[k].age = cache[k].age + 1
    BY <1>a, <1>b, <2>1 DEF UpTo
  <2>3. LatestInv'
    BY <1>a, <1>b, <2>1, <2>2 DEF LatestInv, Live
  <2>4. BytesInv'
    BY <1>a, <1>b, <2>1, <2>2 DEF BytesInv, Live
  <2>5. ProcInv'
    BY <1>a, <1>b, <2>1 DEF ProcInv
  <2> QED BY <2>3, <2>4, <2>5
<1>2. CASE Changes
  <2>1. Change /\ outbox' \in Message \union {Nil}
    BY <1>2 DEF Changes, RecordShot, PurgeShots, BulkDelete, Message, TypeOK
  <2>2. /\ \A k \in Keys : cache'[k] # Nil =>
             /\ cache[k] # Nil /\ cache'[k].age = cache[k].age
             /\ Lateness(cache'[k].val) = Lateness(cache[k].val)
        /\ \A p \in Procs : proc'[p] # Nil =>
             /\ proc[p] # Nil
             /\ proc'[p].run = proc[p].run /\ proc'[p].pc = proc[p].pc
             /\ Lateness(proc'[p].val) = Lateness(proc[p].val)
    BY <1>b, <2>1, ChangeEffect, ValueTypes
  <2>3. LatestInv' /\ BytesInv'
    BY <1>b, <2>2 DEF LatestInv, BytesInv, Live
  <2>4. ProcInv'
    BY <2>2 DEF ProcInv
  <2> QED BY <2>3, <2>4
<1>3. CASE Publish \/ LosePublication \/ HandleMessage \/ SkipWarm
  <2>1. /\ \A k \in Keys : cache'[k] = cache[k] \/ cache'[k] = Nil
        /\ UNCHANGED proc
    BY <1>3 DEF Publish, LosePublication, HandleMessage, SkipWarm,
                InvalidateLatestShot
  <2> QED BY <1>b, <1>c, <1>e, <2>1
<1>4. CASE StartWarm \/ RestartListener
  <2>1. UNCHANGED cache
    BY <1>4 DEF StartWarm, RestartListener
  <2>2. \/ UNCHANGED proc
        \/ \E t \in Tasks, key \in Keys, w \in BOOLEAN :
             /\ proc[t] = Nil
             /\ proc' = [proc EXCEPT ![t] = [key |-> key, warm |-> w,
                           pc |-> FirstStep(key), val |-> Nil, run |-> 0]]
    <3>1. toWarm # <<>> => Head(toWarm) \in Keys
      BY HeadTailProperties DEF TypeOK
    <3>2. CASE StartWarm
      BY <3>1, <3>2 DEF StartWarm, NextToWarm, Spawn
    <3>3. CASE RestartListener
      BY <1>b, <3>3 DEF RestartListener, Spawn, FirstStep
    <3> QED BY <1>4, <3>2, <3>3
  <2>3. ProcInv'
    <3>1. CASE UNCHANGED proc
      BY <1>e, <3>1
    <3>2. ASSUME NEW t \in Tasks, NEW key \in Keys, NEW w \in BOOLEAN,
                 proc[t] = Nil,
                 proc' = [proc EXCEPT ![t] = [key |-> key, warm |-> w,
                            pc |-> FirstStep(key), val |-> Nil, run |-> 0]]
          PROVE  ProcInv'
      <4>1. /\ t \in Procs /\ proc'[t].pc \in {"look", "read"}
            /\ \A q \in Procs : q # t => proc'[q] = proc[q]
        BY <3>2, SpawnEffect DEF Procs
      <4> QED BY <1>d, <4>1
    <3> QED BY <2>2, <3>1, <3>2
  <2> QED BY <1>b, <1>c, <2>1, <2>3
<1>5. ASSUME NEW r \in Readers, NEW key \in Keys, StartRead(r, key)
      PROVE  LatestInv' /\ ProcInv' /\ BytesInv'
  <2>1. \A k \in Keys : cache'[k] = cache[k] \/ cache'[k] = Nil
    BY <1>5 DEF StartRead, AfterLookup, TypeOK
  <2>2. /\ r \in Procs /\ proc'[r].pc \in {"look", "read"}
        /\ \A q \in Procs : q # r => proc'[q] = proc[q]
    BY <1>5, SpawnEffect DEF StartRead, Procs
  <2>3. ProcInv'
    BY <1>d, <2>2
  <2> QED BY <1>b, <1>c, <2>1, <2>3
<1>6. ASSUME NEW p \in Procs, LookLatest(p)
      PROVE  LatestInv' /\ ProcInv' /\ BytesInv'
  <2>1. \A k \in Keys : cache'[k] = cache[k] \/ cache'[k] = Nil
    BY <1>6 DEF LookLatest, AfterLookup, TypeOK
  <2>2. proc[p] # Nil
    BY <1>6 DEF LookLatest, At
  <2>3. CASE Live("latest")
    <3>1. Goto(p, "download", cache["latest"].val)
      BY <1>6, <2>3 DEF LookLatest
    <3>2. /\ cache["latest"].age < TTL
          /\ cache["latest"].age \in 0..TTL
          /\ cache["latest"].val \in Value \union {Nil}
          /\ Lateness(cache["latest"].val) \in Nat
          /\ Lateness(cache["latest"].val) <= cache["latest"].age + MaxRun
      BY <1>b, <2>3 DEF LatestInv, Live
    <3>3. /\ proc'[p].pc = "download" /\ proc'[p].run \in 0..MaxRun
          /\ proc'[p].val = cache["latest"].val
          /\ \A q \in Procs : q # p => proc'[q] = proc[q]
      BY <1>b, <2>2, <3>1, <3>2, GotoEffect
    <3>4. Lateness(proc'[p].val) <= proc'[p].run + TTL - 1 + MaxRun
      BY <1>a, <3>2, <3>3
    <3> QED BY <1>b, <1>c, <1>d, <2>1, <3>3, <3>4
  <2>4. CASE ~Live("latest")
    <3>1. Goto(p, "read", Nil)
      BY <1>6, <2>4 DEF LookLatest
    <3>2. /\ proc'[p].pc = "read"
          /\ \A q \in Procs : q # p => proc'[q] = proc[q]
      BY <2>2, <3>1, GotoEffect
    <3> QED BY <1>b, <1>c, <1>d, <2>1, <3>2
  <2> QED BY <2>3, <2>4
<1>7. ASSUME NEW p \in Procs, ReadLatest(p) \/ Download(p)
      PROVE  LatestInv' /\ ProcInv' /\ BytesInv'
  <2>1. UNCHANGED cache /\ proc[p] # Nil
    BY <1>7 DEF ReadLatest, Download, At
  <2>2. CASE ReadLatest(p)
    <3>1. PICK val \in Value \union {Nil} :
            Goto(p, "keep", val) /\ Lateness(val) = 0
      BY <2>2, ValueTypes DEF ReadLatest
    <3>2. /\ proc'[p].pc = "keep" /\ proc'[p].val = val
          /\ proc'[p].run \in 0..MaxRun
          /\ \A q \in Procs : q # p => proc'[q] = proc[q]
      BY <1>b, <2>1, <3>1, GotoEffect
    <3>3. Lateness(proc'[p].val) <= proc'[p].run
      BY <3>1, <3>2
    <3> QED BY <1>b, <1>c, <1>d, <2>1, <3>2, <3>3
  <2>3. CASE Download(p)
    <3>1. /\ proc[p].pc = "download"
          /\ Goto(p, "put", proc[p].val) \/ Goto(p, "put", Nil)
      BY <2>3 DEF Download, At
    <3>2. /\ proc'[p].pc = "put" /\ proc'[p].run = proc[p].run
          /\ proc'[p].val \in {proc[p].val, Nil}
          /\ \A q \in Procs : q # p => proc'[q] = proc[q]
      BY <1>b, <2>1, <3>1, GotoEffect
    <3>3. Lateness(proc[p].val) <= proc[p].run + TTL - 1 + MaxRun
      BY <2>1, <3>1 DEF ProcInv
    <3>4. Lateness(Nil) = 0 /\ 0 <= proc[p].run + TTL - 1 + MaxRun
      BY <1>a, <1>b, <2>1 DEF Lateness
    <3>5. Lateness(proc'[p].val) <= proc'[p].run + TTL - 1 + MaxRun
      BY <3>2, <3>3, <3>4
    <3> QED BY <1>b, <1>c, <1>d, <2>1, <3>2, <3>5
  <2> QED BY <1>7, <2>2, <2>3
<1>8. ASSUME NEW p \in Procs, KeepLatest(p)
      PROVE  LatestInv' /\ ProcInv' /\ BytesInv'
  <2>1. /\ proc[p] # Nil /\ proc[p].pc = "keep"
        /\ cache' = Store("latest", proc[p].val)
    BY <1>8 DEF KeepLatest, At
  <2>2. Lateness(proc[p].val) <= proc[p].run /\ proc[p].run <= MaxRun
        /\ proc[p].run \in Nat /\ Lateness(proc[p].val) \in Nat
    BY <1>a, <1>b, <2>1 DEF ProcInv
  <2>3. /\ cache'["latest"].val = proc[p].val /\ cache'["latest"].age = 0
        /\ cache'["bytes"] = cache["bytes"]
    BY <1>b, <2>1, StoreType
  <2>4. LatestInv'
    BY <1>a, <2>2, <2>3 DEF LatestInv
  <2>5. BytesInv'
    BY <1>b, <1>c, <2>3
  <2>6. ProcInv'
    <3>1. CASE Finish(p)
      <4>1. proc' = [proc EXCEPT ![p] = Nil]
        BY <3>1 DEF Finish
      <4> QED BY <1>d, <4>1 DEF TypeOK
    <3>2. CASE Goto(p, "download", proc[p].val)
      <4>1. /\ proc'[p].pc = "download" /\ proc'[p].run = proc[p].run
            /\ proc'[p].val = proc[p].val
            /\ \A q \in Procs : q # p => proc'[q] = proc[q]
        BY <1>b, <2>1, <3>2, GotoEffect
      <4>2. Lateness(proc'[p].val) <= proc'[p].run + TTL - 1 + MaxRun
        BY <1>a, <2>2, <4>1
      <4> QED BY <1>d, <4>1, <4>2
    <3> QED BY <1>8, <3>1, <3>2 DEF KeepLatest
  <2> QED BY <2>4, <2>5, <2>6
<1>9. ASSUME NEW p \in Procs, PutBytes(p) \/ Fail(p)
      PROVE  LatestInv' /\ ProcInv' /\ BytesInv'
  <2>1. proc[p] # Nil /\ proc' = [proc EXCEPT ![p] = Nil]
    BY <1>9 DEF PutBytes, Fail, At, Finish
  <2>2. ProcInv'
    BY <1>d, <2>1 DEF TypeOK
  <2>3. CASE PutBytes(p)
    <3>1. proc[p].pc = "put" /\ cache' = Store("bytes", proc[p].val)
      BY <2>3 DEF PutBytes, At
    <3>2. /\ Lateness(proc[p].val) <= proc[p].run + TTL - 1 + MaxRun
          /\ proc[p].run \in Nat /\ proc[p].run <= MaxRun
          /\ Lateness(proc[p].val) \in Nat
      BY <1>a, <1>b, <2>1, <3>1 DEF ProcInv
    <3>3. /\ cache'["bytes"].val = proc[p].val /\ cache'["bytes"].age = 0
          /\ cache'["latest"] = cache["latest"]
      BY <1>b, <2>1, <3>1, StoreType
    <3>4. BytesInv'
      BY <1>a, <3>2, <3>3 DEF BytesInv
    <3> QED BY <1>b, <1>c, <2>2, <3>3, <3>4
  <2>4. CASE Fail(p)
    <3>1. UNCHANGED cache
      BY <2>4 DEF Fail
    <3> QED BY <1>b, <1>c, <2>2, <3>1
  <2> QED BY <1>9, <2>3, <2>4
<1>10. CASE UNCHANGED vars
  BY <1>b, <1>c, <1>e, <1>10 DEF vars
<1> QED
  BY <1>1, <1>2, <1>3, <1>4, <1>5, <1>6, <1>7, <1>8, <1>9, <1>10
     DEF Next, ListenerStep, ProcStep

LEMMA LateBounds == LateInv => LatestBounded /\ BytesBounded
<1> SUFFICES ASSUME LateInv PROVE LatestBounded /\ BytesBounded
  OBVIOUS
<1>1. \A k \in Keys : cache[k] # Nil =>
        cache[k].age \in 0..TTL /\ Lateness(cache[k].val) \in Nat
  BY ValueTypes DEF LateInv, TypeOK, Entry
<1>2. "latest" \in Keys /\ "bytes" \in Keys
  BY DEF Keys
<1> QED
  BY <1>1, <1>2, TimeAssumption
     DEF LateInv, LatestInv, BytesInv, LatestBounded, BytesBounded, Live

\* Whatever is lost, skipped or overtaken, the newest shot that is served is
\* less than one lifetime and one computation late.
THEOREM LatestStaleness == Spec => []LatestBounded
BY LateInit, LateStep, LateBounds, PTL DEF Spec

\* The bytes served are less than two lifetimes and two computations late.
THEOREM BytesStaleness == Spec => []BytesBounded
BY LateInit, LateStep, LateBounds, PTL DEF Spec

-----------------------------------------------------------------------------
\* A key with a lock that holds has one warm task more at most than one whose
\* lock is free to be claimed: the claim and the start are one, and whatever
\* frees the lock is a task that ends or an expiry that is counted.
Bounded(key) ==
  \/ overruns[key] = MaxOverruns
  \/ Cardinality(Warming(key)) <= overruns[key] + (IF Claimable(key) THEN 0 ELSE 1)
WarmInv == TypeOK /\ \A key \in Keys : Bounded(key)

\* Sets of warm tasks are finite and have a cardinality.
LEMMA WarmingFinite ==
  ASSUME NEW key
  PROVE  IsFiniteSet(Warming(key)) /\ Cardinality(Warming(key)) \in Nat
<1>1. Warming(key) \in SUBSET Tasks
  BY DEF Warming
<1> QED BY <1>1, ProcAssumption, FS_Subset, FS_CardinalityType

LEMMA WarmInit == Init => WarmInv
<1> SUFFICES ASSUME Init, NEW key \in Keys PROVE Bounded(key)
  BY TypeInit DEF WarmInv
<1>1. Warming(key) = {}
  BY DEF Init, Warming, Procs
<1>2. Claimable(key) /\ overruns[key] = 0
  BY DEF Init, Claimable
<1> QED BY <1>1, <1>2, FS_EmptySet DEF Bounded

LEMMA WarmStep == WarmInv /\ [Next]_vars => WarmInv'
<1> SUFFICES ASSUME TypeOK, TypeOK', \A k \in Keys : Bounded(k), [Next]_vars,
                    NEW key \in Keys
             PROVE  Bounded(key)'
  BY TypeStep DEF WarmInv
<1>a. /\ \A t \in Tasks : t \in Procs /\ t \notin Readers
      /\ \A p \in Procs : proc[p] # Nil => proc[p].key \in Keys
      /\ \A k \in Keys : lock[k] # Nil => lock[k] \in 0..LockTTL
      /\ \A k \in Keys : overruns[k] \in Nat /\ overruns[k] <= MaxOverruns
      /\ LockTTL \in Nat \ {0} /\ MaxOverruns \in Nat
  BY ProcAssumption, TimeAssumption, MailAssumption DEF TypeOK, Procs, Proc
<1>b. /\ IsFiniteSet(Warming(key)) /\ Cardinality(Warming(key)) \in Nat
      /\ Bounded(key)
  BY WarmingFinite
\* Warm tasks of the key go on or end, and its lock is as it was.
<1>c. ASSUME Warming(key)' \subseteq Warming(key), lock'[key] = lock[key],
             overruns'[key] = overruns[key]
      PROVE  Bounded(key)'
  <2>1. Cardinality(Warming(key)') <= Cardinality(Warming(key))
        /\ Cardinality(Warming(key)') \in Nat
    BY <1>b, <1>c, FS_Subset, FS_CardinalityType
  <2> QED BY <1>a, <1>b, <1>c, <2>1 DEF Bounded, Claimable
<1>d. ASSUME UNCHANGED <<proc, lock, overruns>>
      PROVE  Bounded(key)'
  BY <1>b, <1>d DEF Bounded, Claimable, Warming
\* An expiry frees the lock and is counted, where a task still warms the key.
<1>1. CASE Tick
  <2>1. Warming(key)' \subseteq Warming(key)
    BY <1>1, <1>a, TickEffect DEF Warming
  <2>2. Cardinality(Warming(key)') <= Cardinality(Warming(key))
        /\ Cardinality(Warming(key)') \in Nat
    BY <1>b, <2>1, FS_Subset, FS_CardinalityType
  <2>3. CASE lock[key] = LockTTL - 1
    <3>1. CASE Warming(key) = {}
      <4>1. Cardinality(Warming(key)') = 0
        BY <2>1, <3>1, FS_EmptySet
      <4>2. overruns'[key] = overruns[key]
        BY <1>1, <3>1 DEF Tick
      <4> QED BY <1>a, <4>1, <4>2 DEF Bounded
    <3>2. CASE Warming(key) # {}
      <4>1. overruns'[key] = UpTo(overruns[key], MaxOverruns)
        BY <1>1, <2>3, <3>2 DEF Tick
      <4>2. ~Claimable(key)
        BY <1>a, <2>3, NilAssumption DEF Claimable
      <4> QED BY <1>a, <1>b, <2>2, <4>1, <4>2 DEF Bounded, UpTo
    <3> QED BY <3>1, <3>2
  <2>4. CASE lock[key] # LockTTL - 1
    <3>1. overruns'[key] = overruns[key]
      BY <1>1, <2>4 DEF Tick
    <3>2. lock'[key] = IF lock[key] = Nil THEN Nil ELSE UpTo(lock[key], LockTTL)
      BY <1>1 DEF Tick
    <3>3. Claimable(key)' <=> Claimable(key)
      BY <1>a, <2>4, <3>2, NilAssumption DEF Claimable, UpTo
    <3> QED BY <1>a, <1>b, <2>2, <3>1, <3>3 DEF Bounded
  <2> QED BY <2>3, <2>4
<1>2. CASE Changes
  <2>1. Change /\ outbox' \in Message \union {Nil}
    BY <1>2 DEF Changes, RecordShot, PurgeShots, BulkDelete, Message, TypeOK
  <2>2. Warming(key)' \subseteq Warming(key) /\ UNCHANGED <<lock, overruns>>
    BY <1>a, <2>1, ChangeEffect DEF Warming, Change
  <2> QED BY <1>c, <2>2
\* The lock was free or had expired, and holds now.
<1>3. CASE StartWarm
  <2> DEFINE warmed == Head(toWarm)
  <2>1. warmed \in Keys
    BY <1>3, HeadTailProperties DEF StartWarm, NextToWarm, TypeOK
  <2>2. /\ Claimable(warmed) /\ lock' = [lock EXCEPT ![warmed] = 0]
        /\ UNCHANGED overruns
        /\ UNCHANGED proc \/ Spawn(warmed, TRUE, FirstStep(warmed))
    BY <1>3 DEF StartWarm
  <2> HIDE DEF warmed
  <2>3. /\ lock'[warmed] = 0
        /\ \A k \in Keys : k # warmed => lock'[k] = lock[k]
    BY <2>1, <2>2 DEF TypeOK
  <2>4. CASE UNCHANGED proc
    <3>1. Warming(key)' = Warming(key)
      BY <2>4 DEF Warming
    <3>2. CASE key = warmed
      BY <1>a, <1>b, <2>2, <3>1, <3>2 DEF Bounded
    <3>3. CASE key # warmed
      BY <1>c, <2>2, <2>3, <3>1, <3>3
    <3> QED BY <3>2, <3>3
  <2>5. ASSUME NEW t \in Tasks, proc[t] = Nil,
               proc' = [proc EXCEPT ![t] = [key |-> warmed, warm |-> TRUE,
                          pc |-> FirstStep(warmed), val |-> Nil, run |-> 0]]
        PROVE  Bounded(key)'
    <3>1. /\ proc'[t] # Nil /\ proc'[t].key = warmed
          /\ \A q \in Procs : q # t => proc'[q] = proc[q]
      BY <1>a, <2>1, <2>5, SpawnEffect
    <3>2. CASE key = warmed
      <4>1. Warming(key)' \subseteq Warming(key) \union {t}
        BY <1>a, <3>1 DEF Warming
      <4>2. /\ IsFiniteSet(Warming(key) \union {t})
            /\ Cardinality(Warming(key) \union {t}) <= Cardinality(Warming(key)) + 1
            /\ Cardinality(Warming(key) \union {t}) \in Nat
        <5>1. IsFiniteSet(Warming(key) \union {t})
          BY <1>b, FS_AddElement
        <5>2. Cardinality(Warming(key) \union {t})
                \in {Cardinality(Warming(key)), Cardinality(Warming(key)) + 1}
          BY <1>b, FS_AddElement
        <5> QED BY <1>b, <5>1, <5>2
      <4>3. /\ Cardinality(Warming(key)') <= Cardinality(Warming(key)) + 1
            /\ Cardinality(Warming(key)') \in Nat
        <5>1. /\ Cardinality(Warming(key)') <= Cardinality(Warming(key) \union {t})
              /\ IsFiniteSet(Warming(key)')
          BY <4>1, <4>2, FS_Subset
        <5>2. Cardinality(Warming(key)') \in Nat
          BY <5>1, FS_CardinalityType
        <5> QED BY <1>b, <4>2, <5>1, <5>2
      <4>4. ~Claimable(key)'
        BY <1>a, <2>3, <3>2, NilAssumption DEF Claimable
      <4> QED BY <1>a, <1>b, <2>2, <3>2, <4>3, <4>4 DEF Bounded
    <3>3. CASE key # warmed
      <4>1. Warming(key)' \subseteq Warming(key)
        BY <1>a, <3>1, <3>3 DEF Warming
      <4> QED BY <1>c, <2>2, <2>3, <3>3, <4>1
    <3> QED BY <3>2, <3>3
  <2> QED BY <2>2, <2>4, <2>5 DEF Spawn
<1>4. ASSUME NEW p \in Procs, NEW k \in Keys, proc[p] = Nil,
             proc' = [proc EXCEPT ![p] = [key |-> k, warm |-> FALSE,
                        pc |-> FirstStep(k), val |-> Nil, run |-> 0]],
             UNCHANGED <<lock, overruns>>
      PROVE  Bounded(key)'
  <2>1. /\ proc'[p].warm = FALSE
        /\ \A q \in Procs : q # p => proc'[q] = proc[q]
    BY <1>4, SpawnEffect
  <2>2. Warming(key)' \subseteq Warming(key)
    BY <1>a, <2>1 DEF Warming
  <2> QED BY <1>4, <1>c, <2>2
<1>5. CASE RestartListener
  <2>1. /\ UNCHANGED <<lock, overruns>>
        /\ UNCHANGED proc \/ Spawn("bytes", FALSE, "look")
    BY <1>5 DEF RestartListener
  <2>2. CASE Spawn("bytes", FALSE, "look")
    <3>1. PICK t \in Tasks :
            /\ proc[t] = Nil
            /\ proc' = [proc EXCEPT ![t] = [key |-> "bytes", warm |-> FALSE,
                          pc |-> FirstStep("bytes"), val |-> Nil, run |-> 0]]
      BY <2>2 DEF Spawn, FirstStep
    <3>2. t \in Procs /\ "bytes" \in Keys
      BY <1>a DEF Keys
    <3> QED BY <1>4, <2>1, <3>1, <3>2
  <2> QED BY <1>d, <2>1, <2>2
<1>6. ASSUME NEW r \in Readers, NEW k \in Keys, StartRead(r, k)
      PROVE  Bounded(key)'
  BY <1>4, <1>6 DEF StartRead, Procs
<1>7. ASSUME NEW p \in Procs, NEW pc, NEW val, Goto(p, pc, val), proc[p] # Nil,
             UNCHANGED <<lock, overruns>>
      PROVE  Bounded(key)'
  <2>1. /\ proc'[p].key = proc[p].key /\ proc'[p].warm = proc[p].warm
        /\ \A q \in Procs : q # p => proc'[q] = proc[q]
    <3>1. proc[p] \in Proc
      BY <1>7 DEF TypeOK
    <3> QED BY <1>7, <3>1 DEF Goto, TypeOK, Proc
  <2>2. Warming(key)' \subseteq Warming(key)
    BY <1>a, <1>7, <2>1 DEF Warming
  <2> QED BY <1>7, <1>c, <2>2
\* A warm task that ends frees the lock, and is itself no longer counted.
<1>8. ASSUME NEW p \in Procs, proc[p] # Nil, Finish(p)
      PROVE  Bounded(key)'
  <2>1. /\ proc'[p] = Nil
        /\ \A q \in Procs : q # p => proc'[q] = proc[q]
    BY <1>8 DEF Finish, TypeOK
  <2>2. Warming(key)' = Warming(key) \ {p}
    BY <1>a, <2>1 DEF Warming
  <2>3. CASE Warming(key) \subseteq {p}
    <3>1. Warming(key)' = {} /\ overruns'[key] = 0
      BY <1>8, <2>2, <2>3 DEF Finish
    <3>2. Cardinality(Warming(key)') = 0
      BY <3>1, FS_EmptySet
    <3> QED BY <3>1, <3>2 DEF Bounded
  <2>4. CASE ~(Warming(key) \subseteq {p})
    <3>1. overruns'[key] = overruns[key]
      BY <1>8, <2>4 DEF Finish
    <3>2. CASE proc[p].warm /\ proc[p].key = key
      <4>1. p \in Warming(key)
        BY <1>8, <3>2 DEF Warming, TypeOK, Procs
      <4>2. Cardinality(Warming(key)') = Cardinality(Warming(key)) - 1
        BY <1>b, <2>2, <4>1, FS_RemoveElement
      <4>3. Claimable(key)'
        BY <1>8, <3>2 DEF Finish, Claimable, TypeOK
      <4> QED BY <1>a, <1>b, <3>1, <4>2, <4>3 DEF Bounded
    <3>3. CASE ~(proc[p].warm /\ proc[p].key = key)
      <4>1. lock'[key] = lock[key]
        BY <1>8, <3>3 DEF Finish, TypeOK
      <4> QED BY <1>c, <2>2, <3>1, <4>1
    <3> QED BY <3>2, <3>3
  <2> QED BY <2>3, <2>4
<1>9. ASSUME NEW p \in Procs, ProcStep(p)
      PROVE  Bounded(key)'
  <2>1. proc[p] # Nil
    BY <1>9 DEF ProcStep, LookLatest, ReadLatest, KeepLatest, Download,
                PutBytes, Fail, At
  <2>2. CASE LookLatest(p) \/ ReadLatest(p) \/ Download(p)
    BY <1>7, <2>1, <2>2 DEF LookLatest, ReadLatest, Download
  <2>3. CASE KeepLatest(p) \/ PutBytes(p) \/ Fail(p)
    BY <1>7, <1>8, <2>1, <2>3 DEF KeepLatest, PutBytes, Fail
  <2> QED BY <1>9, <2>2, <2>3 DEF ProcStep
<1> QED
  BY <1>1, <1>2, <1>3, <1>5, <1>6, <1>9, <1>d
     DEF Next, ListenerStep, Publish, LosePublication, HandleMessage, SkipWarm,
         vars

LEMMA WarmBound == WarmInv => WarmsBounded
<1> SUFFICES ASSUME WarmInv, NEW key \in Keys, overruns[key] < MaxOverruns
             PROVE  Cardinality(Warming(key)) <= 1 + overruns[key]
  BY DEF WarmsBounded
<1>1. /\ Bounded(key) /\ overruns[key] \in Nat /\ MaxOverruns \in Nat
      /\ Cardinality(Warming(key)) \in Nat
  BY WarmingFinite, MailAssumption DEF WarmInv, TypeOK
<1> QED BY <1>1 DEF Bounded

\* However long a computation takes against the lock that guards it, the warm
\* tasks of a key are at most one more than the expiries of its lock under them.
THEOREM WarmsAreBounded == Spec => []WarmsBounded
BY WarmInit, WarmStep, WarmBound, PTL DEF Spec
=============================================================================
