-------------------------- MODULE ShotUploadProofs --------------------------
(***************************************************************************)
(* Proofs about ShotUpload, for any images, any number of requests and any  *)
(* number of keys and restarts.                                             *)
(***************************************************************************)
EXTENDS ShotUpload, TLAPS

PCs == {"check", "upload", "record"}
Optional == Keys \union {Nil}

\* Request u gets these fields, and the others stay as they are.
Becomes(u, pc, i, k) ==
  /\ up' \in [Uploads -> Upload \union {Nil}]
  /\ up'[u] # Nil /\ up'[u].pc = pc /\ up'[u].image = i /\ up'[u].key = k
  /\ \A v \in Uploads : v # u => up'[v] = up[v]

LEMMA Replaced ==
  ASSUME TypeOK, NEW u \in Uploads, NEW q \in Upload,
         up' = [up EXCEPT ![u] = q]
  PROVE  Becomes(u, q.pc, q.image, q.key)
BY NilAssumption DEF TypeOK, Becomes

LEMMA RequestFields ==
  ASSUME TypeOK, NEW u \in Uploads, up[u] # Nil
  PROVE  /\ up[u] \in Upload /\ up[u].pc \in PCs
         /\ up[u].image \in Images /\ up[u].key \in Optional
BY DEF TypeOK, Upload, PCs, Optional

LEMMA PurgeFields ==
  ASSUME TypeOK, purge # Nil
  PROVE  /\ purge \in Purge /\ purge.pc \in {"object", "row"}
         /\ purge.image \in Images /\ purge.key \in Keys
BY DEF TypeOK, Purge

LEMMA SendEffect ==
  ASSUME TypeOK, NEW u \in Uploads, NEW i \in Images, Send(u, i)
  PROVE  Becomes(u, "check", i, Nil)
<1> DEFINE new == [pc |-> "check", image |-> i, key |-> Nil]
<1>1. /\ new \in Upload /\ new.pc = "check" /\ new.image = i /\ new.key = Nil
  BY DEF Upload
<1>2. up' = [up EXCEPT ![u] = new]
  BY DEF Send
<1> HIDE DEF new
<1> QED BY <1>1, <1>2, Replaced

LEMMA DrawEffect ==
  ASSUME TypeOK, NEW u \in Uploads, Draw(u)
  PROVE  /\ next \in Keys /\ next' = next + 1
         /\ Becomes(u, "upload", up[u].image, next)
<1>1. next \in Keys /\ up[u] # Nil /\ next' = next + 1
  BY BoundAssumption DEF TypeOK, Draw, Keys, At
<1> DEFINE new == [up[u] EXCEPT !.pc = "upload", !.key = next]
<1>2. /\ new \in Upload /\ new.pc = "upload" /\ new.image = up[u].image
      /\ new.key = next
  BY <1>1, RequestFields DEF Upload
<1>3. up' = [up EXCEPT ![u] = new]
  BY <1>1, RequestFields DEF Draw, TypeOK, Upload
<1> HIDE DEF new
<1> QED BY <1>1, <1>2, <1>3, Replaced

LEMMA PutEffect ==
  ASSUME TypeOK, NEW u \in Uploads, up[u] # Nil,
         up' = [up EXCEPT ![u].pc = "record"]
  PROVE  Becomes(u, "record", up[u].image, up[u].key)
<1> DEFINE new == [up[u] EXCEPT !.pc = "record"]
<1>1. /\ new \in Upload /\ new.pc = "record" /\ new.image = up[u].image
      /\ new.key = up[u].key
  BY RequestFields DEF Upload
<1>2. up' = [up EXCEPT ![u] = new]
  BY RequestFields DEF TypeOK, Upload
<1> HIDE DEF new
<1> QED BY <1>1, <1>2, Replaced

LEMMA DoneEffect ==
  ASSUME TypeOK, NEW u \in Uploads, Done(u)
  PROVE  /\ up' \in [Uploads -> Upload \union {Nil}] /\ up'[u] = Nil
         /\ \A v \in Uploads : v # u => up'[v] = up[v]
BY DEF TypeOK, Done

LEMMA TakeEffect ==
  ASSUME TypeOK, NEW i \in Images, PurgeTake(i)
  PROVE  /\ purge' \in Purge /\ purge' # Nil /\ purge'.pc = "object"
         /\ purge'.image = i /\ purge'.key = rows[i] /\ rows[i] \in Keys
<1>1. rows[i] \in Keys
  BY DEF TypeOK, PurgeTake
<1>2. purge' = [pc |-> "object", image |-> i, key |-> rows[i]]
  BY DEF PurgeTake
<1>3. purge' \in Purge
  BY <1>1, <1>2 DEF Purge
<1> QED BY <1>1, <1>2, <1>3, NilAssumption

LEMMA ToRowEffect ==
  ASSUME TypeOK, purge # Nil, purge' = [purge EXCEPT !.pc = "row"]
  PROVE  /\ purge' \in Purge /\ purge' # Nil /\ purge'.pc = "row"
         /\ purge'.image = purge.image /\ purge'.key = purge.key
<1>1. /\ purge' \in Purge /\ purge'.pc = "row"
      /\ purge'.image = purge.image /\ purge'.key = purge.key
  BY PurgeFields DEF Purge
<1> QED BY <1>1, NilAssumption

-----------------------------------------------------------------------------
(***************************************************************************)
(* Types, and what senders were told.                                       *)
(***************************************************************************)
Busy(u) == At(u, "upload") \/ At(u, "record")

\* A request that is past the check has a key.
Keyed == \A u \in Uploads : Busy(u) => up[u].key \in Keys

Basic == TypeOK /\ Keyed /\ ToldIsKept

LEMMA BasicInit == Init => Basic
BY BoundAssumption
DEF Init, Basic, TypeOK, Keyed, ToldIsKept, Keys, Busy, At

LEMMA BasicNext == Basic /\ [Next]_vars => Basic'
<1> SUFFICES ASSUME Basic, [Next]_vars PROVE Basic'
  OBVIOUS
<1>t. TypeOK /\ Keyed /\ ToldIsKept
  BY DEF Basic
\* Steps that leave the requests alone.
<1>0. ASSUME UNCHANGED <<next, up, restarts>>,
             rows' \in [Images -> Optional], store' \in [Keys -> Images \union {Nil}],
             doomed' \subseteq Keys, purge' \in Purge \union {Nil},
             told' \subseteq Images, \A i \in told' : rows'[i] # Nil,
             UNCHANGED <<old, redrawn>>, stranded' \subseteq Images
      PROVE  Basic'
  BY <1>t, <1>0 DEF Basic, TypeOK, Keyed, ToldIsKept, Busy, At, Optional
\* Steps of request u.
<1>00. ASSUME NEW u \in Uploads, up' \in [Uploads -> Upload \union {Nil}],
              Busy(u)' => up'[u].key \in Keys,
              \A v \in Uploads : v # u => up'[v] = up[v],
              UNCHANGED <<doomed, purge, restarts>>, next' \in 1..(MaxKey + 1),
              rows' \in [Images -> Optional], store' \in [Keys -> Images \union {Nil}],
              told' \subseteq Images, \A i \in told' : rows'[i] # Nil,
              UNCHANGED <<old, stranded>>, redrawn' \subseteq Keys
       PROVE  Basic'
  BY <1>t, <1>00 DEF Basic, TypeOK, Keyed, ToldIsKept, Busy, At, Optional
<1>1. ASSUME NEW u \in Uploads, NEW i \in Images, Send(u, i) PROVE Basic'
  <2>1. Becomes(u, "check", i, Nil)
    BY <1>t, <1>1, SendEffect
  <2>2. UNCHANGED <<rows, store, next, doomed, purge, told, history, restarts>>
    BY <1>1 DEF Send
  <2>3. ~Busy(u)'
    BY <2>1 DEF Becomes, Busy, At
  <2>4. /\ up' \in [Uploads -> Upload \union {Nil}]
        /\ \A v \in Uploads : v # u => up'[v] = up[v]
    BY <2>1 DEF Becomes
  <2> QED
    BY <1>t, <1>00, <2>2, <2>3, <2>4 DEF TypeOK, Optional, ToldIsKept, history
<1>2. ASSUME NEW u \in Uploads, Duplicate(u) \/ Refuse(u) PROVE Basic'
  <2>1. /\ Done(u)
        /\ UNCHANGED <<rows, store, next, doomed, purge, history, restarts>>
        /\ \/ told' = told
           \/ told' = told \union {up[u].image} /\ rows[up[u].image] # Nil
        /\ up[u] # Nil
    BY <1>2 DEF Duplicate, Refuse, At
  <2>2. told' \subseteq Images /\ \A i \in told' : rows'[i] # Nil
    BY <1>t, <2>1, RequestFields DEF TypeOK, ToldIsKept
  <2> QED
    BY <1>t, <1>00, <2>1, <2>2, DoneEffect DEF Busy, At, TypeOK, Optional, history
<1>3. ASSUME NEW u \in Uploads, Draw(u) PROVE Basic'
  <2>1. next \in Keys /\ next' = next + 1 /\ Becomes(u, "upload", up[u].image, next)
    BY <1>t, <1>3, DrawEffect
  <2>2. next' \in 1..(MaxKey + 1)
    BY <2>1, BoundAssumption DEF Keys
  <2>3. /\ UNCHANGED <<rows, store, doomed, purge, told, old, stranded, restarts>>
        /\ redrawn' \subseteq Keys
    BY <1>t, <1>3 DEF Draw, TypeOK
  <2> QED
    BY <1>t, <1>00, <2>1, <2>2, <2>3 DEF Becomes, TypeOK, Optional, ToldIsKept
<1>4. ASSUME NEW u \in Uploads, Put(u) PROVE Basic'
  <2>1. /\ UNCHANGED <<rows, next, doomed, purge, told, restarts>>
        /\ UNCHANGED <<old, redrawn, stranded>>
        /\ up[u] # Nil /\ up[u].key \in Keys /\ up[u].image \in Images
    BY <1>t, <1>4, RequestFields DEF Put, Keyed, Busy, At, history
  <2>2. CASE Done(u) /\ UNCHANGED store
    BY <1>t, <1>00, <2>1, <2>2, DoneEffect DEF Busy, At, TypeOK, Optional, ToldIsKept
  <2>3. CASE /\ store' = [store EXCEPT ![up[u].key] = up[u].image]
             /\ up' = [up EXCEPT ![u].pc = "record"]
    <3>1. Becomes(u, "record", up[u].image, up[u].key)
      BY <1>t, <2>1, <2>3, PutEffect
    <3>2. store' \in [Keys -> Images \union {Nil}]
      BY <1>t, <2>1, <2>3 DEF TypeOK
    <3> QED
      BY <1>t, <1>00, <2>1, <3>1, <3>2 DEF Becomes, TypeOK, Optional, ToldIsKept
  <2> QED
    BY <1>4, <2>2, <2>3 DEF Put
<1>5. ASSUME NEW u \in Uploads, Record(u) PROVE Basic'
  <2>1. /\ UNCHANGED <<store, next, doomed, purge, restarts>> /\ Done(u)
        /\ UNCHANGED <<old, redrawn, stranded>>
        /\ up[u] # Nil /\ up[u].key \in Keys /\ up[u].image \in Images
        /\ \/ /\ rows' = [rows EXCEPT ![up[u].image] = up[u].key]
              /\ told' = told \union {up[u].image}
           \/ UNCHANGED <<rows, told>>
    BY <1>t, <1>5, RequestFields DEF Record, Keyed, Busy, At, history
  <2>2. up[u].key # Nil
    BY <2>1, NilAssumption DEF Keys
  <2>3. /\ rows' \in [Images -> Optional] /\ told' \subseteq Images
        /\ \A i \in told' : rows'[i] # Nil
    BY <1>t, <2>1, <2>2 DEF TypeOK, ToldIsKept, Optional
  <2> QED
    BY <1>t, <1>00, <2>1, <2>3, DoneEffect DEF Busy, At, TypeOK
<1>6. ASSUME NEW i \in Images, BulkDelete(i) PROVE Basic'
  BY <1>t, <1>0, <1>6 DEF BulkDelete, TypeOK, ToldIsKept, Optional
<1>7. ASSUME NEW i \in Images, PurgeTake(i) PROVE Basic'
  BY <1>t, <1>0, <1>7, TakeEffect
  DEF PurgeTake, TypeOK, ToldIsKept, Optional, history
<1>8. ASSUME NEW k \in Keys, DeleteDoomed(k) PROVE Basic'
  BY <1>t, <1>0, <1>8 DEF DeleteDoomed, TypeOK, ToldIsKept, Optional, history
<1>9. CASE PurgeObject
  BY <1>t, <1>0, <1>9, ToRowEffect, PurgeFields
  DEF PurgeObject, TypeOK, ToldIsKept, Optional, history
<1>10. CASE PurgeRow
  <2>1. purge' = Nil /\ UNCHANGED <<store, next, up, doomed, old, redrawn, restarts>>
    BY <1>10 DEF PurgeRow
  <2>2. /\ rows' \in [Images -> Optional] /\ told' \subseteq Images
        /\ \A i \in told' : rows'[i] # Nil
        /\ stranded' \subseteq Images
    BY <1>t, <1>10 DEF PurgeRow, TypeOK, ToldIsKept, Optional, Leaving
  <2> QED
    BY <1>t, <1>0, <2>1, <2>2 DEF TypeOK
<1>11. CASE Restart
  <2>1. restarts' \in 0..MaxRestarts /\ next' \in 1..(MaxKey + 1)
    BY <1>t, <1>11, BoundAssumption DEF Restart, TypeOK
  <2> QED
    BY <1>t, <1>11, <2>1
    DEF Restart, Leaving, Basic, TypeOK, Keyed, ToldIsKept, Busy, At
<1>12. CASE UNCHANGED vars
  BY <1>t, <1>0, <1>12 DEF vars, history, TypeOK, ToldIsKept, Optional
<1> QED
  BY <1>1, <1>2, <1>3, <1>4, <1>5, <1>6, <1>7, <1>8, <1>9, <1>10, <1>11, <1>12
  DEF Next, Step

-----------------------------------------------------------------------------
(***************************************************************************)
(* Keys: one shot each, as long as they are drawn once.                     *)
(***************************************************************************)
AtRow(k) == purge # Nil /\ purge.pc = "row" /\ purge.key = k
Drawn(k) == k \in old \/ k < next
Once(k) == k \notin redrawn

\* Whatever is in use was drawn, in this runtime or in an earlier one.
Drawings ==
  /\ \A i \in Images : rows[i] # Nil => Drawn(rows[i])
  /\ \A u \in Uploads : Busy(u) => Drawn(up[u].key)
  /\ \A k \in doomed : Drawn(k)
  /\ purge # Nil => Drawn(purge.key)
  /\ redrawn \subseteq old
  /\ old # {} => restarts > 0

\* No two uses of a key that was drawn once meet, except that the purger works
\* on the row that it read.
KeyUses ==
  /\ \A i, j \in Images :
       rows[i] # Nil /\ Once(rows[i]) /\ rows[i] = rows[j] => i = j
  /\ \A u, v \in Uploads :
       Busy(u) /\ Busy(v) /\ Once(up[u].key) /\ up[u].key = up[v].key => u = v
  /\ \A i \in Images, u \in Uploads :
       Busy(u) /\ Once(up[u].key) => rows[i] # up[u].key
  /\ \A i \in Images, k \in doomed : Once(k) => rows[i] # k
  /\ \A u \in Uploads : Busy(u) /\ Once(up[u].key) => up[u].key \notin doomed
  /\ purge # Nil /\ Once(purge.key) =>
       /\ \A u \in Uploads : Busy(u) => up[u].key # purge.key
       /\ \A i \in Images : rows[i] = purge.key => i = purge.image

Held ==
  /\ \A i \in Images : rows[i] # Nil /\ Once(rows[i]) =>
       store[rows[i]] = i \/ AtRow(rows[i]) \/ i \in stranded
  /\ \A u \in Uploads : At(u, "record") /\ Once(up[u].key) =>
       store[up[u].key] = up[u].image

Unshared == Drawings /\ KeyUses /\ Held

LEMMA UnsharedInit == Init => Unshared
BY DEF Init, Unshared, Drawings, KeyUses, Held, Busy, At

LEMMA DrawingsNext == Basic /\ Drawings /\ [Next]_vars => Drawings'
<1> SUFFICES ASSUME Basic, Drawings, [Next]_vars PROVE Drawings'
  OBVIOUS
<1>t. TypeOK /\ Keyed
  BY DEF Basic
<1>n. /\ next \in Int /\ Nil \notin Keys /\ restarts \in Nat
      /\ \A k \in Keys : k \in Int
      /\ \A i \in Images : rows[i] # Nil => rows[i] \in Keys
  BY <1>t, BoundAssumption, NilAssumption DEF TypeOK, Keys
\* Steps that draw nothing: uses come only from uses.
<1>0. ASSUME UNCHANGED <<next, old, redrawn, restarts>>,
             \A i \in Images : rows'[i] # Nil => Drawn(rows'[i]),
             \A u \in Uploads : Busy(u)' => Busy(u) /\ up'[u].key = up[u].key,
             \A k \in doomed' : Drawn(k),
             purge' # Nil => Drawn(purge'.key)
      PROVE  Drawings'
  BY <1>0 DEF Drawings, Drawn
<1>u. UNCHANGED up =>
        \A u \in Uploads : Busy(u)' => Busy(u) /\ up'[u].key = up[u].key
  BY DEF Busy, At
<1>1. ASSUME NEW u \in Uploads, NEW i \in Images, Send(u, i) PROVE Drawings'
  <2>1. ~Busy(u)' /\ \A v \in Uploads : v # u => up'[v] = up[v]
    BY <1>t, <1>1, SendEffect DEF Becomes, Busy, At
  <2>2. \A v \in Uploads : Busy(v)' => Busy(v) /\ up'[v].key = up[v].key
    BY <2>1 DEF Busy, At
  <2> QED
    BY <1>0, <1>1, <2>2 DEF Send, history, Drawings
<1>2. ASSUME NEW u \in Uploads, Duplicate(u) \/ Refuse(u) \/ Put(u) \/ Record(u)
      PROVE  Drawings'
  <2>1. up[u] # Nil /\ (At(u, "check") \/ Busy(u))
    BY <1>2 DEF Duplicate, Refuse, Put, Record, At, Busy
  <2>2. \A v \in Uploads : Busy(v)' => Busy(v) /\ up'[v].key = up[v].key
    <3>1. CASE Done(u)
      BY <1>t, <3>1, DoneEffect DEF Busy, At
    <3>2. CASE Put(u) /\ up' = [up EXCEPT ![u].pc = "record"]
      BY <1>t, <2>1, <3>2, PutEffect DEF Becomes, Busy, At, Put
    <3> QED
      BY <1>2, <3>1, <3>2 DEF Duplicate, Refuse, Put, Record
  <2>3. \A i \in Images : rows'[i] # Nil => Drawn(rows'[i])
    <3>1. CASE UNCHANGED rows
      BY <3>1 DEF Drawings
    <3>2. CASE Record(u) /\ rows' = [rows EXCEPT ![up[u].image] = up[u].key]
      <4>1. Busy(u)
        BY <3>2 DEF Record, Busy
      <4> QED
        BY <1>t, <3>2, <4>1 DEF Drawings, TypeOK
    <3> QED
      BY <1>2, <3>1, <3>2 DEF Duplicate, Refuse, Put, Record
  <2> QED
    BY <1>0, <1>2, <2>2, <2>3 DEF Duplicate, Refuse, Put, Record, history, Drawings
<1>3. ASSUME NEW u \in Uploads, Draw(u) PROVE Drawings'
  <2>1. next \in Keys /\ next' = next + 1 /\ Becomes(u, "upload", up[u].image, next)
    BY <1>t, <1>3, DrawEffect
  <2>2. /\ UNCHANGED <<rows, doomed, purge, old, restarts>>
        /\ redrawn' \subseteq old'
    BY <1>3 DEF Draw, Drawings
  <2>3. \A k \in Keys : Drawn(k) \/ k = next => Drawn(k)'
    BY <1>n, <2>1, <2>2 DEF Drawn
  <2>4. /\ up'[u].key = next
        /\ \A v \in Uploads : v # u => /\ up'[v] = up[v]
                                       /\ Busy(v)' => Busy(v)
    BY <2>1 DEF Becomes, Busy, At
  <2>5. \A v \in Uploads : Busy(v)' => Drawn(up[v].key)'
    BY <1>t, <2>1, <2>3, <2>4 DEF Drawings, Keyed
  <2>6. /\ \A i \in Images : rows'[i] # Nil => Drawn(rows[i])'
        /\ \A k \in doomed' : Drawn(k)'
        /\ purge' # Nil => Drawn(purge.key)'
    BY <1>t, <1>n, <2>2, <2>3, PurgeFields DEF Drawings, TypeOK
  <2> QED
    BY <2>2, <2>5, <2>6 DEF Drawings
<1>4. ASSUME NEW i \in Images, BulkDelete(i) PROVE Drawings'
  BY <1>t, <1>0, <1>u, <1>4 DEF BulkDelete, TypeOK, Drawings
<1>5. ASSUME NEW i \in Images, PurgeTake(i) PROVE Drawings'
  BY <1>t, <1>0, <1>u, <1>5, TakeEffect DEF PurgeTake, Drawings, history
<1>6. ASSUME NEW k \in Keys, DeleteDoomed(k) PROVE Drawings'
  BY <1>0, <1>u, <1>6 DEF DeleteDoomed, Drawings, history
<1>7. CASE PurgeObject
  BY <1>t, <1>0, <1>u, <1>7, ToRowEffect DEF PurgeObject, Drawings, history
<1>8. CASE PurgeRow
  <2>1. \A i \in Images : rows'[i] # Nil => rows'[i] = rows[i]
    BY <1>8 DEF PurgeRow
  <2> QED
    BY <1>0, <1>u, <1>8, <2>1 DEF PurgeRow, Drawings
<1>9. CASE Restart
  <2>1. /\ old' = old \union {k \in Keys : k < next} /\ restarts' = restarts + 1
        /\ UNCHANGED <<rows, redrawn>> /\ doomed' = {} /\ purge' = Nil
        /\ up' = [u \in Uploads |-> Nil]
    BY <1>9 DEF Restart
  <2>2. \A k \in Keys : Drawn(k) => Drawn(k)'
    BY <2>1 DEF Drawn
  <2>3. restarts' > 0 /\ \A u \in Uploads : ~Busy(u)'
    BY <1>n, <2>1 DEF Busy, At
  <2> QED
    BY <1>n, <2>1, <2>2, <2>3 DEF Drawings
<1>10. CASE UNCHANGED vars
  BY <1>0, <1>u, <1>10 DEF vars, history, Drawings
<1> QED
  BY <1>1, <1>2, <1>3, <1>4, <1>5, <1>6, <1>7, <1>8, <1>9, <1>10 DEF Next, Step

LEMMA UsesNext == Basic /\ Unshared /\ [Next]_vars => (KeyUses /\ Held)'
<1> SUFFICES ASSUME Basic, Unshared, [Next]_vars PROVE (KeyUses /\ Held)'
  OBVIOUS
<1>t. TypeOK /\ Keyed
  BY DEF Basic
<1>i. Drawings /\ KeyUses /\ Held
  BY DEF Unshared
<1>n. /\ next \in Int /\ Keys \subseteq Int /\ Nil \notin Keys
  BY <1>t, BoundAssumption, NilAssumption DEF TypeOK, Keys
<1>k. /\ \A i \in Images : rows[i] # Nil => rows[i] \in Keys
      /\ doomed \subseteq Keys
  BY <1>t DEF TypeOK
\* Requests that come to no key, with the shots as they were.
<1>0. ASSUME UNCHANGED <<rows, store, doomed, purge, redrawn, stranded>>,
             NEW u \in Uploads, ~Busy(u)', \A v \in Uploads : v # u => up'[v] = up[v]
      PROVE  (KeyUses /\ Held)'
  <2>1. \A v \in Uploads : Busy(v)' => Busy(v) /\ up'[v] = up[v]
    BY <1>0 DEF Busy, At
  <2>2. \A v \in Uploads : At(v, "record")' => At(v, "record") /\ up'[v] = up[v]
    BY <1>0, <2>1 DEF Busy, At
  <2>3. KeyUses'
    BY <1>0, <1>i, <2>1 DEF KeyUses, Once
  <2>4. Held'
    BY <1>0, <1>i, <2>2 DEF Held, AtRow, Once
  <2> QED
    BY <2>3, <2>4
<1>1. ASSUME NEW u \in Uploads, NEW i \in Images, Send(u, i)
      PROVE  (KeyUses /\ Held)'
  <2>1. Becomes(u, "check", i, Nil)
    BY <1>t, <1>1, SendEffect
  <2>2. ~Busy(u)' /\ \A v \in Uploads : v # u => up'[v] = up[v]
    BY <2>1 DEF Becomes, Busy, At
  <2> QED
    BY <1>0, <1>1, <2>2 DEF Send, history
<1>2. ASSUME NEW u \in Uploads, Duplicate(u) \/ Refuse(u)
      PROVE  (KeyUses /\ Held)'
  <2>1. UNCHANGED <<rows, store, doomed, purge, redrawn, stranded>> /\ Done(u)
    BY <1>2 DEF Duplicate, Refuse, history
  <2>2. ~Busy(u)' /\ \A v \in Uploads : v # u => up'[v] = up[v]
    BY <1>t, <2>1, DoneEffect DEF Busy, At
  <2> QED
    BY <1>0, <2>1, <2>2
\* A key that was never drawn is in no use; one that was is no longer one that
\* was drawn once.
<1>3. ASSUME NEW u \in Uploads, Draw(u) PROVE (KeyUses /\ Held)'
  <2>1. next \in Keys /\ next' = next + 1 /\ Becomes(u, "upload", up[u].image, next)
    BY <1>t, <1>3, DrawEffect
  <2>2. UNCHANGED <<rows, store, doomed, purge, stranded>>
    BY <1>3 DEF Draw
  <2>3. Busy(u)' /\ up'[u].key = next /\ ~At(u, "record")'
    BY <2>1 DEF Becomes, Busy, At
  <2>4. \A v \in Uploads : v # u => up'[v] = up[v]
    BY <2>1 DEF Becomes
  <2>5. \A v \in Uploads : v # u => /\ Busy(v)' <=> Busy(v)
                                    /\ At(v, "record")' <=> At(v, "record")
    BY <2>4 DEF Busy, At
  <2>6. /\ \A k \in Keys : Once(k)' => Once(k)
        /\ next \notin redrawn' => next \notin old
    BY <1>3 DEF Draw, Once
  <2>7. ~(next < next) /\ next # Nil
    BY <1>n, <2>1
  <2>8. next \notin redrawn' =>
          /\ \A v \in Uploads : Busy(v) => up[v].key # next
          /\ \A i \in Images : rows[i] # next
          /\ next \notin doomed
          /\ purge # Nil => purge.key # next
    BY <1>i, <2>6, <2>7 DEF Drawings, Drawn
  <2>9. /\ \A i \in Images : rows[i] # Nil /\ Once(rows[i])' => Once(rows[i])
        /\ \A v \in Uploads : v # u /\ Busy(v) /\ Once(up[v].key)' => Once(up[v].key)
        /\ \A k \in doomed : Once(k)' => Once(k)
        /\ purge # Nil /\ Once(purge.key)' => Once(purge.key)
    BY <1>t, <1>k, <2>2, <2>4, <2>6, PurgeFields DEF Keyed
  <2>10. /\ \A i, j \in Images :
              rows[i] # Nil /\ Once(rows[i])' /\ rows[i] = rows[j] => i = j
         /\ \A i \in Images, k \in doomed : Once(k)' => rows[i] # k
    BY <1>i, <2>9 DEF KeyUses
  <2>11. \A v, w \in Uploads :
           Busy(v)' /\ Busy(w)' /\ Once(up[v].key)' /\ up'[v].key = up'[w].key
             => v = w
    <3> SUFFICES ASSUME NEW v \in Uploads, NEW w \in Uploads, v # w,
                        Busy(v)', Busy(w)', Once(up[v].key)',
                        up'[v].key = up'[w].key
                 PROVE  FALSE
      OBVIOUS
    <3>1. CASE v # u /\ w # u
      BY <1>i, <2>4, <2>5, <2>9, <3>1 DEF KeyUses
    <3>2. CASE v = u \/ w = u
      <4>1. next \notin redrawn'
        BY <2>3, <3>2 DEF Once
      <4>2. PICK x \in Uploads : x # u /\ Busy(x) /\ up[x].key = next
        BY <2>3, <2>4, <2>5, <3>2
      <4> QED
        BY <2>8, <4>1, <4>2
    <3> QED
      BY <3>1, <3>2
  <2>12. \A v \in Uploads : Busy(v)' /\ Once(up[v].key)' =>
           /\ up'[v].key \notin doomed
           /\ \A i \in Images : rows[i] # up'[v].key
    <3> SUFFICES ASSUME NEW v \in Uploads, Busy(v)', Once(up[v].key)'
                 PROVE  /\ up'[v].key \notin doomed
                        /\ \A i \in Images : rows[i] # up'[v].key
      OBVIOUS
    <3>1. CASE v = u
      <4>1. up'[v].key = next /\ next \notin redrawn'
        BY <2>3, <3>1 DEF Once
      <4> QED
        BY <2>8, <4>1
    <3>2. CASE v # u
      BY <1>i, <2>4, <2>5, <2>9, <3>2 DEF KeyUses
    <3> QED
      BY <3>1, <3>2
  <2>13. purge # Nil /\ Once(purge.key)' =>
           /\ \A v \in Uploads : Busy(v)' => up'[v].key # purge.key
           /\ \A i \in Images : rows[i] = purge.key => i = purge.image
    <3> SUFFICES ASSUME purge # Nil, Once(purge.key)'
                 PROVE  /\ \A v \in Uploads : Busy(v)' => up'[v].key # purge.key
                        /\ \A i \in Images : rows[i] = purge.key => i = purge.image
      OBVIOUS
    <3>1. Once(purge.key)
      BY <2>9
    <3>2. purge.key # next
      <4>1. purge.key = next => next \notin redrawn'
        BY <2>2 DEF Once
      <4> QED
        BY <2>8, <4>1
    <3> QED
      BY <1>i, <2>3, <2>4, <2>5, <3>1, <3>2 DEF KeyUses
  <2>14. KeyUses'
    BY <2>2, <2>10, <2>11, <2>12, <2>13 DEF KeyUses
  <2>15. Held'
    BY <1>i, <2>2, <2>3, <2>4, <2>5, <2>9 DEF Held, AtRow, Busy
  <2> QED
    BY <2>14, <2>15
<1>4. ASSUME NEW u \in Uploads, Put(u) PROVE (KeyUses /\ Held)'
  <2>1. /\ UNCHANGED <<rows, doomed, purge, redrawn, stranded>> /\ At(u, "upload")
        /\ up[u] # Nil /\ up[u].key \in Keys /\ up[u].image \in Images
    BY <1>t, <1>4, RequestFields DEF Put, Keyed, Busy, At, history
  <2>2. CASE Done(u) /\ UNCHANGED store
    <3>1. ~Busy(u)' /\ \A v \in Uploads : v # u => up'[v] = up[v]
      BY <1>t, <2>2, DoneEffect DEF Busy, At
    <3> QED
      BY <1>0, <2>1, <2>2, <3>1
  <2>3. CASE /\ store' = [store EXCEPT ![up[u].key] = up[u].image]
             /\ up' = [up EXCEPT ![u].pc = "record"]
    <3>1. Becomes(u, "record", up[u].image, up[u].key)
      BY <1>t, <2>1, <2>3, PutEffect
    <3>2. \A v \in Uploads : /\ Busy(v)' <=> Busy(v)
                             /\ Busy(v) => up'[v].key = up[v].key
                             /\ Busy(v) => up'[v].image = up[v].image
                             /\ v # u => (At(v, "record")' <=> At(v, "record"))
      BY <2>1, <3>1 DEF Becomes, Busy, At
    <3>3. KeyUses'
      BY <1>i, <2>1, <3>2 DEF KeyUses, Once
    <3>4. store'[up[u].key] = up[u].image /\ \A k \in Keys : k # up[u].key => store'[k] = store[k]
      BY <1>t, <2>1, <2>3 DEF TypeOK
    <3>5. Busy(u) /\ (Once(up[u].key) => \A i \in Images : rows[i] # up[u].key)
      BY <1>i, <2>1 DEF Busy, KeyUses
    <3>6. \A i \in Images : rows'[i] # Nil /\ Once(rows[i])' =>
            store'[rows'[i]] = i \/ AtRow(rows[i])' \/ i \in stranded'
      BY <1>i, <1>k, <2>1, <3>4, <3>5 DEF Held, AtRow, Once
    <3>7. ASSUME NEW v \in Uploads, At(v, "record")', Once(up[v].key)'
          PROVE  store'[up'[v].key] = up'[v].image
      <4>1. CASE v = u
        BY <3>1, <3>4, <4>1 DEF Becomes
      <4>2. CASE v # u
        <5>1. At(v, "record") /\ Busy(v) /\ Once(up[v].key)
          BY <2>1, <3>2, <3>7, <4>2 DEF Busy, Once
        <5>2. up[v].key # up[u].key /\ up[v].key \in Keys
          BY <1>t, <1>i, <3>5, <4>2, <5>1 DEF KeyUses, Keyed
        <5> QED
          BY <1>i, <3>2, <3>4, <5>1, <5>2 DEF Held
      <4> QED
        BY <4>1, <4>2
    <3> QED
      BY <3>3, <3>6, <3>7 DEF Held
  <2> QED
    BY <1>4, <2>2, <2>3 DEF Put
<1>5. ASSUME NEW u \in Uploads, Record(u) PROVE (KeyUses /\ Held)'
  <2>1. /\ UNCHANGED <<store, doomed, purge, redrawn, stranded>> /\ Done(u)
        /\ At(u, "record") /\ Busy(u) /\ up[u].key \in Keys /\ up[u].image \in Images
    BY <1>t, <1>5, RequestFields DEF Record, Keyed, Busy, At, history
  <2>2. /\ ~Busy(u)' /\ \A v \in Uploads : v # u => up'[v] = up[v]
    BY <1>t, <2>1, DoneEffect DEF Busy, At
  <2>3. \A v \in Uploads : Busy(v)' => Busy(v) /\ up'[v] = up[v] /\ v # u
    BY <2>2 DEF Busy, At
  <2>4. CASE UNCHANGED rows
    BY <1>0, <2>1, <2>2, <2>4
  <2>5. CASE rows[up[u].image] = Nil /\ rows' = [rows EXCEPT ![up[u].image] = up[u].key]
    <3>1. /\ rows'[up[u].image] = up[u].key
          /\ \A i \in Images : i # up[u].image => rows'[i] = rows[i]
      BY <1>t, <2>1, <2>5 DEF TypeOK
    <3>2. Once(up[u].key) =>
            /\ up[u].key \notin doomed
            /\ \A i \in Images : rows[i] # up[u].key
            /\ \A v \in Uploads : Busy(v)' => up[v].key # up[u].key
            /\ purge # Nil => up[u].key # purge.key
            /\ store[up[u].key] = up[u].image
      BY <1>i, <2>1, <2>3 DEF KeyUses, Held
    <3>3. KeyUses'
      BY <1>i, <2>1, <2>3, <3>1, <3>2 DEF KeyUses, Once
    <3>4. \A i \in Images : rows'[i] # Nil /\ Once(rows[i])' =>
            store'[rows'[i]] = i \/ AtRow(rows[i])' \/ i \in stranded'
      BY <1>i, <2>1, <3>1, <3>2 DEF Held, AtRow, Once
    <3>5. \A v \in Uploads : At(v, "record")' /\ Once(up[v].key)' =>
            store'[up'[v].key] = up'[v].image
      BY <1>i, <2>1, <2>3 DEF Held, Busy, At, Once
    <3> QED
      BY <3>3, <3>4, <3>5 DEF Held
  <2> QED
    BY <1>5, <2>4, <2>5 DEF Record
\* Deletions leave the requests alone.
<1>u. ASSUME UNCHANGED up
      PROVE  \A u \in Uploads : /\ Busy(u)' <=> Busy(u)
                                /\ At(u, "record")' <=> At(u, "record")
  BY <1>u DEF Busy, At
<1>6. ASSUME NEW i \in Images, BulkDelete(i) PROVE (KeyUses /\ Held)'
  <2>1. /\ UNCHANGED <<store, up, purge, redrawn>> /\ rows[i] # Nil
        /\ doomed' = doomed \union {rows[i]} /\ stranded' = stranded \ {i}
        /\ rows' = [rows EXCEPT ![i] = Nil]
    BY <1>6 DEF BulkDelete
  <2>2. /\ rows'[i] = Nil /\ \A j \in Images : j # i => rows'[j] = rows[j]
    BY <1>t, <2>1 DEF TypeOK
  <2>3. Once(rows[i]) =>
          /\ \A j \in Images : rows'[j] # rows[i]
          /\ \A u \in Uploads : Busy(u) => up[u].key # rows[i]
    BY <1>i, <2>1, <2>2 DEF KeyUses
  <2>4. \A j \in Images, k \in doomed' : Once(k) => rows'[j] # k
    BY <1>i, <1>k, <1>n, <2>1, <2>2, <2>3 DEF KeyUses
  <2>5. purge # Nil => purge.key # Nil
    BY <1>t, <1>n, PurgeFields
  <2>6. KeyUses'
    <3>1. /\ \A j \in Images : rows'[j] # Nil => rows'[j] = rows[j]
          /\ \A k \in doomed' : k \in doomed \/ k = rows[i]
      BY <2>1, <2>2
    <3>2. /\ \A j, l \in Images :
               rows'[j] # Nil /\ Once(rows'[j]) /\ rows'[j] = rows'[l] => j = l
          /\ \A u \in Uploads :
               Busy(u) /\ Once(up[u].key) => up[u].key \notin doomed'
      BY <1>i, <2>3, <3>1 DEF KeyUses
    <3>3. /\ \A j \in Images, u \in Uploads :
               Busy(u) /\ Once(up[u].key) => rows'[j] # up[u].key
          /\ purge # Nil /\ Once(purge.key) =>
               \A j \in Images : rows'[j] = purge.key => j = purge.image
      BY <1>i, <1>t, <1>n, <2>5, <3>1 DEF KeyUses, Keyed
    <3> QED
      BY <1>i, <1>u, <2>1, <2>4, <3>2, <3>3 DEF KeyUses, Once
  <2>7. Held'
    BY <1>i, <1>u, <2>1, <2>2 DEF Held, AtRow, Once
  <2> QED
    BY <2>6, <2>7
<1>7. ASSUME NEW i \in Images, PurgeTake(i) PROVE (KeyUses /\ Held)'
  <2>1. /\ UNCHANGED <<rows, store, up, doomed, redrawn, stranded>>
        /\ purge = Nil /\ rows[i] # Nil
        /\ purge'.pc = "object" /\ purge'.image = i /\ purge'.key = rows[i]
    BY <1>t, <1>7, TakeEffect DEF PurgeTake, history
  <2>2. KeyUses'
    BY <1>i, <1>u, <2>1 DEF KeyUses, Once
  <2>3. Held'
    BY <1>i, <1>u, <2>1 DEF Held, AtRow, Once
  <2> QED
    BY <2>2, <2>3
<1>8. ASSUME NEW k \in Keys, DeleteDoomed(k) PROVE (KeyUses /\ Held)'
  <2>1. /\ UNCHANGED <<rows, up, purge, redrawn, stranded>> /\ k \in doomed
        /\ doomed' = doomed \ {k} /\ store' = [store EXCEPT ![k] = Nil]
    BY <1>8 DEF DeleteDoomed, history
  <2>2. \A l \in Keys : l # k => store'[l] = store[l]
    BY <1>t, <2>1 DEF TypeOK
  <2>3. KeyUses'
    BY <1>i, <1>u, <2>1 DEF KeyUses, Once
  <2>4. Once(k) => \A i \in Images : rows[i] # k
    BY <1>i, <2>1 DEF KeyUses
  <2>5. \A u \in Uploads : Busy(u) =>
          up[u].key \in Keys /\ (Once(up[u].key) => up[u].key # k)
    BY <1>i, <1>t, <2>1 DEF KeyUses, Keyed
  <2>6. \A i \in Images : rows'[i] # Nil /\ Once(rows[i])' =>
          store'[rows'[i]] = i \/ AtRow(rows[i])' \/ i \in stranded'
    BY <1>i, <1>k, <2>1, <2>2, <2>4 DEF Held, AtRow, Once
  <2>7. \A u \in Uploads : At(u, "record")' /\ Once(up[u].key)' =>
          store'[up'[u].key] = up'[u].image
    BY <1>i, <1>u, <2>1, <2>2, <2>5 DEF Held, Busy, Once
  <2> QED
    BY <2>3, <2>6, <2>7 DEF Held
<1>9. CASE PurgeObject
  <2>1. /\ UNCHANGED <<rows, up, doomed, redrawn, stranded>>
        /\ purge # Nil /\ purge.pc = "object"
    BY <1>9 DEF PurgeObject, history
  <2>2. \A i \in Images : rows[i] # Nil /\ Once(rows[i]) =>
          store[rows[i]] = i \/ i \in stranded
    BY <1>i, <2>1 DEF Held, AtRow
  <2>3. CASE purge' = Nil /\ UNCHANGED store
    <3>1. KeyUses'
      BY <1>i, <1>u, <2>1, <2>3 DEF KeyUses, Once
    <3>2. Held'
      BY <1>i, <1>u, <2>1, <2>2, <2>3 DEF Held, Once
    <3> QED
      BY <3>1, <3>2
  <2>4. CASE /\ store' = [store EXCEPT ![purge.key] = Nil]
             /\ purge' = [purge EXCEPT !.pc = "row"]
    <3>1. /\ purge' # Nil /\ purge'.pc = "row"
          /\ purge'.image = purge.image /\ purge'.key = purge.key
      BY <1>t, <2>1, <2>4, ToRowEffect
    <3>2. \A l \in Keys : l # purge.key => store'[l] = store[l]
      BY <1>t, <2>1, <2>4, PurgeFields DEF TypeOK
    <3>3. KeyUses'
      BY <1>i, <1>u, <2>1, <3>1 DEF KeyUses, Once
    <3>4. \A u \in Uploads : Busy(u) =>
            up[u].key \in Keys /\ (Once(up[u].key) => up[u].key # purge.key)
      BY <1>i, <1>t, <2>1 DEF KeyUses, Keyed
    <3>5. \A i \in Images : rows'[i] # Nil /\ Once(rows[i])' =>
            store'[rows'[i]] = i \/ AtRow(rows[i])' \/ i \in stranded'
      BY <1>k, <2>1, <2>2, <3>1, <3>2 DEF AtRow, Once
    <3>6. \A u \in Uploads : At(u, "record")' /\ Once(up[u].key)' =>
            store'[up'[u].key] = up'[u].image
      BY <1>i, <1>u, <2>1, <3>2, <3>4 DEF Held, Busy, Once
    <3> QED
      BY <3>3, <3>5, <3>6 DEF Held
  <2> QED
    BY <1>9, <2>3, <2>4 DEF PurgeObject
\* The row that the purger is at goes, or is left stranded.
<1>p. \A i \in Images : rows[i] # Nil /\ Once(rows[i]) /\ AtRow(rows[i]) => i \in Leaving
  BY <1>i DEF KeyUses, AtRow, Leaving
<1>10. CASE PurgeRow
  <2>1. /\ UNCHANGED <<store, up, doomed, redrawn>> /\ purge' = Nil
        /\ \A i \in Images : rows'[i] # Nil => rows'[i] = rows[i]
        /\ \A i \in Images : rows'[i] # Nil /\ (i \in stranded \/ i \in Leaving)
                               => i \in stranded'
    BY <1>10 DEF PurgeRow
  <2>2. KeyUses'
    <3>1. \A i, j \in Images :
            rows'[i] # Nil /\ Once(rows'[i]) /\ rows'[i] = rows'[j] => i = j
      BY <1>i, <2>1 DEF KeyUses
    <3>2. \A i \in Images, u \in Uploads :
            Busy(u)' /\ Once(up[u].key) => rows'[i] # up'[u].key
      BY <1>i, <1>t, <1>n, <1>u, <2>1 DEF KeyUses, Keyed
    <3>3. \A i \in Images, k \in doomed' : Once(k) => rows'[i] # k
      BY <1>i, <1>k, <1>n, <2>1 DEF KeyUses
    <3> QED
      BY <1>i, <1>u, <2>1, <3>1, <3>2, <3>3 DEF KeyUses, Once
  <2>3. Held'
    BY <1>i, <1>p, <1>u, <2>1 DEF Held, AtRow, Once
  <2> QED
    BY <2>2, <2>3
<1>11. CASE Restart
  <2>1. /\ UNCHANGED <<rows, store, redrawn>> /\ doomed' = {} /\ purge' = Nil
        /\ stranded' = stranded \union Leaving
        /\ \A u \in Uploads : up'[u] = Nil
    BY <1>11 DEF Restart
  <2>2. \A u \in Uploads : ~Busy(u)' /\ ~At(u, "record")'
    BY <2>1 DEF Busy, At
  <2>3. KeyUses'
    BY <1>i, <2>1, <2>2 DEF KeyUses, Once
  <2>4. Held'
    BY <1>i, <1>p, <2>1, <2>2 DEF Held, Once
  <2> QED
    BY <2>3, <2>4
<1>12. CASE UNCHANGED vars
  BY <1>i, <1>12 DEF vars, history, KeyUses, Held, Busy, At, AtRow, Once
<1> QED
  BY <1>1, <1>2, <1>3, <1>4, <1>5, <1>6, <1>7, <1>8, <1>9, <1>10, <1>11, <1>12
  DEF Next, Step

LEMMA UnsharedNext == Basic /\ Unshared /\ [Next]_vars => Unshared'
BY DrawingsNext, UsesNext DEF Unshared

-----------------------------------------------------------------------------
(***************************************************************************)
(* The archive: what a step does to the images that are kept and served.    *)
(***************************************************************************)
ArchiveSame == UNCHANGED <<Kept, told, Served, OnItsWayOut, restarts>>

LEMMA SameIsStep == ArchiveSame => [Archive!ArchiveNext]_Archive!archiveVars
BY DEF ArchiveSame, Archive!archiveVars

LEMMA ShotsSame ==
  UNCHANGED <<rows, store, purge, redrawn>> => UNCHANGED <<Kept, Served, OnItsWayOut>>
BY DEF Kept, Served, OnItsWayOut, Leaving

\* The purger is at one row at most.
LEMMA OneLeaving ==
  /\ \A i \in Leaving : Leaving = {i} /\ purge # Nil /\ purge.pc = "row"
  /\ OnItsWayOut \subseteq Leaving
BY DEF Leaving, OnItsWayOut

\* The row of one image goes, with the promise that it was kept.
LEMMA RowGoes ==
  ASSUME NEW i \in Images, rows[i] # Nil, rows'[i] = Nil,
         \A j \in Images : j # i => rows'[j] = rows[j],
         told' = told \ {i}, UNCHANGED <<store, redrawn, restarts>>,
         OnItsWayOut' = OnItsWayOut \ {i}
  PROVE  Archive!Delete(i)
<1>1. i \in Kept /\ Kept' = Kept \ {i} /\ Served' = Served \ {i}
  BY DEF Kept, Served
<1> QED
  BY <1>1 DEF Archive!Delete

\* A key that no row has, or that was drawn twice, may be stored and deleted.
LEMMA OtherObject ==
  ASSUME TypeOK, NEW k \in Keys, NEW o, Once(k) => \A i \in Images : rows[i] # k,
         store' = [store EXCEPT ![k] = o], UNCHANGED <<rows, redrawn>>
  PROVE  UNCHANGED <<Kept, Served>>
<1>1. \A l \in Keys : l # k => store'[l] = store[l]
  BY DEF TypeOK
<1>2. \A i \in Images : rows[i] # Nil => rows[i] \in Keys
  BY DEF TypeOK
<1>3. \A i \in Kept : rows[i] \notin redrawn => store'[rows'[i]] = store[rows[i]]
  BY <1>1, <1>2 DEF Kept, Once
<1> QED
  BY <1>3 DEF Kept, Served

LEMMA ArchiveStart == Init => Archive!ArchiveInit
<1> SUFFICES ASSUME Init PROVE Archive!ArchiveInit
  OBVIOUS
<1>1. Kept = {} /\ Served = {} /\ OnItsWayOut = {}
  BY DEF Init, Kept, Served, OnItsWayOut, Leaving
<1>2. told = {} /\ (restarts > 0) = FALSE
  BY DEF Init
<1> QED
  BY <1>1, <1>2 DEF Archive!ArchiveInit

LEMMA ArchiveStep ==
  ASSUME Basic, Unshared, [Next]_vars
  PROVE  [Archive!ArchiveNext]_Archive!archiveVars
<1> DEFINE Result == [Archive!ArchiveNext]_Archive!archiveVars
<1>t. TypeOK /\ Keyed
  BY DEF Basic
<1>r. restarts \in Nat
  BY <1>t DEF TypeOK
<1>i. Drawings /\ KeyUses /\ Held
  BY DEF Unshared
<1>0. ASSUME NEW i \in Images,
             Archive!Keep(i) \/ Archive!Confirm(i) \/ Archive!Withdraw(i) \/ Archive!Delete(i)
      PROVE  Result
  BY <1>0 DEF Archive!ArchiveNext
<1>00. ASSUME Archive!Abandon \/ Archive!Interrupt \/ Archive!Doubt
       PROVE  Result
  BY <1>00 DEF Archive!ArchiveNext
<1>s. ASSUME UNCHANGED <<rows, store, purge, redrawn, told, restarts>> PROVE Result
  BY <1>s, ShotsSame, SameIsStep DEF ArchiveSame
<1>1. ASSUME NEW u \in Uploads, NEW i \in Images, Send(u, i) PROVE Result
  BY <1>s, <1>1 DEF Send, history
<1>2. ASSUME NEW u \in Uploads, Duplicate(u) PROVE Result
  <2>1. /\ up[u].image \in Images /\ rows[up[u].image] # Nil
        /\ told' = told \union {up[u].image}
        /\ UNCHANGED <<rows, store, purge, redrawn, restarts>>
    BY <1>t, <1>2, RequestFields DEF Duplicate, At, history
  <2>2. UNCHANGED <<Kept, Served, OnItsWayOut>> /\ up[u].image \in Kept
    BY <2>1, ShotsSame DEF Kept
  <2>3. Archive!Confirm(up[u].image)
    BY <2>1, <2>2 DEF Archive!Confirm
  <2> QED
    BY <1>0, <2>1, <2>3
<1>3. ASSUME NEW u \in Uploads, Refuse(u) PROVE Result
  BY <1>s, <1>3 DEF Refuse, history
\* A key of an earlier runtime is drawn again: what its row leads to is open.
<1>4. ASSUME NEW u \in Uploads, Draw(u) PROVE Result
  <2>1. UNCHANGED <<rows, store, purge, told, restarts>>
    BY <1>4 DEF Draw
  <2>2. CASE next \notin old
    <3>1. UNCHANGED redrawn
      BY <1>4, <2>2 DEF Draw
    <3> QED
      BY <1>s, <2>1, <3>1
  <2>3. CASE next \in old
    <3>1. restarts > 0 /\ redrawn \subseteq redrawn'
      BY <1>4, <1>i, <2>3 DEF Draw, Drawings
    <3>2. UNCHANGED Kept /\ Served' \subseteq Served /\ OnItsWayOut' \subseteq OnItsWayOut
      BY <2>1, <3>1 DEF Kept, Served, OnItsWayOut, Leaving
    <3>3. Archive!Doubt
      BY <2>1, <3>1, <3>2 DEF Archive!Doubt
    <3> QED
      BY <1>00, <3>3
  <2> QED
    BY <2>2, <2>3
<1>5. ASSUME NEW k \in Keys, NEW o, store' = [store EXCEPT ![k] = o],
             Once(k) => \A i \in Images : rows[i] # k,
             UNCHANGED <<rows, purge, redrawn, told, restarts>>
      PROVE  Result
  <2>1. UNCHANGED <<Kept, Served, OnItsWayOut>>
    BY <1>t, <1>5, OtherObject DEF OnItsWayOut, Leaving
  <2> QED
    BY <1>5, <2>1, SameIsStep DEF ArchiveSame
<1>6. ASSUME NEW u \in Uploads, Put(u) PROVE Result
  <2>1. /\ UNCHANGED <<rows, purge, redrawn, told, restarts>>
        /\ Busy(u) /\ up[u].key \in Keys
    BY <1>t, <1>6 DEF Put, Keyed, Busy, history
  <2>2. CASE UNCHANGED store
    BY <1>s, <2>1, <2>2
  <2>3. CASE store' = [store EXCEPT ![up[u].key] = up[u].image]
    <3>1. Once(up[u].key) => \A i \in Images : rows[i] # up[u].key
      BY <1>i, <2>1 DEF KeyUses
    <3> QED
      BY <1>5, <2>1, <2>3, <3>1
  <2> QED
    BY <1>6, <2>2, <2>3 DEF Put
<1>7. ASSUME NEW u \in Uploads, Record(u) PROVE Result
  <2> DEFINE i == up[u].image
             k == up[u].key
  <2>1. /\ i \in Images /\ k \in Keys /\ At(u, "record") /\ Busy(u)
        /\ UNCHANGED <<store, purge, redrawn, restarts>>
    BY <1>t, <1>7, RequestFields DEF Record, Keyed, Busy, At, history
  <2>2. CASE UNCHANGED <<rows, told>>
    BY <1>s, <2>1, <2>2
  <2>3. CASE /\ rows[i] = Nil /\ rows' = [rows EXCEPT ![i] = k]
             /\ told' = told \union {i}
    <3>1. /\ rows'[i] = k /\ k # Nil
          /\ \A j \in Images : j # i => rows'[j] = rows[j]
      BY <1>t, <2>1, <2>3, NilAssumption DEF TypeOK, Keys
    <3>2. i \notin Kept /\ Kept' = Kept \union {i}
      BY <2>1, <2>3, <3>1 DEF Kept
    <3>3. Once(k) => store'[k] = i
      BY <1>i, <2>1 DEF Held
    <3>4. CASE Once(k)
      <4>1. Served' = Served \union {i}
        BY <2>1, <2>3, <3>1, <3>2, <3>3, <3>4 DEF Served, Kept, Once
      <4>2. purge # Nil => purge.key # k /\ purge.key # Nil
        BY <1>i, <1>t, <2>1, <3>4, PurgeFields, NilAssumption DEF KeyUses, Keys
      <4>3. UNCHANGED OnItsWayOut
        BY <2>1, <2>3, <3>1, <4>2 DEF OnItsWayOut, Leaving
      <4>4. Archive!Keep(i)
        BY <2>1, <2>3, <3>2, <4>1, <4>3 DEF Archive!Keep
      <4> QED
        BY <1>0, <2>1, <4>4
    <3>5. CASE ~Once(k)
      <4>1. restarts > 0
        BY <1>i, <3>5 DEF Drawings, Once
      <4>2. UNCHANGED Served
        BY <2>1, <2>3, <3>1, <3>5 DEF Served, Kept, Once
      <4>3. purge # Nil => purge.key # Nil
        BY <1>t, PurgeFields, NilAssumption DEF Keys
      <4>4. UNCHANGED OnItsWayOut
        BY <2>1, <2>3, <3>1, <3>5, <4>3 DEF OnItsWayOut, Leaving, Once
      <4>5. Archive!Keep(i)
        BY <2>1, <2>3, <3>2, <4>1, <4>2, <4>4 DEF Archive!Keep
      <4> QED
        BY <1>0, <2>1, <4>5
    <3> QED
      BY <3>4, <3>5
  <2> QED
    BY <1>7, <2>2, <2>3 DEF Record
<1>8. ASSUME NEW i \in Images, BulkDelete(i) PROVE Result
  <2>1. /\ rows[i] # Nil /\ rows' = [rows EXCEPT ![i] = Nil] /\ told' = told \ {i}
        /\ UNCHANGED <<store, purge, redrawn, restarts>>
    BY <1>8 DEF BulkDelete
  <2>2. rows'[i] = Nil /\ \A j \in Images : j # i => rows'[j] = rows[j]
    BY <1>t, <2>1 DEF TypeOK
  <2>3. purge # Nil => purge.key # Nil
    BY <1>t, PurgeFields, NilAssumption DEF Keys
  <2>4. OnItsWayOut' = OnItsWayOut \ {i}
    BY <2>1, <2>2, <2>3 DEF OnItsWayOut, Leaving
  <2>5. Archive!Delete(i)
    BY <2>1, <2>2, <2>4, RowGoes
  <2> QED
    BY <1>0, <2>5
<1>9. ASSUME NEW i \in Images, PurgeTake(i) PROVE Result
  <2>1. /\ UNCHANGED <<rows, store, redrawn, told, restarts>>
        /\ purge = Nil /\ purge' # Nil /\ purge'.pc = "object"
    BY <1>t, <1>9, TakeEffect DEF PurgeTake, history
  <2>2. UNCHANGED <<Kept, Served, OnItsWayOut>>
    BY <2>1 DEF Kept, Served, OnItsWayOut, Leaving
  <2> QED
    BY <2>1, <2>2, SameIsStep DEF ArchiveSame
<1>10. ASSUME NEW k \in Keys, DeleteDoomed(k) PROVE Result
  <2>1. /\ UNCHANGED <<rows, purge, redrawn, told, restarts>> /\ k \in doomed
        /\ store' = [store EXCEPT ![k] = Nil]
    BY <1>10 DEF DeleteDoomed, history
  <2>2. Once(k) => \A i \in Images : rows[i] # k
    BY <1>i, <2>1 DEF KeyUses
  <2> QED
    BY <1>5, <2>1, <2>2
<1>11. CASE PurgeObject
  <2> DEFINE i == purge.image
             k == purge.key
  <2>1. /\ i \in Images /\ k \in Keys /\ purge # Nil /\ purge.pc = "object"
        /\ UNCHANGED <<rows, redrawn, told, restarts>>
    BY <1>t, <1>11, PurgeFields DEF PurgeObject, history
  <2>2. OnItsWayOut = {}
    BY <2>1 DEF OnItsWayOut, Leaving
  <2>3. CASE UNCHANGED store /\ purge' = Nil
    <3>1. UNCHANGED <<Kept, Served, OnItsWayOut>>
      BY <2>1, <2>2, <2>3 DEF Kept, Served, OnItsWayOut, Leaving
    <3> QED
      BY <2>1, <3>1, SameIsStep DEF ArchiveSame
  <2>4. CASE store' = [store EXCEPT ![k] = Nil] /\ purge' = [purge EXCEPT !.pc = "row"]
    <3>1. purge' # Nil /\ purge'.pc = "row" /\ purge'.image = i /\ purge'.key = k
      BY <1>t, <2>1, <2>4, ToRowEffect
    <3>2. Once(k) => \A j \in Images : rows[j] = k => j = i
      BY <1>i, <2>1 DEF KeyUses
    <3>3. CASE rows[i] = k /\ Once(k)
      <4>1. store'[k] = Nil /\ \A l \in Keys : l # k => store'[l] = store[l]
        BY <1>t, <2>1, <2>4 DEF TypeOK
      <4>2. i \in Kept /\ Kept' = Kept
        BY <2>1, <3>3, NilAssumption DEF Kept, Keys
      <4>3. \A j \in Kept : j # i => store'[rows'[j]] = store[rows[j]]
        BY <1>t, <2>1, <3>2, <3>3, <4>1 DEF Kept, TypeOK
      <4>4. store'[rows'[i]] # i
        BY <2>1, <3>3, <4>1, NilAssumption
      <4>5. Served' = Served \ {i}
        BY <2>1, <4>2, <4>3, <4>4 DEF Served
      <4>6. OnItsWayOut' = {i}
        BY <2>1, <3>1, <3>3 DEF OnItsWayOut, Leaving, Once
      <4>7. Archive!Withdraw(i)
        BY <2>1, <2>2, <4>2, <4>5, <4>6 DEF Archive!Withdraw
      <4> QED
        BY <1>0, <2>1, <4>7
    <3>4. CASE ~(rows[i] = k /\ Once(k))
      <4>1. UNCHANGED <<Kept, Served>>
        BY <1>t, <2>1, <2>4, <3>2, <3>4, OtherObject
      <4>2. OnItsWayOut' = {}
        BY <2>1, <3>1, <3>4 DEF OnItsWayOut, Leaving, Once
      <4> QED
        BY <2>1, <2>2, <4>1, <4>2, SameIsStep DEF ArchiveSame
    <3> QED
      BY <3>3, <3>4
  <2> QED
    BY <1>11, <2>3, <2>4 DEF PurgeObject
<1>12. CASE PurgeRow
  <2>1. /\ UNCHANGED <<store, redrawn, restarts>> /\ OnItsWayOut' = {}
        /\ \/ /\ rows' = [i \in Images |-> IF i \in Leaving THEN Nil ELSE rows[i]]
              /\ told' = told \ Leaving
           \/ UNCHANGED <<rows, told>>
    BY <1>12 DEF PurgeRow, OnItsWayOut, Leaving
  <2>2. CASE UNCHANGED <<rows, told>>
    <3>1. UNCHANGED <<Kept, Served>>
      BY <2>1, <2>2 DEF Kept, Served
    <3>2. Archive!Abandon
      BY <2>1, <2>2, <3>1 DEF Archive!Abandon
    <3> QED
      BY <1>00, <3>2
  <2>3. CASE /\ rows' = [i \in Images |-> IF i \in Leaving THEN Nil ELSE rows[i]]
             /\ told' = told \ Leaving
    <3>1. CASE Leaving = {}
      <4>1. OnItsWayOut = {} /\ told' = told /\ \A i \in Images : rows'[i] = rows[i]
        BY <2>3, <3>1 DEF OnItsWayOut
      <4>2. UNCHANGED <<Kept, Served>>
        BY <2>1, <4>1 DEF Kept, Served
      <4> QED
        BY <2>1, <4>1, <4>2, SameIsStep DEF ArchiveSame
    <3>2. CASE Leaving # {}
      <4>1. PICK i \in Leaving : TRUE
        BY <3>2
      <4>2. /\ i \in Images /\ Leaving = {i} /\ OnItsWayOut \subseteq {i}
            /\ rows[i] = purge.key /\ purge # Nil
        BY <4>1, OneLeaving DEF Leaving
      <4>3. rows[i] # Nil
        BY <1>t, <4>2, PurgeFields, NilAssumption DEF Keys
      <4>4. Archive!Delete(i)
        BY <2>1, <2>3, <4>2, <4>3, RowGoes
      <4> QED
        BY <1>0, <4>2, <4>4
    <3> QED
      BY <3>1, <3>2
  <2> QED
    BY <2>1, <2>2, <2>3
<1>13. CASE Restart
  <2>1. UNCHANGED <<rows, store, redrawn, told>> /\ restarts' > 0 /\ purge' = Nil
    BY <1>r, <1>13 DEF Restart
  <2>2. UNCHANGED <<Kept, Served>> /\ OnItsWayOut' = {}
    BY <2>1 DEF Kept, Served, OnItsWayOut, Leaving
  <2>3. Archive!Interrupt
    BY <2>1, <2>2 DEF Archive!Interrupt
  <2> QED
    BY <1>00, <2>3
<1>14. CASE UNCHANGED vars
  BY <1>s, <1>14 DEF vars, history
<1> QED
  BY <1>1, <1>2, <1>3, <1>4, <1>6, <1>7, <1>8, <1>9, <1>10, <1>11, <1>12, <1>13, <1>14
  DEF Next, Step

-----------------------------------------------------------------------------
(***************************************************************************)
(* The theorems.                                                            *)
(***************************************************************************)
\* Rows, objects and requests are well typed: keys are positive, and drawn.
THEOREM Typing == Spec => []TypeOK
<1>1. Basic => TypeOK
  BY DEF Basic
<1> QED
  BY <1>1, BasicInit, BasicNext, PTL DEF Spec

\* What a sender was told is kept has a row until somebody deletes it.
THEOREM ToldAreKept == Spec => []ToldIsKept
<1>1. Basic => ToldIsKept
  BY DEF Basic
<1> QED
  BY <1>1, BasicInit, BasicNext, PTL DEF Spec

\* The key of a row holds its image, unless the purger took the object and is at
\* the row or left it, or the key was drawn again after a restart.
THEOREM RowsHold == Spec => []ObjectHoldsImage
<1>1. Unshared => ObjectHoldsImage
  BY DEF Unshared, Held, AtRow, Once, ObjectHoldsImage
<1> QED
  BY <1>1, BasicInit, BasicNext, UnsharedInit, UnsharedNext, PTL DEF Spec

\* The requests, keys, objects and tasks of the uploads implement the archive:
\* as long as no key is drawn twice, nothing but a purge takes an image from a
\* row that stays, and no more than one of them at a time.
THEOREM Archiving == Spec => KeepsImages
<1>1. Basic /\ Unshared /\ [Next]_vars => [Archive!ArchiveNext]_Archive!archiveVars
  BY ArchiveStep
<1> QED
  BY <1>1, BasicInit, BasicNext, UnsharedInit, UnsharedNext, ArchiveStart,
     PTL DEF Spec, KeepsImages, Archive!ArchiveSpec

=============================================================================
