-------------------------- MODULE RadarTilesProofs ---------------------------
(***************************************************************************)
(* Proofs about RadarTiles, for any products, times, requests and size of  *)
(* the cache.                                                              *)
(***************************************************************************)
EXTENDS RadarTiles, Integers, Sequences, SequenceTheorems, TLAPS

-----------------------------------------------------------------------------
(* The keys of a Map                                                       *)

Distinct(s) == \A i, j \in 1..Len(s) : s[i] = s[j] => i = j

LEMMA Keys ==
  ASSUME NEW S, NEW s \in Seq(S), NEW u
  PROVE  /\ Len(s) \in Nat /\ DOMAIN s = 1..Len(s)
         /\ \A i \in 1..Len(s) : s[i] \in S
         /\ u \in Tiles!ToSet(s) <=> \E i \in 1..Len(s) : s[i] = u
         /\ u \notin Tiles!ToSet(s) => Tiles!MapDelete(s, u) = s
BY DEF Tiles!ToSet, Tiles!MapDelete

LEMMA Deletes ==
  ASSUME NEW S, NEW s \in Seq(S), Distinct(s), NEW k \in 1..Len(s)
  PROVE  LET d == Tiles!MapDelete(s, s[k])
         IN /\ d \in Seq(S) /\ Len(d) = Len(s) - 1
            /\ \A i \in 1..Len(s) - 1 : d[i] = IF i < k THEN s[i] ELSE s[i + 1]
<1> DEFINE d == Tiles!MapDelete(s, s[k])
           c == CHOOSE i \in DOMAIN s : s[i] = s[k]
           a == SubSeq(s, 1, k - 1)
           b == SubSeq(s, k + 1, Len(s))
<1>1. /\ Len(s) \in Nat /\ DOMAIN s = 1..Len(s) /\ s[k] \in Tiles!ToSet(s)
      /\ \A i \in 1..Len(s) : s[i] \in S
  BY Keys
<1>2. c = k
  BY <1>1 DEF Distinct
<1>3. d = a \o b
  BY <1>1, <1>2 DEF Tiles!MapDelete, Tiles!RemoveAt
<1>4. /\ a \in Seq(S) /\ Len(a) = k - 1
      /\ \A i \in 1..k - 1 : a[i] = s[i]
  <2>1. /\ 1 \in Int /\ k - 1 \in Int
        /\ \A i \in 1..k - 1 : s[i] \in S
    BY <1>1
  <2>2. /\ a \in Seq(S)
        /\ Len(a) = IF 1 <= k - 1 THEN (k - 1) - 1 + 1 ELSE 0
        /\ \A i \in 1..(k - 1) - 1 + 1 : a[i] = s[1 + i - 1]
    BY <2>1, SubSeqProperties
  <2> QED
    BY <1>1, <2>2
<1>5. /\ b \in Seq(S) /\ Len(b) = Len(s) - k
      /\ \A i \in 1..Len(s) - k : b[i] = s[k + i]
  <2>1. /\ k + 1 \in Int /\ Len(s) \in Int
        /\ \A i \in k + 1..Len(s) : s[i] \in S
    BY <1>1
  <2>2. /\ b \in Seq(S)
        /\ Len(b) = IF k + 1 <= Len(s) THEN Len(s) - (k + 1) + 1 ELSE 0
        /\ \A i \in 1..Len(s) - (k + 1) + 1 : b[i] = s[(k + 1) + i - 1]
    BY <2>1, SubSeqProperties
  <2> QED
    BY <1>1, <2>2
<1> HIDE DEF a, b, d
<1>6. /\ d \in Seq(S) /\ Len(d) = Len(a) + Len(b)
      /\ \A i \in 1..Len(a) + Len(b) : d[i] = IF i <= Len(a) THEN a[i] ELSE b[i - Len(a)]
  BY <1>3, <1>4, <1>5, ConcatProperties
<1>7. Len(d) = Len(s) - 1
  BY <1>1, <1>4, <1>5, <1>6
<1>8. ASSUME NEW i \in 1..Len(s) - 1
      PROVE  d[i] = IF i < k THEN s[i] ELSE s[i + 1]
  <2>1. CASE i < k
    <3>1. i <= Len(a) /\ i \in 1..Len(a) + Len(b) /\ i \in 1..k - 1
      BY <1>1, <1>4, <1>5, <2>1
    <3> QED
      BY <1>4, <1>6, <2>1, <3>1
  <2>2. CASE i >= k
    <3>1. ~(i <= Len(a)) /\ i \in 1..Len(a) + Len(b)
      BY <1>1, <1>4, <1>5, <2>2
    <3>2. d[i] = b[i - Len(a)]
      BY <1>6, <3>1
    <3>3. i - Len(a) \in 1..Len(s) - k /\ k + (i - Len(a)) = i + 1
      BY <1>1, <1>4, <2>2
    <3>4. b[i - Len(a)] = s[k + (i - Len(a))]
      BY <1>5, <3>3
    <3> QED
      BY <2>2, <3>2, <3>3, <3>4
  <2> QED
    BY <2>1, <2>2
<1> QED
  BY <1>6, <1>7, <1>8 DEF d

\* A key that is used goes to the end.
LEMMA MovesToEnd ==
  ASSUME NEW S, NEW s \in Seq(S), Distinct(s), NEW k \in 1..Len(s)
  PROVE  LET d == Append(Tiles!MapDelete(s, s[k]), s[k])
         IN /\ d \in Seq(S) /\ Len(d) = Len(s) /\ d[Len(s)] = s[k]
            /\ \A i \in 1..Len(s) - 1 : d[i] = IF i < k THEN s[i] ELSE s[i + 1]
            /\ Distinct(d)
            /\ s[k] \notin Tiles!ToSet(Tiles!MapDelete(s, s[k]))
            /\ Tiles!ToSet(d) = Tiles!ToSet(s)
<1> DEFINE m == Tiles!MapDelete(s, s[k])
           d == Append(m, s[k])
<1>1. /\ m \in Seq(S) /\ Len(m) = Len(s) - 1
      /\ \A i \in 1..Len(s) - 1 : m[i] = IF i < k THEN s[i] ELSE s[i + 1]
  BY Deletes
<1>2. Len(s) \in Nat /\ s[k] \in S /\ \A i \in 1..Len(s) : s[i] \in S
  BY Keys
<1> HIDE DEF m
<1>3. /\ d \in Seq(S) /\ Len(d) = Len(m) + 1 /\ d[Len(m) + 1] = s[k]
      /\ \A i \in 1..Len(m) : d[i] = m[i]
  BY <1>1, <1>2, AppendProperties
<1> HIDE DEF d
<1>4. /\ d \in Seq(S) /\ Len(d) = Len(s) /\ d[Len(s)] = s[k]
      /\ \A i \in 1..Len(s) - 1 : d[i] = IF i < k THEN s[i] ELSE s[i + 1]
  BY <1>1, <1>2, <1>3
<1> DEFINE old(i) == IF i = Len(s) THEN k ELSE IF i < k THEN i ELSE i + 1
<1>5. \A i \in 1..Len(s) : old(i) \in 1..Len(s) /\ d[i] = s[old(i)]
  BY <1>2, <1>4
<1>6. \A i, j \in 1..Len(s) : old(i) = old(j) => i = j
  BY <1>2
<1>7. Distinct(d)
  <2> HIDE DEF old
  <2> QED
    BY <1>4, <1>5, <1>6 DEF Distinct
<1>8. s[k] \notin Tiles!ToSet(m)
  <2>1. \A i \in 1..Len(m) : m[i] # s[k]
    BY <1>1, <1>2 DEF Distinct
  <2> QED
    BY <1>1, <2>1, Keys
<1>9. ASSUME NEW i \in 1..Len(s) PROVE \E j \in 1..Len(s) : d[j] = s[i]
  <2> DEFINE j == IF i = k THEN Len(s) ELSE IF i < k THEN i ELSE i - 1
  <2>1. j \in 1..Len(s) /\ d[j] = s[i]
    BY <1>2, <1>4
  <2> QED
    BY <2>1
<1>10. \A u : u \in Tiles!ToSet(d) <=> u \in Tiles!ToSet(s)
  <2>1. \A u : u \in Tiles!ToSet(d) <=> \E i \in 1..Len(d) : d[i] = u
    BY <1>4, Keys
  <2>2. \A u : u \in Tiles!ToSet(s) <=> \E i \in 1..Len(s) : s[i] = u
    BY Keys
  <2> HIDE DEF old
  <2> QED
    BY <1>4, <1>5, <1>9, <2>1, <2>2
<1> QED
  BY <1>4, <1>7, <1>8, <1>10 DEF d, m

-----------------------------------------------------------------------------
(* The cache                                                               *)

\* The cache is the end of the sequence of the tiles used.
Ends(c, s) ==
  /\ Len(c) = IF Len(s) < CacheMax THEN Len(s) ELSE CacheMax
  /\ \A i \in 1..Len(c) : c[i] = s[Len(s) - Len(c) + i]

CacheInv ==
  /\ Tiles!CacheTypeOK /\ Tiles!OneFetch
  /\ Distinct(used) /\ Ends(tileCache, used)

LEMMA Lengths ==
  ASSUME CacheInv
  PROVE  /\ tileCache \in Seq(Frames) /\ used \in Seq(Frames)
         /\ Len(tileCache) \in Nat /\ Len(used) \in Nat /\ CacheMax \in Nat \ {0}
         /\ Len(tileCache) <= Len(used)
         /\ \A i \in 1..Len(tileCache) : used[Len(used) - Len(tileCache) + i] = tileCache[i]
         /\ Distinct(tileCache)
<1>1. /\ tileCache \in Seq(Frames) /\ used \in Seq(Frames)
      /\ Len(tileCache) \in Nat /\ Len(used) \in Nat /\ CacheMax \in Nat \ {0}
  BY Keys, TilesAssumption DEF CacheInv, Tiles!CacheTypeOK
<1>2. Len(tileCache) <= Len(used)
  BY <1>1 DEF CacheInv, Ends
<1>3. \A i \in 1..Len(tileCache) : used[Len(used) - Len(tileCache) + i] = tileCache[i]
  BY <1>1 DEF CacheInv, Ends
<1>4. Distinct(tileCache)
  <2> SUFFICES ASSUME NEW i \in 1..Len(tileCache), NEW j \in 1..Len(tileCache),
                      tileCache[i] = tileCache[j]
               PROVE  i = j
    BY DEF Distinct
  <2> DEFINE old(n) == Len(used) - Len(tileCache) + n
  <2>1. old(i) \in 1..Len(used) /\ old(j) \in 1..Len(used)
    BY <1>1, <1>2
  <2>2. used[old(i)] = used[old(j)]
    BY <1>3
  <2>3. old(i) = old(j)
    <3> HIDE DEF old
    <3> QED
      BY <2>1, <2>2 DEF CacheInv, Distinct
  <2> QED
    BY <1>1, <2>3
<1> QED
  BY <1>1, <1>2, <1>3, <1>4

LEMMA HitKeeps ==
  ASSUME CacheInv, NEW r \in Request, NEW u \in Frames, Tiles!Hit(r, u)
  PROVE  CacheInv'
<1>1. /\ tileCache \in Seq(Frames) /\ used \in Seq(Frames)
      /\ Len(tileCache) \in Nat /\ Len(used) \in Nat /\ CacheMax \in Nat \ {0}
      /\ Len(tileCache) <= Len(used)
      /\ \A i \in 1..Len(tileCache) : used[Len(used) - Len(tileCache) + i] = tileCache[i]
      /\ Distinct(tileCache) /\ Distinct(used)
  BY Lengths DEF CacheInv
<1> DEFINE n == Len(tileCache)
           off == Len(used) - n
<1>2. PICK k \in 1..n : tileCache[k] = u
  BY <1>1, Keys DEF Tiles!Hit, Tiles!Cached
<1>3. off \in Nat /\ off + k \in 1..Len(used) /\ used[off + k] = u
  BY <1>1, <1>2
<1>4. /\ used' \in Seq(Frames) /\ Len(used') = Len(used) /\ used'[Len(used)] = u
      /\ \A i \in 1..Len(used) - 1 :
           used'[i] = IF i < off + k THEN used[i] ELSE used[i + 1]
      /\ Distinct(used')
  <2>1. used' = Append(Tiles!MapDelete(used, used[off + k]), used[off + k])
    BY <1>3 DEF Tiles!Hit, Tiles!Touch
  <2> DEFINE m == off + k
             d == Append(Tiles!MapDelete(used, used[m]), used[m])
  <2>2. m \in 1..Len(used) /\ used[m] = u
    BY <1>3
  <2> HIDE DEF off, m
  <2>3. /\ d \in Seq(Frames) /\ Len(d) = Len(used) /\ d[Len(used)] = used[m]
        /\ \A i \in 1..Len(used) - 1 : d[i] = IF i < m THEN used[i] ELSE used[i + 1]
        /\ Distinct(d)
    BY <1>1, <2>2, MovesToEnd
  <2>4. used' = d
    BY <2>1 DEF m
  <2> HIDE DEF d
  <2> QED
    BY <2>2, <2>3, <2>4 DEF m
<1>5. /\ tileCache' \in Seq(Frames) /\ Len(tileCache') = n /\ tileCache'[n] = u
      /\ \A i \in 1..n - 1 :
           tileCache'[i] = IF i < k THEN tileCache[i] ELSE tileCache[i + 1]
      /\ Tiles!ToSet(tileCache') = Tiles!ToSet(tileCache)
  <2>1. u \notin Tiles!ToSet(Tiles!MapDelete(tileCache, tileCache[k]))
    BY <1>1, <1>2, MovesToEnd
  <2>2. tileCache' = Append(Tiles!MapDelete(tileCache, tileCache[k]), tileCache[k])
    BY <1>2, <2>1 DEF Tiles!Hit, Tiles!MapSet
  <2> DEFINE d == Append(Tiles!MapDelete(tileCache, tileCache[k]), tileCache[k])
  <2>3. /\ d \in Seq(Frames) /\ Len(d) = n /\ d[n] = tileCache[k]
        /\ \A i \in 1..n - 1 : d[i] = IF i < k THEN tileCache[i] ELSE tileCache[i + 1]
        /\ Tiles!ToSet(d) = Tiles!ToSet(tileCache)
    BY <1>1, <1>2, MovesToEnd
  <2>4. tileCache' = d
    BY <2>2
  <2> HIDE DEF d
  <2> QED
    BY <1>2, <2>3, <2>4
<1>6. ASSUME NEW i \in 1..n PROVE tileCache'[i] = used'[off + i]
  <2>1. CASE i = n
    BY <1>1, <1>4, <1>5, <2>1
  <2>2. CASE i < k
    <3>1. i \in 1..n - 1 /\ off + i \in 1..Len(used) - 1 /\ off + i < off + k
      BY <1>1, <1>2, <1>3, <2>2
    <3> HIDE DEF off
    <3>2. tileCache'[i] = tileCache[i] /\ used'[off + i] = used[off + i]
      BY <1>4, <1>5, <2>2, <3>1
    <3> QED
      BY <1>1, <3>2 DEF off
  <2>3. CASE i # n /\ i >= k
    <3>1. /\ i \in 1..n - 1 /\ off + i \in 1..Len(used) - 1 /\ ~(off + i < off + k)
          /\ off + i + 1 = off + (i + 1) /\ i + 1 \in 1..n /\ ~(i < k)
      BY <1>1, <1>2, <1>3, <2>3
    <3>2. used[off + (i + 1)] = tileCache[i + 1]
      BY <1>1, <3>1
    <3> HIDE DEF off
    <3>3. tileCache'[i] = tileCache[i + 1] /\ used'[off + i] = used[off + i + 1]
      BY <1>4, <1>5, <3>1
    <3> QED
      BY <3>1, <3>2, <3>3
  <2> QED
    BY <1>1, <1>2, <2>1, <2>2, <2>3
<1>7. Ends(tileCache, used)'
  BY <1>1, <1>4, <1>5, <1>6 DEF CacheInv, Ends
<1>8. UNCHANGED <<tileInFlight, running, waiting>>
  BY DEF Tiles!Hit
<1>9. Tiles!CacheTypeOK' /\ Tiles!OneFetch'
  BY <1>4, <1>5, <1>8 DEF CacheInv, Tiles!CacheTypeOK, Tiles!OneFetch, Tiles!Cached
<1> QED
  BY <1>4, <1>7, <1>9 DEF CacheInv

LEMMA AskKeeps ==
  ASSUME CacheInv, NEW r \in Request, NEW u \in Frames, Tiles!Join(r, u) \/ Tiles!Start(r, u)
  PROVE  CacheInv'
<1>1. UNCHANGED <<tileCache, used>>
  BY DEF Tiles!Join, Tiles!Start
<1>2. Distinct(used)' /\ Ends(tileCache, used)'
  BY <1>1 DEF CacheInv, Distinct, Ends
<1>3. running \in [Frames -> Nat] /\ \A v \in Frames : running[v] \in Nat
  BY DEF CacheInv, Tiles!CacheTypeOK
<1>4. CASE Tiles!Join(r, u)
  BY <1>1, <1>2, <1>4
  DEF CacheInv, Tiles!Join, Tiles!CacheTypeOK, Tiles!OneFetch, Tiles!Cached
<1>5. CASE Tiles!Start(r, u)
  <2>1. running[u] = 0
    BY <1>3, <1>5 DEF CacheInv, Tiles!OneFetch, Tiles!Start
  <2>2. /\ running' = [running EXCEPT ![u] = running[u] + 1]
        /\ tileInFlight' = tileInFlight \cup {u}
        /\ u \notin Tiles!Cached /\ Tiles!Cached' = Tiles!Cached
    BY <1>1, <1>5 DEF Tiles!Start, Tiles!Cached
  <2>3. Tiles!OneFetch'
    BY <1>3, <2>1, <2>2 DEF CacheInv, Tiles!OneFetch
  <2>4. Tiles!CacheTypeOK'
    BY <1>1, <1>3, <1>5, <2>2 DEF CacheInv, Tiles!CacheTypeOK, Tiles!Start
  <2> QED
    BY <1>2, <2>3, <2>4 DEF CacheInv
<1> QED
  BY <1>4, <1>5

\* What the keys c become when a tile has come: without the first, if there
\* are N of them and the cache is full, and with the new one at the end.
Grown(c, d, N, u) ==
  /\ N >= CacheMax =>
       Len(d) = N /\ d[N] = u /\ \A i \in 1..N - 1 : d[i] = c[i + 1]
  /\ N < CacheMax =>
       Len(d) = N + 1 /\ d[N + 1] = u /\ \A i \in 1..N : d[i] = c[i]

LEMMA Evicts ==
  ASSUME CacheInv, NEW u \in Frames, u \notin Tiles!Cached,
         NEW c, c = Tiles!MapSet(IF Len(tileCache) >= CacheMax THEN Tail(tileCache)
                                                               ELSE tileCache, u)
  PROVE  /\ c \in Seq(Frames) /\ Grown(tileCache, c, Len(tileCache), u)
         /\ Tiles!ToSet(c) \subseteq Tiles!Cached \cup {u}
<1> DEFINE N == Len(tileCache)
           kept == IF N >= CacheMax THEN Tail(tileCache) ELSE tileCache
<1>1. /\ tileCache \in Seq(Frames) /\ N \in Nat /\ CacheMax \in Nat \ {0}
      /\ \A i \in 1..N : tileCache[i] # u
  BY Lengths, Keys DEF Tiles!Cached
<1>2. /\ kept \in Seq(Frames)
      /\ N >= CacheMax =>
           Len(kept) = N - 1 /\ \A i \in 1..N - 1 : kept[i] = tileCache[i + 1]
      /\ N < CacheMax => kept = tileCache
  <2>1. CASE N >= CacheMax
    <3>1. tileCache # <<>>
      BY <1>1, <2>1, EmptySeq
    <3> QED
      BY <1>1, <2>1, <3>1, HeadTailProperties
  <2>2. CASE ~(N >= CacheMax)
    BY <1>1, <2>2
  <2> QED
    BY <1>1, <2>1, <2>2
<1>3. /\ Len(kept) \in Nat
      /\ \A i \in 1..Len(kept) : \E j \in 1..N : kept[i] = tileCache[j]
  <2>1. CASE N >= CacheMax
    <3>1. \A i \in 1..N - 1 : i + 1 \in 1..N /\ kept[i] = tileCache[i + 1]
      BY <1>1, <1>2, <2>1
    <3>2. Len(kept) = N - 1 /\ N - 1 \in Nat
      BY <1>1, <1>2, <2>1
    <3> HIDE DEF kept, N
    <3> QED
      BY <3>1, <3>2
  <2>2. CASE N < CacheMax
    <3>1. kept = tileCache
      BY <1>2, <2>2
    <3> HIDE DEF kept
    <3> QED
      BY <1>1, <3>1
  <2> QED
    BY <1>1, <2>1, <2>2
<1>4. c = Tiles!MapSet(kept, u)
  OBVIOUS
<1> HIDE DEF kept
<1>5. u \notin Tiles!ToSet(kept)
  BY <1>1, <1>2, <1>3, Keys
<1>6. c = Append(kept, u)
  BY <1>4, <1>5 DEF Tiles!MapSet
<1>7. /\ c \in Seq(Frames) /\ Len(c) = Len(kept) + 1 /\ c[Len(kept) + 1] = u
      /\ \A i \in 1..Len(kept) : c[i] = kept[i]
  BY <1>2, <1>6, AppendProperties
<1>8. Grown(tileCache, c, N, u)
  <2>1. CASE N >= CacheMax
    <3>1. Len(kept) = N - 1 /\ Len(kept) + 1 = N
      BY <1>1, <1>2, <2>1
    <3> HIDE DEF N
    <3> QED
      BY <1>1, <1>2, <1>7, <2>1, <3>1 DEF Grown
  <2>2. CASE N < CacheMax
    <3> HIDE DEF N
    <3>1. Len(kept) = N
      BY <1>2, <2>2 DEF N
    <3> QED
      BY <1>1, <1>2, <1>7, <2>2, <3>1 DEF Grown
  <2> QED
    BY <1>1, <2>1, <2>2
<1>9. ASSUME NEW v \in Tiles!ToSet(c) PROVE v \in Tiles!Cached \cup {u}
  <2>1. PICK i \in 1..Len(c) : c[i] = v
    BY <1>7, Keys
  <2>2. CASE i = Len(kept) + 1
    BY <1>7, <2>1, <2>2
  <2>3. CASE i \in 1..Len(kept)
    <3>1. PICK j \in 1..N : kept[i] = tileCache[j]
      BY <1>3, <2>3
    <3>2. v = tileCache[j]
      BY <1>7, <2>1, <2>3, <3>1
    <3> QED
      BY <1>1, <3>2, Keys DEF Tiles!Cached
  <2> QED
    BY <1>3, <1>7, <2>2, <2>3
<1> QED
  BY <1>7, <1>8, <1>9

\* The N keys c of the cache are the end of the U keys s.
IsEnd(c, s, N, U) ==
  /\ N = IF U < CacheMax THEN U ELSE CacheMax
  /\ \A i \in 1..N : s[U - N + i] = c[i]

\* What the keys s become with a new one, and with that at k moved to the end.
Appended(s, t, U, u) == Len(t) = U + 1 /\ t[U + 1] = u /\ \A i \in 1..U : t[i] = s[i]

Lifted(s, t, U, u, k) ==
  /\ Len(t) = U /\ t[U] = u
  /\ \A i \in 1..U - 1 : t[i] = IF i < k THEN s[i] ELSE s[i + 1]

\* A tile never used before.
LEMMA EndsWithNew ==
  ASSUME NEW c, NEW d, NEW s, NEW t, NEW N \in Nat, NEW U \in Nat, NEW u,
         IsEnd(c, s, N, U), Grown(c, d, N, u), Appended(s, t, U, u)
  PROVE  Ends(d, t)
<1>0. CacheMax \in Nat \ {0} /\ N = IF U < CacheMax THEN U ELSE CacheMax
  BY TilesAssumption DEF IsEnd
<1>1. CASE N >= CacheMax
  <2>1. Len(d) = N /\ d[N] = u /\ N = CacheMax /\ U >= N
    BY <1>0, <1>1 DEF Grown
  <2>2. ASSUME NEW i \in 1..N PROVE d[i] = t[U + 1 - N + i]
    <3>1. CASE i = N
      <4>1. U + 1 - N + i = U + 1
        BY <3>1
      <4> QED
        BY <2>1, <3>1, <4>1 DEF Appended
    <3>2. CASE i \in 1..N - 1
      <4> DEFINE o == U - N + (i + 1)
      <4>1. i + 1 \in 1..N /\ o \in 1..U /\ o = U + 1 - N + i
        BY <2>1, <3>2
      <4>2. s[o] = c[i + 1]
        BY <4>1 DEF IsEnd
      <4> HIDE DEF o
      <4>3. d[i] = c[i + 1] /\ t[o] = s[o]
        BY <1>1, <3>2, <4>1 DEF Grown, Appended
      <4> QED
        BY <4>1, <4>2, <4>3
    <3> QED
      BY <3>1, <3>2
  <2> QED
    BY <1>0, <2>1, <2>2 DEF Ends, Appended
<1>2. CASE N < CacheMax
  <2>1. Len(d) = N + 1 /\ d[N + 1] = u /\ U = N
    BY <1>0, <1>2 DEF Grown
  <2>2. ASSUME NEW i \in 1..N + 1 PROVE d[i] = t[U + 1 - (N + 1) + i]
    <3>1. U + 1 - (N + 1) + i = i
      BY <2>1
    <3>2. CASE i = N + 1
      BY <2>1, <3>1, <3>2 DEF Appended
    <3>3. CASE i \in 1..N
      <4>1. U - N + i = i /\ i \in 1..U
        BY <2>1, <3>3
      <4>2. s[U - N + i] = c[i]
        BY <3>3 DEF IsEnd
      <4>3. d[i] = c[i] /\ t[i] = s[i]
        BY <1>2, <3>3, <4>1 DEF Grown, Appended
      <4> QED
        BY <3>1, <4>1, <4>2, <4>3
    <3> QED
      BY <3>2, <3>3
  <2>3. N + 1 = IF U + 1 < CacheMax THEN U + 1 ELSE CacheMax
    BY <1>0, <1>2, <2>1
  <2>4. Len(t) = U + 1
    BY DEF Appended
  <2>5. ASSUME NEW i \in 1..Len(d) PROVE d[i] = t[Len(t) - Len(d) + i]
    BY <2>1, <2>2, <2>4
  <2> QED
    BY <2>1, <2>3, <2>4, <2>5 DEF Ends
<1> QED
  BY <1>0, <1>1, <1>2

\* A tile used before, at k, that has been evicted since.
LEMMA EndsWithOld ==
  ASSUME NEW c, NEW d, NEW s, NEW t, NEW N \in Nat, NEW U \in Nat, NEW u,
         IsEnd(c, s, N, U), Grown(c, d, N, u),
         NEW k \in 1..U, k <= U - N, Lifted(s, t, U, u, k)
  PROVE  Ends(d, t)
<1>1. CacheMax \in Nat \ {0} /\ N = CacheMax /\ U > N
  BY TilesAssumption DEF IsEnd
<1>2. Len(d) = N /\ d[N] = u /\ Len(t) = U /\ t[U] = u
  BY <1>1 DEF Grown, Lifted
<1>3. ASSUME NEW i \in 1..N PROVE d[i] = t[U - N + i]
  <2>1. CASE i = N
    <3>1. U - N + i = U
      BY <2>1
    <3> QED
      BY <1>2, <2>1, <3>1
  <2>2. CASE i \in 1..N - 1
    <3> DEFINE o == U - N + i
    <3>1. /\ i + 1 \in 1..N /\ o \in 1..U - 1 /\ ~(o < k)
          /\ U - N + (i + 1) = o + 1
      BY <1>1, <2>2
    <3>2. s[U - N + (i + 1)] = c[i + 1]
      BY <3>1 DEF IsEnd
    <3>3. d[i] = c[i + 1]
      BY <1>1, <2>2 DEF Grown
    <3> HIDE DEF o
    <3>4. t[o] = s[o + 1]
      BY <3>1 DEF Lifted
    <3> QED
      BY <3>1, <3>2, <3>3, <3>4 DEF o
  <2> QED
    BY <2>1, <2>2
<1>4. N = IF U < CacheMax THEN U ELSE CacheMax
  BY <1>1
<1> QED
  BY <1>2, <1>3, <1>4 DEF Ends

LEMMA ColorizedKeeps ==
  ASSUME CacheInv, NEW u \in Frames, Tiles!Colorized(u)
  PROVE  CacheInv'
<1> DEFINE N == Len(tileCache)
           U == Len(used)
<1>1. /\ tileCache \in Seq(Frames) /\ used \in Seq(Frames) /\ N \in Nat /\ U \in Nat
      /\ IsEnd(tileCache, used, N, U) /\ Distinct(used)
      /\ N <= U /\ \A i \in 1..N : used[U - N + i] = tileCache[i]
  BY Lengths DEF CacheInv, Ends, IsEnd
<1>2. running \in [Frames -> Nat] /\ running[u] > 0
  BY DEF CacheInv, Tiles!CacheTypeOK, Tiles!Colorized
<1>3. running[u] = 1 /\ u \in tileInFlight /\ u \notin Tiles!Cached
  BY <1>2 DEF CacheInv, Tiles!OneFetch
<1>4. /\ tileCache' \in Seq(Frames) /\ Grown(tileCache, tileCache', N, u)
      /\ Tiles!ToSet(tileCache') \subseteq Tiles!Cached \cup {u}
  BY <1>3, Evicts DEF Tiles!Colorized
<1>5. used' = Append(Tiles!MapDelete(used, u), u)
  BY DEF Tiles!Colorized, Tiles!Touch
<1>6. Tiles!OneFetch'
  <2>1. /\ running' = [running EXCEPT ![u] = running[u] - 1]
        /\ tileInFlight' = tileInFlight
    BY DEF Tiles!Colorized
  <2>2. running'[u] = 0 /\ \A v \in Frames : v # u => running'[v] = running[v]
    BY <1>2, <1>3, <2>1
  <2>3. Tiles!Cached' \subseteq Tiles!Cached \cup {u}
    BY <1>4 DEF Tiles!Cached
  <2> QED
    BY <2>1, <2>2, <2>3 DEF CacheInv, Tiles!OneFetch
<1>7. used' \in Seq(Frames) /\ Distinct(used)' /\ Ends(tileCache, used)'
  <2> HIDE DEF N, U
  <2>1. CASE u \notin Tiles!ToSet(used)
    <3>1. used' = Append(used, u)
      BY <1>1, <1>5, <2>1, Keys
    <3>2. /\ used' \in Seq(Frames) /\ Len(used') = U + 1 /\ used'[U + 1] = u
          /\ \A i \in 1..U : used'[i] = used[i]
      BY <1>1, <3>1, AppendProperties DEF U
    <3>3. \A i \in 1..U : used[i] # u
      BY <1>1, <2>1, Keys DEF U
    <3>4. \A i, j \in 1..U : used[i] = used[j] => i = j
      BY <1>1 DEF Distinct, U
    <3>5. \A i, j \in 1..U + 1 : used'[i] = used'[j] => i = j
      BY <1>1, <3>2, <3>3, <3>4
    <3>6. Ends(tileCache', used')
      <4>1. Appended(used, used', U, u)
        BY <3>2 DEF Appended
      <4> QED
        BY <1>1, <1>4, <4>1, EndsWithNew
    <3> QED
      BY <3>2, <3>5, <3>6 DEF Ends, Distinct
  <2>2. CASE u \in Tiles!ToSet(used)
    <3>1. PICK k \in 1..U : used[k] = u
      BY <1>1, <2>2, Keys DEF U
    <3> DEFINE d == Append(Tiles!MapDelete(used, used[k]), used[k])
    <3>2. /\ d \in Seq(Frames) /\ Len(d) = U /\ d[U] = used[k]
          /\ \A i \in 1..U - 1 : d[i] = IF i < k THEN used[i] ELSE used[i + 1]
          /\ Distinct(d)
      BY <1>1, MovesToEnd DEF U
    <3>3. used' = d
      BY <1>5, <3>1
    <3> HIDE DEF d
    <3>4. k <= U - N
      <4> SUFFICES ASSUME ~(k <= U - N) PROVE FALSE
        OBVIOUS
      <4>1. k - (U - N) \in 1..N /\ U - N + (k - (U - N)) = k
        BY <1>1
      <4>2. tileCache[k - (U - N)] = u
        BY <1>1, <3>1, <4>1
      <4> QED
        BY <1>1, <1>3, <4>1, <4>2, Keys DEF Tiles!Cached, N
    <3>5. Ends(tileCache', d)
      <4>1. Lifted(used, d, U, u, k)
        BY <3>1, <3>2 DEF Lifted
      <4> QED
        BY <1>1, <1>4, <3>4, <4>1, EndsWithOld
    <3> QED
      BY <3>2, <3>3, <3>5 DEF Ends, Distinct
  <2> QED
    BY <2>1, <2>2
<1>8. Tiles!CacheTypeOK'
  <2>1. running' \in [Frames -> Nat]
    BY <1>2, <1>3 DEF Tiles!Colorized
  <2> QED
    BY <1>4, <1>7, <2>1 DEF CacheInv, Tiles!CacheTypeOK, Tiles!Colorized
<1> QED
  BY <1>6, <1>7, <1>8 DEF CacheInv

LEMMA FailKeeps ==
  ASSUME CacheInv, NEW u \in Frames, Tiles!FetchFails(u)
  PROVE  CacheInv'
<1>1. UNCHANGED <<tileCache, used, tileInFlight, waiting>>
  BY DEF Tiles!FetchFails
<1>2. running \in [Frames -> Nat] /\ running[u] > 0
  BY DEF CacheInv, Tiles!CacheTypeOK, Tiles!FetchFails
<1>3. running[u] = 1
  BY <1>2 DEF CacheInv, Tiles!OneFetch
<1>4. running' = [running EXCEPT ![u] = running[u] - 1]
  BY DEF Tiles!FetchFails
<1>5. /\ running' \in [Frames -> Nat] /\ running'[u] = 0
      /\ \A v \in Frames : v # u => running'[v] = running[v]
  BY <1>2, <1>3, <1>4
<1>6. Tiles!OneFetch'
  BY <1>1, <1>5 DEF CacheInv, Tiles!OneFetch, Tiles!Cached
<1>7. Tiles!CacheTypeOK'
  BY <1>1, <1>5 DEF CacheInv, Tiles!CacheTypeOK
<1> QED
  BY <1>1, <1>6, <1>7 DEF CacheInv, Distinct, Ends

LEMMA SettledKeeps ==
  ASSUME CacheInv, NEW u \in Frames, Tiles!Settled(u)
  PROVE  CacheInv'
<1>1. UNCHANGED <<tileCache, used, running>>
  BY DEF Tiles!Settled
<1>2. /\ waiting' = [r \in Request |-> IF waiting[r] = u THEN None ELSE waiting[r]]
      /\ tileInFlight' = tileInFlight \ {u} /\ running[u] = 0
  BY DEF Tiles!Settled
<1>3. waiting' \in [Request -> Frames \cup {None}]
  BY <1>2 DEF CacheInv, Tiles!CacheTypeOK
<1> QED
  BY <1>1, <1>2, <1>3
  DEF CacheInv, Tiles!CacheTypeOK, Tiles!OneFetch, Tiles!Cached, Distinct, Ends

-----------------------------------------------------------------------------
(* The layer                                                               *)

\* While a style starts from nothing there is no layer.  Every change of the
\* theme waits for its style.load; only the first style does not, and what it
\* refuses is missed.
Fine(m) ==
  /\ m \in Map!MapType(Time)
  /\ m.layer <=> m.source # None
  /\ m.layer => m.enabled /\ m.source = Map!TileUrl(m)
  /\ m.style = "ready" => ~m.onStyleLoad
  /\ m.style = "diff" => m.onStyleLoad
  /\ m.style = "reload" => ~m.layer
  /\ ~m.onStyleLoad /\ m.enabled /\ m.product # None /\ m.time # None
       => m.layer \/ m.missed

\* What the layer needs, up to whether it is there.
Sound(m) ==
  /\ m \in Map!MapType(Time)
  /\ m.style = "ready" => ~m.onStyleLoad
  /\ m.style = "diff" => m.onStyleLoad

LEMMA MapFields ==
  ASSUME NEW m \in Map!MapType(Time)
  PROVE  /\ m = [enabled |-> m.enabled, product |-> m.product, time |-> m.time,
                 layer |-> m.layer, source |-> m.source, style |-> m.style,
                 onStyleLoad |-> m.onStyleLoad, missed |-> m.missed]
         /\ m.enabled \in BOOLEAN /\ m.product \in Product \cup {None}
         /\ m.time \in Time \cup {None} /\ m.layer \in BOOLEAN
         /\ m.source \in Frames \cup {None} /\ m.style \in {"ready", "diff", "reload"}
         /\ m.onStyleLoad \in BOOLEAN /\ m.missed \in BOOLEAN
         /\ m.product # None /\ m.time # None =>
              Map!TileUrl(m) \in Frames /\ Map!TileUrl(m) # None
BY TilesAssumption DEF Map!MapType, Frames, Map!TileUrl

\* A map without a layer, on which a layer is tried.
LEMMA Adds ==
  ASSUME NEW m, Sound(m), ~m.layer, m.source = None
  PROVE  Fine(Map!AddRadarLayer(m))
<1> DEFINE n == Map!AddRadarLayer(m)
           missed == ~m.onStyleLoad
<1>1. /\ m \in Map!MapType(Time) /\ m.onStyleLoad \in BOOLEAN
      /\ m.style \in {"ready", "diff", "reload"}
  BY MapFields DEF Sound
<1>2. CASE ~m.enabled \/ m.product = None \/ m.time = None
  <2>1. n = m
    BY <1>2 DEF Map!AddRadarLayer
  <2> QED
    BY <1>2, <2>1 DEF Sound, Fine
<1>3. CASE m.enabled /\ m.product # None /\ m.time # None /\ m.style = "reload"
  <2>1. n = [m EXCEPT !.missed = missed]
    BY <1>3 DEF Map!AddRadarLayer
  <2>2. missed \in BOOLEAN /\ (~m.onStyleLoad => missed)
    BY <1>1
  <2> HIDE DEF n, missed
  <2>3. /\ n \in Map!MapType(Time) /\ n.missed = missed /\ n.layer = m.layer
        /\ n.source = m.source /\ n.style = m.style /\ n.onStyleLoad = m.onStyleLoad
    BY <1>1, <2>1, <2>2 DEF Map!MapType
  <2> QED
    BY <1>3, <2>2, <2>3 DEF Sound, Fine, n
<1>4. CASE m.enabled /\ m.product # None /\ m.time # None /\ m.style # "reload"
  <2> DEFINE url == Map!TileUrl(m)
  <2>1. n = [m EXCEPT !.layer = TRUE, !.source = url, !.missed = FALSE]
    BY <1>4 DEF Map!AddRadarLayer
  <2>2. url \in Frames /\ url # None /\ url = [product |-> m.product, time |-> m.time]
    BY <1>1, <1>4, MapFields DEF Map!TileUrl
  <2> HIDE DEF n, url
  <2>3. /\ n \in Map!MapType(Time) /\ n.layer /\ n.source = url /\ n.style = m.style
        /\ n.onStyleLoad = m.onStyleLoad /\ n.product = m.product /\ n.time = m.time
        /\ n.enabled = m.enabled
    BY <1>1, <2>1, <2>2 DEF Map!MapType, Frames
  <2> QED
    BY <1>1, <1>4, <2>2, <2>3 DEF Sound, Fine, Map!TileUrl, n
<1> QED
  BY <1>2, <1>3, <1>4

LEMMA Removes ==
  ASSUME NEW m \in Map!MapType(Time)
  PROVE  LET n == Map!RemoveRadar(m)
         IN /\ n \in Map!MapType(Time) /\ ~n.layer /\ n.source = None
            /\ n.enabled = m.enabled /\ n.product = m.product /\ n.time = m.time
            /\ n.style = m.style /\ n.onStyleLoad = m.onStyleLoad
            /\ n.missed = m.missed
BY DEF Map!RemoveRadar, Map!MapType

\* A map whose layer is there and whose source may be of an earlier frame.
LEMMA Updates ==
  ASSUME NEW m, Sound(m), m.layer, m.source # None, m.style # "reload", m.enabled,
         m.product # None, m.time # None
  PROVE  Fine(Map!UpdateRadarTiles(m))
<1> DEFINE n == Map!UpdateRadarTiles(m)
           url == Map!TileUrl(m)
<1>1. n = [m EXCEPT !.source = url]
  BY DEF Map!UpdateRadarTiles
<1>2. /\ m \in Map!MapType(Time)
      /\ url \in Frames /\ url # None /\ url = [product |-> m.product, time |-> m.time]
  BY MapFields DEF Sound, Map!TileUrl
<1> HIDE DEF n, url
<1>3. /\ n \in Map!MapType(Time) /\ n.layer = m.layer /\ n.source = url
      /\ n.style = m.style /\ n.onStyleLoad = m.onStyleLoad
      /\ n.product = m.product /\ n.time = m.time /\ n.enabled = m.enabled
  BY <1>1, <1>2 DEF Map!MapType, Frames
<1> QED
  BY <1>2, <1>3 DEF Sound, Fine, Map!TileUrl, n

\* A layer that is there has a product and a time.
LEMMA LayerHasFrame ==
  ASSUME NEW m, Fine(m), m.layer
  PROVE  m.product \in Product /\ m.time \in Time /\ m.product # None /\ m.time # None
BY MapFields, TilesAssumption DEF Fine, Map!TileUrl, Frames

LEMMA StateFine ==
  ASSUME NEW m, Fine(m), NEW enabled \in BOOLEAN, NEW product \in Product
  PROVE  Fine(Map!OnRadarState(m, [enabled |-> enabled, product |-> product]))
<1> DEFINE next == [m EXCEPT !.enabled = enabled, !.product = product]
           n == Map!OnRadarState(m, [enabled |-> enabled, product |-> product])
<1>1. /\ next \in Map!MapType(Time) /\ next.enabled = enabled /\ next.product = product
      /\ next.time = m.time /\ next.layer = m.layer /\ next.source = m.source
      /\ next.style = m.style /\ next.onStyleLoad = m.onStyleLoad
      /\ next.missed = m.missed /\ product # None
  BY TilesAssumption DEF Fine, Map!MapType
<1>2. n = IF ~enabled THEN Map!RemoveRadar([next EXCEPT !.missed = FALSE])
          ELSE IF ~m.layer THEN Map!AddRadarLayer(next)
          ELSE IF m.product # product /\ m.time # None THEN Map!UpdateRadarTiles(next)
          ELSE next
  BY DEF Map!OnRadarState
<1> HIDE DEF next, n
<1>3. Sound(next)
  BY <1>1 DEF Sound, Fine
<1>4. CASE ~enabled
  <2> DEFINE dark == [next EXCEPT !.missed = FALSE]
  <2>1. /\ dark \in Map!MapType(Time) /\ dark.enabled = next.enabled
        /\ dark.style = next.style /\ dark.onStyleLoad = next.onStyleLoad
    BY <1>1 DEF Map!MapType
  <2>2. n = Map!RemoveRadar(dark)
    BY <1>2, <1>4
  <2> HIDE DEF dark
  <2>3. /\ n \in Map!MapType(Time) /\ ~n.layer /\ n.source = None
        /\ n.enabled = dark.enabled /\ n.style = dark.style
        /\ n.onStyleLoad = dark.onStyleLoad
    BY <2>1, <2>2, Removes
  <2> QED
    BY <1>1, <1>4, <2>1, <2>3 DEF Fine, n
<1>5. CASE enabled /\ ~m.layer
  <2>1. n = Map!AddRadarLayer(next) /\ ~next.layer /\ next.source = None
    BY <1>1, <1>2, <1>5 DEF Fine
  <2> QED
    BY <1>3, <2>1, Adds DEF n
<1>6. CASE enabled /\ m.layer
  <2>1. /\ m.product # None /\ m.time # None /\ m.source # None
        /\ m.source = [product |-> m.product, time |-> m.time] /\ m.style # "reload"
    BY <1>6, LayerHasFrame DEF Fine, Map!TileUrl
  <2>2. CASE m.product # product
    <3>1. n = Map!UpdateRadarTiles(next)
      BY <1>2, <1>6, <2>1, <2>2
    <3>2. Fine(Map!UpdateRadarTiles(next))
      BY <1>1, <1>3, <1>6, <2>1, Updates
    <3> QED
      BY <3>1, <3>2 DEF n
  <2>3. CASE m.product = product
    <3>1. n = next
      BY <1>2, <1>6, <2>3
    <3> QED
      BY <1>1, <1>6, <2>1, <2>3, <3>1 DEF Fine, Map!TileUrl, n
  <2> QED
    BY <2>2, <2>3
<1>7. m.layer \in BOOLEAN
  BY MapFields DEF Fine
<1> QED
  BY <1>4, <1>5, <1>6, <1>7 DEF n

LEMMA FrameFine ==
  ASSUME NEW m, Fine(m), NEW time \in Time
  PROVE  Fine(Map!ApplyRadarFrame(m, time))
<1> DEFINE next == [m EXCEPT !.time = time]
           n == Map!ApplyRadarFrame(m, time)
<1>1. /\ next \in Map!MapType(Time) /\ next.time = time
      /\ next.enabled = m.enabled /\ next.product = m.product
      /\ next.layer = m.layer /\ next.source = m.source
      /\ next.style = m.style /\ next.onStyleLoad = m.onStyleLoad
      /\ next.missed = m.missed /\ time # None
  BY TilesAssumption DEF Fine, Map!MapType
<1>2. n = IF ~m.enabled THEN next
          ELSE IF ~m.layer THEN Map!AddRadarLayer(next) ELSE Map!UpdateRadarTiles(next)
  BY DEF Map!ApplyRadarFrame
<1> HIDE DEF next, n
<1>3. Sound(next)
  BY <1>1 DEF Sound, Fine
<1>4. CASE ~m.enabled
  <2>1. n = next
    BY <1>2, <1>4
  <2> QED
    BY <1>1, <1>4, <2>1 DEF Fine, n
<1>5. CASE m.enabled /\ ~m.layer
  <2>1. n = Map!AddRadarLayer(next) /\ ~next.layer /\ next.source = None
    BY <1>1, <1>2, <1>5 DEF Fine
  <2> QED
    BY <1>3, <2>1, Adds DEF n
<1>6. CASE m.enabled /\ m.layer
  <2>1. n = Map!UpdateRadarTiles(next)
    BY <1>2, <1>6
  <2>2. Fine(Map!UpdateRadarTiles(next))
    <3>1. m.product # None /\ m.source # None /\ m.style # "reload"
      BY <1>6, LayerHasFrame DEF Fine
    <3> QED
      BY <1>1, <1>3, <1>6, <3>1, Updates
  <2> QED
    BY <2>1, <2>2 DEF n
<1>7. m.layer \in BOOLEAN /\ m.enabled \in BOOLEAN
  BY MapFields DEF Fine
<1> QED
  BY <1>4, <1>5, <1>6, <1>7 DEF n

LEMMA ThemeFine ==
  ASSUME NEW m, Fine(m), NEW kept \in BOOLEAN
  PROVE  Fine(Map!UpdateStyle(m, kept))
<1> DEFINE diff == kept /\ m.style # "reload"
           base == IF diff THEN m ELSE Map!RemoveRadar(m)
           style == IF diff THEN "diff" ELSE "reload"
           n == Map!UpdateStyle(m, kept)
<1>1. m \in Map!MapType(Time)
  BY DEF Fine
<1>2. n = [base EXCEPT !.style = style, !.onStyleLoad = TRUE, !.missed = FALSE]
  BY DEF Map!UpdateStyle
<1>3. /\ base \in Map!MapType(Time) /\ base.enabled = m.enabled
      /\ base.product = m.product /\ base.time = m.time
      /\ base.layer <=> base.source # None
      /\ base.layer => m.layer /\ base.source = m.source
      /\ style \in {"diff", "reload"} /\ (style = "reload" => ~base.layer)
  <2>1. CASE diff
    BY <1>1, <2>1 DEF Fine
  <2>2. CASE ~diff
    BY <1>1, <2>2, Removes
  <2> QED
    BY <2>1, <2>2
<1> HIDE DEF base, style, n
<1>4. /\ n \in Map!MapType(Time) /\ n.enabled = base.enabled
      /\ n.product = base.product /\ n.time = base.time
      /\ n.layer = base.layer /\ n.source = base.source /\ n.style = style
      /\ n.onStyleLoad
  BY <1>2, <1>3 DEF Map!MapType
<1> QED
  BY <1>3, <1>4 DEF Fine, Map!TileUrl, n

LEMMA LoadFine ==
  ASSUME NEW m, Fine(m), m.style # "ready"
  PROVE  Fine(Map!StyleLoaded(m))
<1> DEFINE bare == Map!RemoveRadar(m)
           loaded == [bare EXCEPT !.style = "ready", !.onStyleLoad = FALSE]
           n == Map!StyleLoaded(m)
<1>1. m \in Map!MapType(Time)
  BY DEF Fine
<1>2. /\ bare \in Map!MapType(Time) /\ ~bare.layer /\ bare.source = None
      /\ bare.enabled = m.enabled /\ bare.product = m.product /\ bare.time = m.time
      /\ bare.missed = m.missed
  BY <1>1, Removes
<1>3. n = IF m.onStyleLoad THEN Map!AddRadarLayer(loaded) ELSE loaded
  BY DEF Map!StyleLoaded
<1> HIDE DEF bare
<1>4. /\ loaded \in Map!MapType(Time) /\ ~loaded.layer /\ loaded.source = None
      /\ loaded.enabled = m.enabled /\ loaded.product = m.product
      /\ loaded.time = m.time /\ loaded.missed = m.missed
      /\ loaded.style = "ready" /\ ~loaded.onStyleLoad
  BY <1>2 DEF Map!MapType
<1> HIDE DEF loaded, n
<1>5. CASE m.onStyleLoad
  BY <1>3, <1>4, <1>5, Adds DEF Sound, n
<1>6. CASE ~m.onStyleLoad
  <2>1. ~m.layer
    BY <1>1, <1>6, MapFields DEF Fine
  <2> QED
    BY <1>3, <1>4, <1>6, <2>1 DEF Fine, n
<1> QED
  BY <1>5, <1>6

LEMMA MapStarts == Map!MapInit => Fine(map)
<1> DEFINE m == Map!MapMounted
<1>1. /\ m = [enabled |-> FALSE, product |-> None, time |-> None,
              layer |-> FALSE, source |-> None,
              style |-> "reload", onStyleLoad |-> FALSE, missed |-> FALSE]
      /\ m \in Map!MapType(Time)
  BY DEF Map!MapMounted, Map!MapType
<1>2. Fine(m)
  BY <1>1 DEF Fine
<1>3. Fine(Map!StyleLoaded(m))
  BY <1>1, <1>2, LoadFine
<1> QED
  BY <1>2, <1>3 DEF Map!MapInit

LEMMA MapKeeps ==
  ASSUME Fine(map), Map!MapNext
  PROVE  Fine(map')
<1>1. CASE Map!RadarState
  <2>1. PICK enabled \in BOOLEAN, product \in Product, time \in Time \cup {None} :
          LET told == Map!OnRadarState(map, [enabled |-> enabled, product |-> product])
          IN map' = IF time = None THEN told ELSE Map!ApplyRadarFrame(told, time)
    BY <1>1 DEF Map!RadarState
  <2> DEFINE told == Map!OnRadarState(map, [enabled |-> enabled, product |-> product])
  <2>2. Fine(told)
    BY StateFine
  <2>3. map' = IF time = None THEN told ELSE Map!ApplyRadarFrame(told, time)
    BY <2>1
  <2> HIDE DEF told
  <2>4. CASE time = None
    BY <2>2, <2>3, <2>4
  <2>5. CASE time \in Time /\ time # None
    BY <2>2, <2>3, <2>5, FrameFine
  <2> QED
    BY <2>4, <2>5
<1>2. CASE Map!RadarFrame
  BY <1>2, FrameFine DEF Map!RadarFrame
<1>3. CASE Map!ThemeChanges
  BY <1>3, ThemeFine DEF Map!ThemeChanges
<1>4. CASE Map!StyleLoads
  BY <1>4, LoadFine DEF Map!StyleLoads
<1> QED
  BY <1>1, <1>2, <1>3, <1>4 DEF Map!MapNext

-----------------------------------------------------------------------------
(* The theorems                                                            *)

Inv == Fine(map) /\ CacheInv

LEMMA CacheStarts == Tiles!CacheInit => CacheInv
<1> SUFFICES ASSUME Tiles!CacheInit PROVE CacheInv
  OBVIOUS
<1>1. tileCache = <<>> /\ used = <<>> /\ Len(tileCache) = 0 /\ Len(used) = 0
  BY DEF Tiles!CacheInit
<1>2. Tiles!CacheTypeOK /\ Tiles!OneFetch
  BY <1>1, EmptySeq DEF Tiles!CacheInit, Tiles!CacheTypeOK, Tiles!OneFetch
<1>3. Distinct(used) /\ Ends(tileCache, used)
  BY <1>1, TilesAssumption DEF Distinct, Ends
<1> QED
  BY <1>2, <1>3 DEF CacheInv

LEMMA InvNext ==
  ASSUME Inv, [Next]_vars
  PROVE  Inv'
<1>1. CASE UNCHANGED tileVars
  <2>1. CacheInv'
    BY <1>1 DEF Inv, tileVars, CacheInv, Tiles!CacheTypeOK, Tiles!OneFetch,
                Tiles!Cached, Distinct, Ends
  <2>2. CASE MapStep
    BY <2>1, <2>2, MapKeeps DEF Inv, MapStep
  <2>3. CASE UNCHANGED map
    BY <2>1, <2>3 DEF Inv
  <2> QED
    BY <2>2, <2>3 DEF Next, vars, TileRequest, TileStep
<1>2. CASE TileRequest
  <2>1. PICK r \in Request : Tiles!FetchColorizedTile(r, map.source)
    BY <1>2 DEF TileRequest
  <2>2. map.source \in Frames /\ map' = map
    BY <1>2, MapFields DEF TileRequest, Inv, Fine
  <2> QED
    BY <2>1, <2>2, HitKeeps, AskKeeps DEF Inv, Tiles!FetchColorizedTile
<1>3. CASE TileStep
  <2>1. PICK u \in Frames : Tiles!FetchEnds(u) \/ Tiles!Settled(u)
    BY <1>3 DEF TileStep
  <2>2. map' = map
    BY <1>3 DEF TileStep
  <2> QED
    BY <2>1, <2>2, ColorizedKeeps, FailKeeps, SettledKeeps DEF Inv, Tiles!FetchEnds
<1> QED
  BY <1>1, <1>2, <1>3 DEF Next, vars, MapStep

LEMMA Invariant == Spec => []Inv
<1>1. Init => Inv
  BY MapStarts, CacheStarts DEF Init, Inv
<1> QED
  BY <1>1, InvNext, PTL DEF Spec

(* The types of the layer and of the cache.                                *)
THEOREM Typing == Spec => []TypeOK
<1>1. Inv => TypeOK
  BY DEF Inv, Fine, CacheInv, TypeOK, Map!MapTypeOK
<1> QED
  BY <1>1, Invariant, PTL

(* Through every order of states, frames and changes of theme the layer    *)
(* shows the product and the time the hook was last told and is there      *)
(* exactly while the radar is on, but for one that the first style refused.*)
THEOREM Layer == Spec => []LayerShowsFrame
<1>1. Inv => LayerShowsFrame
  BY DEF Inv, Fine, LayerShowsFrame, Map!LayerIsCurrent, Map!LayerSurvivesTheme
<1> QED
  BY <1>1, Invariant, PTL

(* The cache holds the tiles used last, whatever its size and however many *)
(* requests run at a time, and no tile is fetched twice at a time.         *)
THEOREM Kept == Spec => []TilesKept
<1>1. Inv => TilesKept
  <2> SUFFICES ASSUME Inv PROVE TilesKept
    OBVIOUS
  <2> DEFINE N == Len(tileCache)
             U == Len(used)
             end == SubSeq(used, U - N + 1, U)
  <2>1. /\ tileCache \in Seq(Frames) /\ used \in Seq(Frames) /\ N \in Nat /\ U \in Nat
        /\ N <= U /\ \A i \in 1..N : used[U - N + i] = tileCache[i]
    BY Lengths DEF Inv
  <2>2. /\ end \in Seq(Frames) /\ Len(end) = N
        /\ \A i \in 1..N : end[i] = used[U - N + i]
    <3>1. /\ U - N + 1 \in Int /\ U \in Int
          /\ \A i \in U - N + 1..U : used[i] \in Frames
      BY <2>1, Keys
    <3>2. /\ end \in Seq(Frames)
          /\ Len(end) = IF U - N + 1 <= U THEN U - (U - N + 1) + 1 ELSE 0
          /\ \A i \in 1..U - (U - N + 1) + 1 : end[i] = used[U - N + 1 + i - 1]
      BY <3>1, SubSeqProperties
    <3> QED
      BY <2>1, <3>2
  <2>3. tileCache = end
    BY <2>1, <2>2, SeqEqual
  <2>4. Tiles!HoldsLastUsed
    BY <2>3 DEF Inv, CacheInv, Ends, Tiles!HoldsLastUsed
  <2> QED
    BY <2>4 DEF Inv, CacheInv, TilesKept
<1> QED
  BY <1>1, Invariant, PTL
=============================================================================
