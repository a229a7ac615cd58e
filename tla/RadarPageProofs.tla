--------------------------- MODULE RadarPageProofs ---------------------------
(***************************************************************************)
(* Proofs about RadarPage, for any products, periods and windows.          *)
(***************************************************************************)
EXTENDS RadarPage, TLAPS

-----------------------------------------------------------------------------
(* Times                                                                   *)

LEMMA Times ==
  ASSUME NEW a \in Int, NEW p \in Nat \ {0}
  PROVE  /\ (a \div p) * p \in Int /\ (a \div p) * p <= a /\ a < (a \div p) * p + p
         /\ ((a \div p) * p) % p = 0
         /\ a >= 0 => a \div p \in Nat
<1> DEFINE q == a \div p
<1>1. q \in Int /\ a = p * q + (a % p) /\ a % p \in 0..p - 1
  OBVIOUS
<1>2. q * p = p * q /\ q * p \in Int
  BY <1>1
<1>3. (q * p) % p = 0
  BY <1>1
<1> QED
  BY <1>1, <1>2, <1>3

LEMMA Multiples ==
  ASSUME NEW p \in Nat \ {0}, NEW m \in Nat, NEW k \in 0..m
  PROVE  k * p \in Nat /\ k * p <= m * p
<1>1. m * p = k * p + (m - k) * p
  OBVIOUS
<1>2. (m - k) * p \in Nat /\ k * p \in Nat
  OBVIOUS
<1> QED
  BY <1>1, <1>2

-----------------------------------------------------------------------------
(* What the methods of the timeline do to its fields                       *)

TypeFacts(t) ==
  /\ t.enabled \in BOOLEAN /\ t.product \in Product
  /\ t.latest \in Int \cup {None} /\ t.period \in Nat \cup {None}
  /\ t.time \in Int \cup {None} /\ t.live \in BOOLEAN
  /\ t.playing \in BOOLEAN /\ t.playTimer \in BOOLEAN /\ t.playHold \in BOOLEAN
  /\ t.playFrom \in Int \cup {None} /\ t.dragging \in BOOLEAN
  /\ t.publishRaf \in BOOLEAN /\ t.ws \in BOOLEAN /\ t.wsTimer \in BOOLEAN
  /\ t.syncing \in Product \cup {None} /\ t.syncTimer \in BOOLEAN
  /\ t.hidden \in BOOLEAN /\ t.out \in Frame \cup {None}

\* Publishing leaves these alone.
Untouched(t, u) ==
  /\ u.enabled = t.enabled /\ u.product = t.product
  /\ u.latest = t.latest /\ u.period = t.period
  /\ u.playing = t.playing /\ u.playTimer = t.playTimer /\ u.playHold = t.playHold
  /\ u.playFrom = t.playFrom /\ u.dragging = t.dragging
  /\ u.publishRaf = t.publishRaf /\ u.ws = t.ws /\ u.wsTimer = t.wsTimer
  /\ u.syncing = t.syncing /\ u.hidden = t.hidden

Shows(t) == t.enabled /\ t.time # None /\ t.latest # None

LEMMA Publishing ==
  ASSUME NEW t \in TimelineType
  PROVE  /\ PublishFrame(t) \in TimelineType
         /\ Untouched(t, PublishFrame(t))
         /\ ~Shows(t) => PublishFrame(t) = t
         /\ Shows(t) =>
              /\ PublishFrame(t).time = IF t.time >= t.latest THEN t.latest ELSE t.time
              /\ t.time >= t.latest => PublishFrame(t).live
              /\ PublishFrame(t).out # None
              /\ PublishFrame(t).out.time = PublishFrame(t).time
<1>1. CASE ~Shows(t)
  BY <1>1 DEF Shows, PublishFrame, Untouched, TimelineType
<1>2. CASE Shows(t)
  <2> DEFINE live == t.time >= t.latest
             time == IF live THEN t.latest ELSE t.time
             frame == [time |-> time, live |-> live, product |-> t.product]
  <2>1. live \in BOOLEAN /\ time \in Int /\ t.product \in Product
    BY <1>2 DEF Shows, TimelineType
  <2> HIDE DEF live, time
  <2>2. frame \in Frame /\ frame.time = time
    BY <2>1 DEF Frame
  <2>3. PublishFrame(t) = [t EXCEPT !.time = time, !.live = live, !.out = frame,
                                    !.syncTimer = TRUE]
    BY <1>2 DEF Shows, PublishFrame, live, time
  <2> HIDE DEF frame
  <2>4. PublishFrame(t) \in TimelineType /\ Untouched(t, PublishFrame(t))
        /\ PublishFrame(t).time = time /\ PublishFrame(t).live = live
        /\ PublishFrame(t).out = frame
    BY <2>1, <2>2, <2>3 DEF TimelineType, Untouched
  <2> QED
    BY <1>2, <2>2, <2>4, FrameAssumption DEF live, time
<1> QED
  BY <1>1, <1>2

LEMMA Setting ==
  ASSUME NEW t \in TimelineType, NEW time \in Int
  PROVE  /\ SetTime(t, time) \in TimelineType
         /\ Untouched(t, SetTime(t, time))
         /\ t.enabled /\ t.latest # None =>
              /\ SetTime(t, time).time = IF time >= t.latest THEN t.latest ELSE time
              /\ time >= t.latest => SetTime(t, time).live
              /\ SetTime(t, time).out # None
              /\ SetTime(t, time).out.time = SetTime(t, time).time
         /\ ~(t.enabled /\ t.latest # None) =>
              /\ SetTime(t, time).time = time
              /\ SetTime(t, time).live = t.live
              /\ SetTime(t, time).out = t.out
<1> DEFINE s == [t EXCEPT !.time = time]
<1>1. /\ s \in TimelineType /\ Untouched(t, s) /\ s.time = time /\ time # None
      /\ s.live = t.live /\ s.out = t.out
  BY ProductAssumption DEF TimelineType, Untouched
<1>2. SetTime(t, time) = PublishFrame(s)
  BY DEF SetTime
<1> HIDE DEF s
<1> QED
  BY <1>1, <1>2, Publishing DEF Shows, Untouched

LEMMA Stopping ==
  ASSUME NEW t \in TimelineType
  PROVE  /\ StopPlay(t) \in TimelineType
         /\ ~StopPlay(t).playing /\ ~StopPlay(t).playTimer /\ ~StopPlay(t).playHold
         /\ StopPlay(t) = [t EXCEPT !.playing = FALSE, !.playTimer = FALSE,
                                    !.playHold = FALSE]
BY DEF StopPlay, TimelineType

-----------------------------------------------------------------------------
(* The grid                                                                *)

Periods == {Period[p] : p \in Product}

LEMMA PeriodFacts ==
  /\ \A p \in Product : Period[p] \in Periods
  /\ \A q \in Periods : q \in Nat \ {0} /\ Window + q <= FirstFeed
BY ProductAssumption, FeedAssumption DEF Periods

\* The newest frame and what the viewer looks at lie between the first time
\* and the last, on a timeline that does not reach back beyond the first.
Bounded(t) ==
  /\ t \in TimelineType
  /\ t.period # None => t.period \in Periods
  /\ t.latest # None => t.latest \in Window..LastFeed
  /\ t.time # None => t.time \in 0..LastFeed
  /\ t.playFrom # None => t.playFrom \in 0..LastFeed
  /\ t.latest # None <=> t.time # None
  /\ t.time = None => t.live

PlayOK(t) ==
  /\ t.playing => HasGrid(t) /\ t.playFrom # None /\ t.enabled /\ ~t.hidden
  /\ t.playing => t.playTimer # t.playHold
  /\ ~t.playing => ~t.playTimer /\ ~t.playHold

LEMMA Grid ==
  ASSUME NEW t, t.period \in Periods, t.latest \in Window..LastFeed
  PROVE  /\ t.period \in Nat \ {0} /\ Window \in Nat /\ LastFeed \in Nat
         /\ MaxIdx(t) \in Nat
         /\ \A idx \in 0..MaxIdx(t) : t.latest - idx * t.period \in 0..t.latest
<1>1. t.period \in Nat \ {0} /\ Window \in Nat /\ LastFeed \in Nat
  BY PeriodFacts, WindowAssumption, FeedAssumption
<1>2. MaxIdx(t) \in Nat /\ MaxIdx(t) * t.period <= Window
  BY <1>1, Times DEF MaxIdx
<1>3. \A idx \in 0..MaxIdx(t) :
         idx * t.period \in Nat /\ idx * t.period <= MaxIdx(t) * t.period
  BY <1>1, <1>2, Multiples
<1>4. MaxIdx(t) * t.period \in Nat
  BY <1>1, <1>2
<1> QED
  BY <1>1, <1>2, <1>3, <1>4

LEMMA GridOf ==
  ASSUME NEW t, Bounded(t), HasGrid(t)
  PROVE  t.period \in Periods /\ t.latest \in Window..LastFeed /\ t.time \in 0..LastFeed
BY DEF Bounded, HasGrid

LEMMA Rounding ==
  ASSUME NEW a \in Int, NEW b \in Nat \ {0}
  PROVE  Round(a, b) \in Int
<1>1. 2 * b \in Nat \ {0} /\ 2 * a + b \in Int
  OBVIOUS
<1> QED
  BY <1>1 DEF Round

LEMMA Oldest ==
  ASSUME NEW t, Bounded(t), HasGrid(t)
  PROVE  OldestTime(t) \in 0..t.latest
<1>1. MaxIdx(t) \in 0..MaxIdx(t)
  BY Grid, GridOf
<1> QED
  BY <1>1, Grid, GridOf DEF OldestTime

LEMMA Snapping ==
  ASSUME NEW t, t.period \in Periods, t.latest \in Window..LastFeed, t.time \in Int
  PROVE  SnapToGrid(t) \in 0..t.latest
<1> DEFINE idx == Least(Most(Round(t.latest - t.time, t.period), 0), MaxIdx(t))
<1>1. t.period \in Nat \ {0} /\ MaxIdx(t) \in Nat /\ t.latest - t.time \in Int
  BY Grid
<1>2. Round(t.latest - t.time, t.period) \in Int
  BY <1>1, Rounding
<1>3. idx \in 0..MaxIdx(t)
  BY <1>1, <1>2 DEF Least, Most
<1>4. SnapToGrid(t) = t.latest - idx * t.period
  BY DEF SnapToGrid
<1> HIDE DEF idx
<1> QED
  BY <1>3, <1>4, Grid

LEMMA PlayingFrom ==
  ASSUME NEW t, Bounded(t), HasGrid(t)
  PROVE  t.latest - (PlayCount(t) - 1) * t.period \in 0..t.latest
<1>1. Round(PlayWindow, t.period) \in Int /\ PlayMinFrames \in Nat \ {0}
  BY Grid, GridOf, Rounding, WindowAssumption
<1>2. PlayCount(t) - 1 \in 0..MaxIdx(t)
  BY <1>1, Grid, GridOf DEF PlayCount, MaxIdx, Least, Most
<1> QED
  BY <1>2, Grid, GridOf

-----------------------------------------------------------------------------
(* The controls and timers that move the timeline: they leave the state of *)
(* the server and the network alone, and emit the frame they end at,       *)
(* unless an animation frame is to do so.                                  *)

Moved(t, u) ==
  /\ Bounded(u) /\ PlayOK(u)
  /\ u.enabled = t.enabled /\ u.product = t.product
  /\ u.latest = t.latest /\ u.period = t.period
  /\ u.ws = t.ws /\ u.wsTimer = t.wsTimer
  /\ u.syncing = t.syncing /\ u.hidden = t.hidden
  /\ u.out # None => u.out.time = u.time /\ u.time # None
  /\ u.out = None /\ u.time # t.time => u.publishRaf /\ u.time # None
  /\ u.out = None /\ u.enabled /\ u.time # None => (t.publishRaf => u.publishRaf)

\* The timeline between two callbacks.
Rest(t) == Bounded(t) /\ PlayOK(t) /\ t.out = None

LEMMA Stays ==
  ASSUME NEW t, Rest(t)
  PROVE  Moved(t, t)
BY DEF Rest, Moved

\* Stopped, and at the time if it is one of the timeline's.
LEMMA StopsAt ==
  ASSUME NEW t, Rest(t), t.enabled, t.latest # None, NEW time \in 0..t.latest
  PROVE  Moved(t, SetTime(StopPlay(t), time))
<1> DEFINE s == StopPlay(t)
<1>0. t \in TimelineType /\ time \in Int /\ t.latest \in Int
  BY WindowAssumption, FeedAssumption DEF Rest, Bounded
<1>1. /\ s \in TimelineType /\ time \in Int /\ t.latest \in Int
      /\ t \in TimelineType
  BY <1>0, Stopping
<1>2. s = [t EXCEPT !.playing = FALSE, !.playTimer = FALSE, !.playHold = FALSE]
  BY <1>1, Stopping
<1>3. /\ ~s.playing /\ ~s.playTimer /\ ~s.playHold
      /\ s.enabled = t.enabled /\ s.product = t.product
      /\ s.latest = t.latest /\ s.period = t.period /\ s.playFrom = t.playFrom
      /\ s.ws = t.ws /\ s.wsTimer = t.wsTimer
      /\ s.syncing = t.syncing /\ s.hidden = t.hidden
  BY <1>1, <1>2 DEF TimelineType
<1> HIDE DEF s
<1> DEFINE u == SetTime(s, time)
<1>4. /\ u \in TimelineType /\ Untouched(s, u)
      /\ u.time = IF time >= t.latest THEN t.latest ELSE time
      /\ u.out # None /\ u.out.time = u.time
  BY <1>1, <1>3, Setting
<1> HIDE DEF u
<1>5. u.time = time
  BY <1>1, <1>4
<1>6. time \in 0..LastFeed /\ time # None /\ t.latest \in Window..LastFeed
  BY <1>1, ProductAssumption, WindowAssumption, FeedAssumption DEF Rest, Bounded
<1>7. Bounded(u) /\ PlayOK(u)
  BY <1>1, <1>3, <1>4, <1>5, <1>6 DEF Rest, Bounded, PlayOK, Untouched
<1>8. Moved(t, u)
  BY <1>3, <1>4, <1>5, <1>6, <1>7 DEF Moved, Untouched
<1> QED
  BY <1>8 DEF s, u

LEMMA Stops ==
  ASSUME NEW t, Rest(t)
  PROVE  Moved(t, StopPlay(t)) /\ Rest(StopPlay(t))
<1>1. t \in TimelineType
  BY DEF Rest, Bounded
<1>2. /\ StopPlay(t) \in TimelineType
      /\ StopPlay(t) = [t EXCEPT !.playing = FALSE, !.playTimer = FALSE, !.playHold = FALSE]
  BY <1>1, Stopping
<1> QED
  BY <1>1, <1>2 DEF Rest, Moved, Bounded, PlayOK, TimelineType

LEMMA Starts ==
  ASSUME NEW t, Rest(t), ~t.playing, ~t.hidden
  PROVE  Moved(t, StartPlay(t))
<1>1. CASE ~t.enabled \/ ~HasGrid(t)
  BY <1>1, Stays DEF StartPlay
<1>2. CASE t.enabled /\ HasGrid(t)
  <2> DEFINE from == t.latest - (PlayCount(t) - 1) * t.period
             s == [t EXCEPT !.playFrom = from, !.playing = TRUE]
             v == SetTime(s, from)
             u == [v EXCEPT !.playTimer = TRUE]
  <2>1. StartPlay(t) = u
    BY <1>2 DEF StartPlay
  <2>2. /\ from \in 0..t.latest /\ t.latest \in Window..LastFeed
        /\ t \in TimelineType
    BY <1>2, PlayingFrom, GridOf DEF Rest, Bounded
  <2>3. from \in Int /\ t.latest \in Int /\ from \in 0..LastFeed /\ from # None
    BY <2>2, ProductAssumption, WindowAssumption, FeedAssumption
  <2> HIDE DEF from
  <2>4. /\ s \in TimelineType /\ s.playing /\ s.playFrom = from
        /\ s.enabled = t.enabled /\ s.product = t.product
        /\ s.latest = t.latest /\ s.period = t.period
        /\ s.playTimer = t.playTimer /\ s.playHold = t.playHold
        /\ s.ws = t.ws /\ s.wsTimer = t.wsTimer
        /\ s.syncing = t.syncing /\ s.hidden = t.hidden
    BY <2>2, <2>3 DEF TimelineType
  <2> HIDE DEF s
  <2>5. /\ v \in TimelineType /\ Untouched(s, v)
        /\ v.time = IF from >= t.latest THEN t.latest ELSE from
        /\ v.out # None /\ v.out.time = v.time
    BY <1>2, <2>3, <2>4, Setting DEF HasGrid
  <2>6. v.time = from
    BY <2>2, <2>3, <2>5
  <2> HIDE DEF v
  <2>7. /\ u \in TimelineType /\ u.playTimer /\ u.time = v.time /\ u.out = v.out
        /\ u.enabled = v.enabled /\ u.product = v.product
        /\ u.latest = v.latest /\ u.period = v.period
        /\ u.playing = v.playing /\ u.playHold = v.playHold
        /\ u.playFrom = v.playFrom /\ u.publishRaf = v.publishRaf
        /\ u.ws = v.ws /\ u.wsTimer = v.wsTimer
        /\ u.syncing = v.syncing /\ u.hidden = v.hidden
    BY <2>5 DEF TimelineType
  <2> HIDE DEF u
  <2>8. Bounded(u) /\ PlayOK(u)
    BY <1>2, <2>2, <2>3, <2>4, <2>5, <2>6, <2>7
    DEF Rest, Bounded, PlayOK, Untouched, HasGrid
  <2>9. Moved(t, u)
    BY <2>3, <2>4, <2>5, <2>6, <2>7, <2>8 DEF Moved, Untouched
  <2> QED
    BY <2>1, <2>9
<1> QED
  BY <1>1, <1>2

\* At a time of the timeline, without a stop.
LEMMA Sets ==
  ASSUME NEW t, Bounded(t), t.enabled, t.latest # None, NEW time \in 0..LastFeed
  PROVE  /\ Bounded(SetTime(t, time)) /\ Untouched(t, SetTime(t, time))
         /\ SetTime(t, time).time # None /\ SetTime(t, time).out # None
         /\ SetTime(t, time).out.time = SetTime(t, time).time
<1>1. /\ t \in TimelineType /\ time \in Int
      /\ t.latest \in 0..LastFeed /\ None \notin 0..LastFeed
  BY ProductAssumption, WindowAssumption, FeedAssumption DEF Bounded
<1> DEFINE u == SetTime(t, time)
<1>2. /\ u \in TimelineType /\ Untouched(t, u)
      /\ u.time = IF time >= t.latest THEN t.latest ELSE time
      /\ u.out # None /\ u.out.time = u.time
  BY <1>1, Setting
<1> HIDE DEF u
<1>3. u.time \in 0..LastFeed /\ u.time # None
  BY <1>1, <1>2
<1>4. Bounded(u)
  BY <1>1, <1>2, <1>3 DEF Bounded, Untouched
<1> QED
  BY <1>2, <1>3, <1>4 DEF u

LEMMA Publishes ==
  ASSUME NEW t, Rest(t)
  PROVE  /\ Moved(t, PublishFrame(t)) /\ Untouched(t, PublishFrame(t))
         /\ t.enabled /\ t.time # None => PublishFrame(t).out # None
         /\ PublishFrame(t).out = None => PublishFrame(t) = t
<1> DEFINE u == PublishFrame(t)
<1>1. /\ t \in TimelineType /\ t.out = None
      /\ Shows(t) <=> t.enabled /\ t.time # None
  BY DEF Rest, Bounded, Shows
<1>2. /\ u \in TimelineType /\ Untouched(t, u)
      /\ ~Shows(t) => u = t
      /\ Shows(t) => /\ u.time = IF t.time >= t.latest THEN t.latest ELSE t.time
                     /\ u.out # None /\ u.out.time = u.time
  BY <1>1, Publishing
<1> HIDE DEF u
<1>3. CASE ~Shows(t)
  BY <1>1, <1>2, <1>3, Stays DEF u
<1>4. CASE Shows(t)
  <2>1. /\ t.latest \in 0..LastFeed /\ t.time \in 0..LastFeed
        /\ None \notin 0..LastFeed
    BY <1>4, ProductAssumption, WindowAssumption, FeedAssumption
    DEF Rest, Bounded, Shows
  <2>2. u.time \in 0..LastFeed /\ u.time # None
    BY <1>2, <1>4, <2>1
  <2>3. Bounded(u) /\ PlayOK(u)
    BY <1>2, <2>1, <2>2 DEF Rest, Bounded, PlayOK, Untouched, HasGrid
  <2> QED
    BY <1>1, <1>2, <1>4, <2>2, <2>3 DEF Moved, Untouched, u
<1> QED
  BY <1>3, <1>4

\* A control that first changes fields of its own.
LEMMA MovedOn ==
  ASSUME NEW t, NEW s, NEW u, Moved(t, s), Moved(s, u),
         s.out = None, s.time = t.time,
         u.out # None \/ s.publishRaf = t.publishRaf
  PROVE  Moved(t, u)
BY DEF Moved

LEMMA Advances ==
  ASSUME NEW t, Rest(t), t.playTimer
  PROVE  Moved(t, AdvancePlay(t))
<1>1. /\ t.playing /\ ~t.playHold /\ t.enabled /\ ~t.hidden /\ HasGrid(t)
      /\ t.playFrom # None /\ Bounded(t)
  BY DEF Rest, PlayOK, Bounded, TimelineType
<1>2. /\ t.period \in Nat \ {0} /\ t.latest \in Window..LastFeed /\ t.time \in 0..LastFeed
      /\ Window \in Nat /\ LastFeed \in Nat
  BY <1>1, Grid, GridOf
<1>3. CASE t.time + t.period >= t.latest
  <2> DEFINE v == SetTime(t, t.latest)
             u == [v EXCEPT !.playTimer = FALSE, !.playHold = TRUE]
  <2>1. AdvancePlay(t) = u
    BY <1>3 DEF AdvancePlay
  <2>2. /\ Bounded(v) /\ Untouched(t, v) /\ v.time # None
        /\ v.out # None /\ v.out.time = v.time
    <3>1. t.latest # None /\ t.latest \in 0..LastFeed
      BY <1>1, <1>2 DEF HasGrid
    <3> QED
      BY <1>1, <3>1, Sets
  <2> HIDE DEF v
  <2>3. /\ u \in TimelineType /\ ~u.playTimer /\ u.playHold /\ u.time = v.time
        /\ u.out = v.out /\ u.enabled = v.enabled /\ u.product = v.product
        /\ u.latest = v.latest /\ u.period = v.period /\ u.playing = v.playing
        /\ u.playFrom = v.playFrom /\ u.publishRaf = v.publishRaf
        /\ u.ws = v.ws /\ u.wsTimer = v.wsTimer
        /\ u.syncing = v.syncing /\ u.hidden = v.hidden
    BY <2>2 DEF Bounded, TimelineType
  <2> HIDE DEF u
  <2>4. Bounded(u) /\ PlayOK(u)
    BY <1>1, <2>2, <2>3 DEF Bounded, PlayOK, Untouched, HasGrid
  <2>5. Moved(t, u)
    BY <2>2, <2>3, <2>4 DEF Moved, Untouched
  <2> QED
    BY <2>1, <2>5
<1>4. CASE ~(t.time + t.period >= t.latest)
  <2>1. t.time + t.period \in 0..LastFeed /\ AdvancePlay(t) = SetTime(t, t.time + t.period)
    BY <1>2, <1>4 DEF AdvancePlay
  <2> DEFINE u == SetTime(t, t.time + t.period)
  <2>2. /\ Bounded(u) /\ Untouched(t, u) /\ u.time # None
        /\ u.out # None /\ u.out.time = u.time
    BY <1>1, <2>1, Sets DEF HasGrid
  <2> HIDE DEF u
  <2>3. PlayOK(u)
    BY <1>1, <2>2 DEF Rest, PlayOK, Untouched, HasGrid
  <2>4. Moved(t, u)
    BY <2>2, <2>3 DEF Moved, Untouched
  <2> QED
    BY <2>1, <2>4 DEF u
<1> QED
  BY <1>3, <1>4

LEMMA Restarts ==
  ASSUME NEW t, Rest(t), t.playHold
  PROVE  Moved(t, RestartPlay(t))
<1>1. /\ t.playing /\ ~t.playTimer /\ t.enabled /\ ~t.hidden /\ HasGrid(t)
      /\ t.playFrom # None /\ t \in TimelineType
  BY DEF Rest, PlayOK, Bounded, TimelineType
<1> DEFINE over == [t EXCEPT !.playHold = FALSE]
           v == SetTime(over, t.playFrom)
           u == [v EXCEPT !.playTimer = TRUE]
<1>2. RestartPlay(t) = u
  BY <1>1 DEF RestartPlay
<1>3. /\ over \in TimelineType /\ ~over.playHold /\ over.time = t.time
      /\ over.enabled = t.enabled /\ over.product = t.product
      /\ over.latest = t.latest /\ over.period = t.period
      /\ over.playing = t.playing /\ over.playFrom = t.playFrom
      /\ over.ws = t.ws /\ over.wsTimer = t.wsTimer
      /\ over.syncing = t.syncing /\ over.hidden = t.hidden
  BY <1>1 DEF TimelineType
<1> HIDE DEF over
<1>4. Bounded(over) /\ t.playFrom \in 0..LastFeed /\ over.latest # None
  BY <1>1, <1>3 DEF Rest, Bounded, HasGrid
<1>5. /\ Bounded(v) /\ Untouched(over, v) /\ v.time # None
      /\ v.out # None /\ v.out.time = v.time
  BY <1>1, <1>3, <1>4, Sets
<1> HIDE DEF v
<1>6. /\ u \in TimelineType /\ u.playTimer /\ u.playHold = v.playHold
      /\ u.time = v.time /\ u.out = v.out /\ u.enabled = v.enabled
      /\ u.product = v.product /\ u.latest = v.latest /\ u.period = v.period
      /\ u.playing = v.playing /\ u.playFrom = v.playFrom
      /\ u.ws = v.ws /\ u.wsTimer = v.wsTimer
      /\ u.syncing = v.syncing /\ u.hidden = v.hidden
  BY <1>5 DEF Bounded, TimelineType
<1> HIDE DEF u
<1>7. Bounded(u) /\ PlayOK(u)
  BY <1>1, <1>3, <1>5, <1>6 DEF Bounded, PlayOK, Untouched, HasGrid
<1>8. Moved(t, u)
  BY <1>3, <1>5, <1>6, <1>7 DEF Moved, Untouched
<1> QED
  BY <1>2, <1>8

LEMMA Toggles ==
  ASSUME NEW t, Rest(t), ~t.hidden
  PROVE  Moved(t, TogglePlay(t))
BY Starts, Stops DEF TogglePlay

LEMMA Steps ==
  ASSUME NEW t, Rest(t), t.enabled, NEW frames \in Int
  PROVE  Moved(t, StepFrames(t, frames))
<1>1. CASE ~HasGrid(t)
  BY <1>1, Stays DEF StepFrames
<1>2. CASE HasGrid(t)
  <2> DEFINE to == t.time + frames * t.period
             time == Least(Most(to, OldestTime(t)), t.latest)
  <2>1. /\ t.period \in Nat \ {0} /\ t.latest \in Window..LastFeed
        /\ t.time \in 0..LastFeed /\ Window \in Nat /\ LastFeed \in Nat
        /\ OldestTime(t) \in 0..t.latest
    BY <1>2, Grid, GridOf, Oldest DEF Rest
  <2>2. to \in Int
    BY <2>1
  <2> HIDE DEF to
  <2>3. time \in 0..t.latest
    BY <2>1, <2>2 DEF Least, Most
  <2>4. StepFrames(t, frames) = SetTime(StopPlay(t), time)
    BY <1>2 DEF StepFrames, to
  <2> HIDE DEF time
  <2> QED
    BY <1>2, <2>3, <2>4, StopsAt DEF HasGrid
<1> QED
  BY <1>1, <1>2

LEMMA GoesLive ==
  ASSUME NEW t, Rest(t), t.enabled
  PROVE  Moved(t, GoLive(t))
<1>1. CASE t.latest = None
  BY <1>1, Stays DEF GoLive
<1>2. CASE t.latest # None
  <2>1. t.latest \in 0..t.latest
    BY <1>2, WindowAssumption, FeedAssumption DEF Rest, Bounded
  <2> QED
    BY <1>2, <2>1, StopsAt DEF GoLive
<1> QED
  BY <1>1, <1>2

LEMMA GoesOldest ==
  ASSUME NEW t, Rest(t)
  PROVE  Moved(t, GoOldest(t))
<1>1. CASE ~t.enabled \/ ~HasGrid(t)
  BY <1>1, Stays DEF GoOldest
<1>2. CASE t.enabled /\ HasGrid(t)
  <2> DEFINE u == SetTime(t, OldestTime(t))
  <2>1. OldestTime(t) \in 0..LastFeed
    BY <1>2, Oldest, GridOf, WindowAssumption, FeedAssumption DEF Rest
  <2>2. /\ Bounded(u) /\ Untouched(t, u) /\ u.time # None
        /\ u.out # None /\ u.out.time = u.time
    BY <1>2, <2>1, Sets DEF Rest, HasGrid
  <2>3. GoOldest(t) = u
    BY <1>2 DEF GoOldest
  <2> HIDE DEF u
  <2>4. PlayOK(u)
    BY <2>2 DEF Rest, PlayOK, Untouched, HasGrid
  <2> QED
    BY <2>2, <2>3, <2>4 DEF Moved, Untouched
<1> QED
  BY <1>1, <1>2

LEMMA HourIsFrames ==
  ASSUME NEW t, Rest(t), HasGrid(t), NEW dir \in {-1, 1}
  PROVE  dir * HourFrames(t) \in Int
<1>1. t.period \in Nat \ {0} /\ Round(Hour, t.period) \in Int
  BY Grid, GridOf, Rounding, WindowAssumption DEF Rest
<1>2. HourFrames(t) \in Int
  BY <1>1, WindowAssumption DEF HourFrames, Most
<1> QED
  BY <1>2

LEMMA Drags ==
  ASSUME NEW t, Rest(t), HasGrid(t), NEW idx \in 0..MaxIdx(t)
  PROVE  Moved(t, DragTo(t, idx))
<1> DEFINE time == t.latest - idx * t.period
           u == [t EXCEPT !.time = time, !.live = FALSE, !.publishRaf = TRUE]
<1>1. CASE time = t.time
  BY <1>1, Stays DEF DragTo
<1>2. CASE time # t.time
  <2>1. /\ time \in 0..t.latest /\ t.latest \in Window..LastFeed
        /\ t \in TimelineType
    BY Grid, GridOf DEF Rest, Bounded
  <2>2. time \in 0..LastFeed /\ time \in Int /\ time # None
    BY <2>1, ProductAssumption, WindowAssumption, FeedAssumption
  <2>3. DragTo(t, idx) = u
    BY <1>2 DEF DragTo
  <2> HIDE DEF time
  <2>4. /\ u \in TimelineType /\ u.time = time /\ u.publishRaf /\ u.out = t.out
        /\ u.enabled = t.enabled /\ u.product = t.product
        /\ u.latest = t.latest /\ u.period = t.period /\ u.playing = t.playing
        /\ u.playTimer = t.playTimer /\ u.playHold = t.playHold
        /\ u.playFrom = t.playFrom /\ u.ws = t.ws /\ u.wsTimer = t.wsTimer
        /\ u.syncing = t.syncing /\ u.hidden = t.hidden
    BY <2>1, <2>2 DEF TimelineType
  <2> HIDE DEF u
  <2>5. Bounded(u) /\ PlayOK(u)
    BY <2>2, <2>4 DEF Rest, Bounded, PlayOK, HasGrid
  <2> QED
    BY <2>2, <2>3, <2>4, <2>5 DEF Moved, Rest
<1> QED
  BY <1>1, <1>2

LEMMA DragStarts ==
  ASSUME NEW t, Rest(t), NEW idx \in 0..MaxIdx(t), HasGrid(t)
  PROVE  Moved(t, TrackDown(t, idx))
<1>1. CASE ~t.enabled
  BY <1>1, Stays DEF TrackDown
<1>2. CASE t.enabled
  <2> DEFINE p == StopPlay(t)
             s == [p EXCEPT !.dragging = TRUE]
  <2>1. /\ t \in TimelineType
        /\ p = [t EXCEPT !.playing = FALSE, !.playTimer = FALSE, !.playHold = FALSE]
    BY Stopping DEF Rest, Bounded
  <2>2. s = [t EXCEPT !.playing = FALSE, !.playTimer = FALSE, !.playHold = FALSE,
                      !.dragging = TRUE]
    BY <2>1
  <2>3. TrackDown(t, idx) = DragTo(s, idx)
    BY <1>2 DEF TrackDown
  <2> HIDE DEF p, s
  <2>4. /\ s \in TimelineType /\ ~s.playing /\ ~s.playTimer /\ ~s.playHold
        /\ s.time = t.time /\ s.out = t.out /\ s.publishRaf = t.publishRaf
        /\ s.enabled = t.enabled /\ s.product = t.product
        /\ s.latest = t.latest /\ s.period = t.period
        /\ s.playFrom = t.playFrom /\ s.ws = t.ws /\ s.wsTimer = t.wsTimer
        /\ s.syncing = t.syncing /\ s.hidden = t.hidden
    BY <2>1, <2>2 DEF TimelineType
  <2>5. Rest(s) /\ Moved(t, s) /\ HasGrid(s) /\ MaxIdx(s) = MaxIdx(t)
    BY <2>4 DEF Rest, Moved, Bounded, PlayOK, HasGrid, MaxIdx
  <2>6. Moved(s, DragTo(s, idx))
    BY <2>5, Drags
  <2> QED
    BY <2>3, <2>4, <2>5, <2>6, MovedOn DEF Rest
<1> QED
  BY <1>1, <1>2

LEMMA DragEnds ==
  ASSUME NEW t, Rest(t)
  PROVE  Moved(t, TrackUp(t))
<1>1. CASE ~t.dragging
  BY <1>1, Stays DEF TrackUp
<1>2. CASE t.dragging
  <2> DEFINE s == [t EXCEPT !.dragging = FALSE]
  <2>1. TrackUp(t) = PublishFrame(s)
    BY <1>2 DEF TrackUp
  <2>2. Rest(s) /\ Moved(t, s) /\ s.time = t.time /\ s.publishRaf = t.publishRaf
    BY DEF Rest, Bounded, PlayOK, Moved, HasGrid, TimelineType
  <2> HIDE DEF s
  <2> QED
    BY <2>1, <2>2, Publishes, MovedOn DEF Rest
<1> QED
  BY <1>1, <1>2

LEMMA FramePublishes ==
  ASSUME NEW t, Rest(t)
  PROVE  Moved(t, PublishOnFrame(t))
<1> DEFINE s == [t EXCEPT !.publishRaf = FALSE]
<1>1. PublishOnFrame(t) = PublishFrame(s)
  BY DEF PublishOnFrame
<1>2. /\ s \in TimelineType /\ s.time = t.time /\ s.out = t.out /\ s.live = t.live
      /\ s.playing = t.playing /\ s.playTimer = t.playTimer /\ s.playHold = t.playHold
      /\ s.enabled = t.enabled /\ s.product = t.product
      /\ s.latest = t.latest /\ s.period = t.period
      /\ s.playFrom = t.playFrom /\ s.ws = t.ws /\ s.wsTimer = t.wsTimer
      /\ s.syncing = t.syncing /\ s.hidden = t.hidden
  BY DEF Rest, Bounded, TimelineType
<1> HIDE DEF s
<1>3. Rest(s)
  BY <1>2 DEF Rest, Bounded, PlayOK, HasGrid
<1>4. /\ Moved(s, PublishFrame(s)) /\ Untouched(s, PublishFrame(s))
      /\ s.enabled /\ s.time # None => PublishFrame(s).out # None
      /\ PublishFrame(s).out = None => PublishFrame(s) = s
  BY <1>3, Publishes
<1> DEFINE u == PublishFrame(s)
<1> HIDE DEF u
<1>5. Moved(t, u)
  BY <1>2, <1>4 DEF Moved, Untouched, u
<1> QED
  BY <1>1, <1>5 DEF u

LEMMA Reports ==
  ASSUME NEW t, Rest(t)
  PROVE  Moved(t, Reported(t))
BY DEF Reported, Rest, Moved, Bounded, PlayOK, HasGrid, TimelineType

-----------------------------------------------------------------------------
(* The state of the server, the network and the tab                        *)

\* What a frame that a callback has emitted says.
Emitted(u) == u.out # None => u.out.time = u.time /\ u.time # None

\* Everything but the connection to the network.
Core(t, u) ==
  /\ u.enabled = t.enabled /\ u.product = t.product
  /\ u.latest = t.latest /\ u.period = t.period
  /\ u.time = t.time /\ u.live = t.live /\ u.playing = t.playing
  /\ u.playTimer = t.playTimer /\ u.playHold = t.playHold
  /\ u.playFrom = t.playFrom /\ u.publishRaf = t.publishRaf
  /\ u.hidden = t.hidden /\ u.out = t.out

LEMMA CoreRests ==
  ASSUME NEW t, NEW u \in TimelineType, Core(t, u), Rest(t)
  PROVE  Rest(u) /\ (Following(t) => Following(u))
BY DEF Core, Rest, Bounded, PlayOK, HasGrid, Following

LEMMA Opening ==
  ASSUME NEW t \in TimelineType
  PROVE  /\ OpenSocket(t) \in TimelineType /\ Core(t, OpenSocket(t))
         /\ OpenSocket(t).ws <=> t.ws \/ ~t.hidden
         /\ OpenSocket(t).wsTimer = t.wsTimer
         /\ OpenSocket(t).syncing = t.syncing
<1>1. CASE t.ws \/ t.hidden
  BY <1>1 DEF OpenSocket, Core
<1>2. CASE ~(t.ws \/ t.hidden)
  BY <1>2 DEF OpenSocket, Core, TimelineType
<1> QED
  BY <1>1, <1>2

LEMMA Resyncing ==
  ASSUME NEW t \in TimelineType
  PROVE  /\ Resync(t) \in TimelineType /\ Core(t, Resync(t))
         /\ Resync(t).ws = t.ws /\ Resync(t).wsTimer = t.wsTimer
         /\ Resync(t).syncing = IF t.syncing = None THEN t.product ELSE t.syncing
         /\ Resync(t).syncing # None
<1>1. CASE t.syncing # None
  BY <1>1 DEF Resync, Core
<1>2. CASE t.syncing = None
  BY <1>2, ProductAssumption DEF Resync, Core, TimelineType
<1> QED
  BY <1>1, <1>2

LEMMA Applies ==
  ASSUME NEW t, Rest(t), NEW config \in Config
  PROVE  LET u == ApplyState(t, config)
             asks == config.enabled /\ (t.latest = None \/ t.product # config.product)
         IN /\ Bounded(u) /\ PlayOK(u) /\ Emitted(u)
            /\ u.enabled = config.enabled /\ u.product = config.product
            /\ u.latest = t.latest /\ u.period = t.period /\ u.hidden = t.hidden
            /\ u.playing => t.playing
            /\ u.syncing = IF asks /\ t.syncing = None THEN config.product ELSE t.syncing
            /\ config.enabled =>
                 (u.ws \/ u.wsTimer <=> t.ws \/ t.wsTimer \/ ~t.hidden)
            /\ ~config.enabled => ~u.ws /\ ~u.wsTimer
            /\ config.enabled /\ ~asks => u.out # None
            /\ Following(t) => Following(u)
<1> DEFINE next == [t EXCEPT !.enabled = config.enabled, !.product = config.product]
           stopped == StopPlay(next)
           open0 == OpenSocket(next)
<1>1. /\ t \in TimelineType /\ config.enabled \in BOOLEAN /\ config.product \in Product
      /\ t.out = None
  BY DEF Rest, Bounded, Config
<1>2. /\ next \in TimelineType
      /\ next.enabled = config.enabled /\ next.product = config.product
      /\ next.latest = t.latest /\ next.period = t.period /\ next.time = t.time
      /\ next.live = t.live /\ next.playing = t.playing
      /\ next.playTimer = t.playTimer /\ next.playHold = t.playHold
      /\ next.playFrom = t.playFrom /\ next.publishRaf = t.publishRaf
      /\ next.ws = t.ws /\ next.wsTimer = t.wsTimer
      /\ next.syncing = t.syncing /\ next.hidden = t.hidden /\ next.out = t.out
  BY <1>1 DEF TimelineType
<1> HIDE DEF next
<1>3. CASE ~config.enabled
  <2> DEFINE u == CloseSocket(stopped)
  <2>1. ApplyState(t, config) = u
    BY <1>3 DEF ApplyState, next
  <2>2. u = [next EXCEPT !.playing = FALSE, !.playTimer = FALSE, !.playHold = FALSE,
                         !.wsTimer = FALSE, !.ws = FALSE]
    BY <1>2, Stopping DEF CloseSocket
  <2> HIDE DEF u
  <2>3. /\ u \in TimelineType /\ ~u.playing /\ ~u.playTimer /\ ~u.playHold
        /\ ~u.ws /\ ~u.wsTimer
        /\ u.enabled = next.enabled /\ u.product = next.product
        /\ u.latest = next.latest /\ u.period = next.period /\ u.time = next.time
        /\ u.live = next.live /\ u.playFrom = next.playFrom
        /\ u.syncing = next.syncing /\ u.hidden = next.hidden /\ u.out = next.out
    BY <1>2, <2>2 DEF TimelineType
  <2> QED
    BY <1>1, <1>2, <1>3, <2>1, <2>3
    DEF Rest, Bounded, PlayOK, Emitted, Following
<1>4. CASE config.enabled
  <2>0. Rest(next) /\ (Following(t) => Following(next))
    BY <1>1, <1>2, <1>4 DEF Rest, Bounded, PlayOK, HasGrid, Following
  <2>1. /\ open0 \in TimelineType /\ Core(next, open0)
        /\ open0.ws <=> t.ws \/ ~t.hidden
        /\ open0.wsTimer = t.wsTimer /\ open0.syncing = t.syncing
    BY <1>2, Opening
  <2> HIDE DEF open0
  <2>2. Rest(open0) /\ (Following(t) => Following(open0))
    BY <2>0, <2>1, CoreRests
  <2>4. CASE t.latest = None \/ t.product # config.product
    <3> DEFINE u == Resync(open0)
    <3>1. ApplyState(t, config) = u
      BY <1>4, <2>4 DEF ApplyState, next, open0
    <3>2. /\ u \in TimelineType /\ Core(open0, u)
          /\ u.syncing = IF t.syncing = None THEN config.product ELSE t.syncing
          /\ u.ws = open0.ws /\ u.wsTimer = open0.wsTimer
      BY <1>2, <2>1, Resyncing DEF Core
    <3> HIDE DEF u
    <3>3. Rest(u) /\ (Following(t) => Following(u))
      BY <2>2, <3>2, CoreRests
    <3>4. u.ws \/ u.wsTimer <=> t.ws \/ t.wsTimer \/ ~t.hidden
      BY <2>1, <3>2
    <3> QED
      BY <1>2, <1>4, <2>1, <2>4, <3>1, <3>2, <3>3, <3>4 DEF Core, Rest, Emitted
  <2>5. CASE ~(t.latest = None \/ t.product # config.product)
    <3> DEFINE u == PublishFrame(open0)
    <3>1. ApplyState(t, config) = u
      BY <1>4, <2>5 DEF ApplyState, next, open0
    <3>2. open0.enabled /\ open0.latest # None /\ open0.time # None
          /\ open0 \in TimelineType
      BY <1>2, <1>4, <2>1, <2>2, <2>5 DEF Core, Rest, Bounded
    <3>3. Moved(open0, u) /\ Untouched(open0, u) /\ u.out # None
      BY <2>2, <3>2, Publishes
    <3>4. Following(open0) => Following(u)
      <4>1. /\ u.time = IF open0.time >= open0.latest THEN open0.latest ELSE open0.time
            /\ open0.time >= open0.latest => u.live
        BY <3>2, Publishing DEF Shows
      <4>2. open0.latest \in Int
        BY <2>2, <3>2, WindowAssumption, FeedAssumption DEF Rest, Bounded
      <4> QED
        BY <3>3, <4>1, <4>2 DEF Following, Untouched
    <3> HIDE DEF u
    <3>5. u.ws \/ u.wsTimer <=> t.ws \/ t.wsTimer \/ ~t.hidden
      BY <2>1, <3>3 DEF Untouched
    <3> QED
      BY <1>2, <1>4, <2>1, <2>2, <2>5, <3>1, <3>2, <3>3, <3>4, <3>5
      DEF Moved, Untouched, Emitted, Core
  <2> QED
    BY <2>4, <2>5
<1> QED
  BY <1>1, <1>3, <1>4

LEMMA Flooring ==
  ASSUME NEW time \in FirstFeed - 1..LastFeed, NEW period \in Periods
  PROVE  /\ FloorToPeriod(time, period) \in Window..LastFeed
         /\ FloorToPeriod(time, period) % period = 0
<1>1. period \in Nat \ {0} /\ Window + period <= FirstFeed /\ time \in Int
  BY PeriodFacts, FeedAssumption
<1>2. /\ FloorToPeriod(time, period) \in Int
      /\ FloorToPeriod(time, period) <= time
      /\ time < FloorToPeriod(time, period) + period
      /\ FloorToPeriod(time, period) % period = 0
  BY <1>1, Times DEF FloorToPeriod
<1> QED
  BY <1>1, <1>2, FeedAssumption, WindowAssumption

LEMMA Answers ==
  ASSUME NEW t, Rest(t), NEW time \in FirstFeed - 1..LastFeed,
         NEW answered \in Periods \cup {None}
  PROVE  LET u == Synced(t, time, answered)
             period == IF answered = None THEN Period[t.product] ELSE answered
         IN /\ Bounded(u) /\ PlayOK(u) /\ Emitted(u)
            /\ u.enabled = t.enabled /\ u.product = t.product
            /\ u.hidden = t.hidden /\ u.playing = t.playing
            /\ u.publishRaf = t.publishRaf
            /\ u.ws = t.ws /\ u.wsTimer = t.wsTimer
            /\ u.syncing = None /\ u.period = period
            /\ u.latest # None /\ u.latest % period = 0
            /\ u.enabled => u.out # None
            /\ Following(t) => Following(u)
<1> DEFINE period == IF answered = None THEN Period[t.product] ELSE answered
           newest == FloorToPeriod(time, period)
           got == [t EXCEPT !.latest = newest, !.period = period, !.syncing = None]
           to == IF t.live \/ t.time = None THEN newest ELSE SnapToGrid(got)
           u == SetTime(got, to)
<1>1. t \in TimelineType /\ t.product \in Product /\ t.out = None
  BY DEF Rest, Bounded, TimelineType
<1>2. period \in Periods
  BY <1>1, PeriodFacts
<1> HIDE DEF period
<1>3. /\ newest \in Window..LastFeed /\ newest % period = 0
      /\ period \in Nat /\ newest \in Int /\ newest # None /\ period # None
      /\ Window \in Nat /\ LastFeed \in Nat /\ newest \in 0..LastFeed
  BY <1>2, Flooring, PeriodFacts, ProductAssumption, WindowAssumption, FeedAssumption
<1> HIDE DEF newest
<1>4. /\ got \in TimelineType /\ got.latest = newest /\ got.period = period
      /\ got.syncing = None /\ got.out = None
      /\ got.enabled = t.enabled /\ got.product = t.product
      /\ got.time = t.time /\ got.live = t.live /\ got.playing = t.playing
      /\ got.playTimer = t.playTimer /\ got.playHold = t.playHold
      /\ got.playFrom = t.playFrom /\ got.publishRaf = t.publishRaf
      /\ got.ws = t.ws /\ got.wsTimer = t.wsTimer /\ got.hidden = t.hidden
  BY <1>1, <1>3 DEF TimelineType
<1>5. Synced(t, time, answered) = u
  BY <1>4 DEF Synced, newest, period
<1> HIDE DEF got
<1>6. to \in 0..newest /\ (t.live => to = newest)
  <2>1. CASE t.live \/ t.time = None
    BY <1>3, <2>1
  <2>2. CASE ~(t.live \/ t.time = None)
    <3>1. t.time \in Int
      BY <1>1, <2>2 DEF TimelineType
    <3> QED
      BY <1>2, <1>3, <1>4, <2>2, <3>1, Snapping
  <2> QED
    BY <2>1, <2>2
<1>7. to \in Int /\ to \in 0..LastFeed /\ to # None
  BY <1>3, <1>6, ProductAssumption
<1> HIDE DEF to
<1>8. /\ u \in TimelineType /\ Untouched(got, u)
      /\ t.enabled =>
           /\ u.time = IF to >= newest THEN newest ELSE to
           /\ to >= newest => u.live
           /\ u.out # None /\ u.out.time = u.time
      /\ ~t.enabled => u.time = to /\ u.live = t.live /\ u.out = None
  BY <1>3, <1>4, <1>7, Setting
<1> HIDE DEF u
<1>9. u.time = to
  BY <1>1, <1>3, <1>6, <1>8 DEF TimelineType
<1>10. Bounded(u) /\ PlayOK(u)
  BY <1>2, <1>3, <1>4, <1>7, <1>8, <1>9
  DEF Rest, Bounded, PlayOK, HasGrid, Untouched
<1>11. Following(t) => Following(u)
  <2> SUFFICES ASSUME Following(t) PROVE Following(u)
    OBVIOUS
  <2>1. to = newest /\ t.enabled \in BOOLEAN /\ t.live /\ ~t.playing
    BY <1>1, <1>6 DEF Following, TimelineType
  <2>2. u.live
    <3>1. to >= newest
      BY <1>3, <2>1
    <3>2. CASE t.enabled
      BY <1>8, <3>1, <3>2
    <3>3. CASE ~t.enabled
      BY <1>8, <2>1, <3>3
    <3> QED
      BY <2>1, <3>2, <3>3
  <2> QED
    BY <1>4, <1>8, <1>9, <2>1, <2>2 DEF Following, Untouched
<1>12. Emitted(u)
  BY <1>1, <1>7, <1>8, <1>9 DEF Emitted, TimelineType
<1> QED
  BY <1>3, <1>4, <1>5, <1>8, <1>10, <1>11, <1>12 DEF Untouched, period

LEMMA Receives ==
  ASSUME NEW t, Rest(t), t.enabled,
         NEW p \in Product, NEW time \in FirstFeed - 1..LastFeed
  PROVE  LET u == SocketMessage(t, p, time)
         IN /\ Bounded(u) /\ PlayOK(u) /\ Emitted(u)
            /\ u.enabled = t.enabled /\ u.product = t.product /\ u.period = t.period
            /\ u.hidden = t.hidden /\ u.playing = t.playing
            /\ u.publishRaf = t.publishRaf
            /\ u.ws = t.ws /\ u.wsTimer = t.wsTimer /\ u.syncing = t.syncing
            /\ t.latest # None => u.latest # None
            /\ u.latest = t.latest \/ t.period = None \/ u.latest % t.period = 0
            /\ u.out = None => u.time = t.time
            /\ Following(t) => Following(u)
<1> DEFINE period == IF t.period = None THEN Period[t.product] ELSE t.period
           newest == FloorToPeriod(time, period)
           known == [t EXCEPT !.latest = newest]
           u == SocketMessage(t, p, time)
<1>1. t \in TimelineType /\ t.product \in Product /\ t.out = None
  BY DEF Rest, Bounded, TimelineType
<1>2. period \in Periods /\ (t.period # None => period = t.period)
  BY <1>1, PeriodFacts DEF Rest, Bounded
<1> HIDE DEF period
<1>3. /\ newest \in Window..LastFeed /\ newest % period = 0
      /\ newest \in Int /\ newest # None
      /\ Window \in Nat /\ LastFeed \in Nat /\ newest \in 0..LastFeed
  BY <1>2, Flooring, PeriodFacts, ProductAssumption, WindowAssumption, FeedAssumption
<1> HIDE DEF newest
<1>4. /\ known \in TimelineType /\ known.latest = newest /\ known.period = t.period
      /\ known.syncing = t.syncing /\ known.out = None
      /\ known.enabled = t.enabled /\ known.product = t.product
      /\ known.time = t.time /\ known.live = t.live /\ known.playing = t.playing
      /\ known.playTimer = t.playTimer /\ known.playHold = t.playHold
      /\ known.playFrom = t.playFrom /\ known.publishRaf = t.publishRaf
      /\ known.ws = t.ws /\ known.wsTimer = t.wsTimer /\ known.hidden = t.hidden
  BY <1>1, <1>3 DEF TimelineType
<1> HIDE DEF known
<1>5. CASE p # t.product \/ (t.latest # None /\ newest <= t.latest)
  <2>1. u = t
    BY <1>5 DEF SocketMessage, newest, period
  <2> QED
    BY <1>1, <2>1 DEF Rest, Emitted
<1>6. CASE ~(p # t.product \/ (t.latest # None /\ newest <= t.latest)) /\ t.live /\ ~t.playing
  <2> DEFINE v == SetTime(known, newest)
  <2>1. u = v
    BY <1>6 DEF SocketMessage, newest, period, known
  <2>2. /\ v \in TimelineType /\ Untouched(known, v)
        /\ v.time = IF newest >= newest THEN newest ELSE newest
        /\ newest >= newest => v.live
        /\ v.out # None /\ v.out.time = v.time
    BY <1>3, <1>4, Setting
  <2> HIDE DEF v
  <2>3. v.time = newest /\ v.live
    BY <1>3, <2>2
  <2>4. Bounded(v) /\ PlayOK(v)
    BY <1>2, <1>3, <1>4, <1>6, <2>2, <2>3
    DEF Rest, Bounded, PlayOK, HasGrid, Untouched
  <2> QED
    BY <1>2, <1>3, <1>4, <1>6, <2>1, <2>2, <2>3, <2>4
    DEF Emitted, Following, Untouched
<1>7. CASE ~(p # t.product \/ (t.latest # None /\ newest <= t.latest)) /\ (~t.live \/ t.playing)
  <2>1. u = known
    BY <1>7 DEF SocketMessage, newest, period, known
  <2>2. t.time # None
    BY <1>7 DEF Rest, Bounded, PlayOK, HasGrid
  <2>3. Bounded(known) /\ PlayOK(known)
    BY <1>2, <1>3, <1>4, <2>2 DEF Rest, Bounded, PlayOK, HasGrid
  <2> QED
    BY <1>1, <1>2, <1>3, <1>4, <1>7, <2>1, <2>2, <2>3 DEF Emitted, Following
<1>8. t.live \in BOOLEAN /\ t.playing \in BOOLEAN
  BY <1>1 DEF TimelineType
<1> QED
  BY <1>5, <1>6, <1>7, <1>8

LEMMA Reconnecting ==
  ASSUME NEW t \in TimelineType, t.enabled, ~t.hidden
  PROVE  /\ Reconnect(t) \in TimelineType /\ Core(t, Reconnect(t))
         /\ Reconnect(t).ws /\ Reconnect(t).syncing # None
<1> DEFINE fired == [t EXCEPT !.wsTimer = FALSE]
           o == OpenSocket(fired)
<1>1. /\ fired \in TimelineType /\ Core(t, fired)
      /\ Reconnect(t) = Resync(o)
  BY DEF TimelineType, Core, Reconnect
<1> HIDE DEF fired
<1>2. o \in TimelineType /\ Core(fired, o) /\ o.ws
  BY <1>1, Opening DEF Core
<1> HIDE DEF o
<1>3. Resync(o) \in TimelineType /\ Core(o, Resync(o))
      /\ Resync(o).ws = o.ws /\ Resync(o).syncing # None
  BY <1>2, Resyncing
<1> QED
  BY <1>1, <1>2, <1>3 DEF Core

LEMMA Losing ==
  ASSUME NEW t \in TimelineType
  PROVE  /\ ScheduleReconnect(t) \in TimelineType /\ Core(t, ScheduleReconnect(t))
         /\ ~ScheduleReconnect(t).ws
         /\ ScheduleReconnect(t).wsTimer <=> t.enabled \/ t.wsTimer
         /\ ScheduleReconnect(t).syncing = t.syncing
<1> DEFINE timer == t.enabled \/ t.wsTimer
<1>1. timer \in BOOLEAN
  OBVIOUS
<1>2. ScheduleReconnect(t) = [t EXCEPT !.ws = FALSE, !.wsTimer = timer]
  BY DEF ScheduleReconnect
<1> HIDE DEF timer
<1>3. /\ ScheduleReconnect(t) \in TimelineType /\ Core(t, ScheduleReconnect(t))
      /\ ~ScheduleReconnect(t).ws
      /\ ScheduleReconnect(t).wsTimer <=> timer
      /\ ScheduleReconnect(t).syncing = t.syncing
  BY <1>1, <1>2 DEF TimelineType, Core
<1> QED
  BY <1>3 DEF timer

LEMMA Failing ==
  ASSUME NEW t \in TimelineType
  PROVE  /\ SyncFailed(t) \in TimelineType /\ Core(t, SyncFailed(t))
         /\ SyncFailed(t).ws = t.ws /\ SyncFailed(t).wsTimer = t.wsTimer
BY DEF SyncFailed, TimelineType, Core

\* Stopped and without a connection.
LEMMA Silenced ==
  ASSUME NEW t, Bounded(t)
  PROVE  LET u == CloseSocket(StopPlay(t))
         IN /\ Bounded(u) /\ PlayOK(u) /\ ~u.playing /\ ~u.ws /\ ~u.wsTimer
            /\ u.enabled = t.enabled /\ u.product = t.product
            /\ u.latest = t.latest /\ u.period = t.period
            /\ u.time = t.time /\ u.live = t.live /\ u.publishRaf = t.publishRaf
            /\ u.hidden = t.hidden /\ u.syncing = t.syncing /\ u.out = t.out
<1> DEFINE u == CloseSocket(StopPlay(t))
<1>1. t \in TimelineType
  BY DEF Bounded
<1>2. u = [t EXCEPT !.playing = FALSE, !.playTimer = FALSE, !.playHold = FALSE,
                    !.wsTimer = FALSE, !.ws = FALSE]
  BY <1>1, Stopping DEF CloseSocket
<1> HIDE DEF u
<1>3. /\ u \in TimelineType /\ ~u.playing /\ ~u.playTimer /\ ~u.playHold
      /\ ~u.ws /\ ~u.wsTimer
      /\ u.enabled = t.enabled /\ u.product = t.product
      /\ u.latest = t.latest /\ u.period = t.period
      /\ u.time = t.time /\ u.live = t.live /\ u.publishRaf = t.publishRaf
      /\ u.playFrom = t.playFrom /\ u.hidden = t.hidden /\ u.syncing = t.syncing
      /\ u.out = t.out
  BY <1>1, <1>2 DEF TimelineType
<1> QED
  BY <1>3 DEF Bounded, PlayOK, u

LEMMA Looking ==
  ASSUME NEW t, Rest(t)
  PROVE  LET u == VisibilityChanged(t)
         IN /\ Rest(u)
            /\ u.enabled = t.enabled /\ u.product = t.product
            /\ u.latest = t.latest /\ u.period = t.period
            /\ u.time = t.time /\ u.live = t.live /\ u.publishRaf = t.publishRaf
            /\ u.syncing = t.syncing /\ u.hidden = ~t.hidden
            /\ u.playing => t.playing
            /\ u.hidden => ~u.ws /\ ~u.wsTimer
            /\ ~u.hidden /\ t.enabled => u.ws
            /\ ~u.hidden /\ ~t.enabled => u.ws = t.ws /\ u.wsTimer = t.wsTimer
            /\ Following(t) => Following(u)
<1> DEFINE hidden == ~t.hidden
           seen == [t EXCEPT !.hidden = hidden]
           u == VisibilityChanged(t)
<1>1. t \in TimelineType /\ hidden \in BOOLEAN /\ t.hidden \in BOOLEAN
  BY DEF Rest, Bounded, TimelineType
<1>2. u = IF seen.hidden THEN CloseSocket(StopPlay(seen))
          ELSE IF t.enabled THEN OpenSocket(seen) ELSE seen
  BY DEF VisibilityChanged
<1> HIDE DEF hidden, u
<1>3. /\ seen \in TimelineType /\ seen.hidden = hidden
      /\ seen.enabled = t.enabled /\ seen.product = t.product
      /\ seen.latest = t.latest /\ seen.period = t.period
      /\ seen.time = t.time /\ seen.live = t.live /\ seen.publishRaf = t.publishRaf
      /\ seen.playing = t.playing /\ seen.playTimer = t.playTimer
      /\ seen.playHold = t.playHold /\ seen.playFrom = t.playFrom
      /\ seen.syncing = t.syncing /\ seen.out = t.out
      /\ seen.ws = t.ws /\ seen.wsTimer = t.wsTimer
  BY <1>1 DEF TimelineType
<1> HIDE DEF seen
<1>4. Bounded(seen)
  BY <1>3 DEF Rest, Bounded
<1>5. CASE t.hidden
  <2>1. ~hidden /\ ~t.playing
    BY <1>5 DEF hidden, Rest, PlayOK
  <2>2. Rest(seen)
    BY <1>3, <1>4, <2>1 DEF Rest, PlayOK
  <2>3. CASE t.enabled
    <3>1. u = OpenSocket(seen)
      BY <1>2, <1>3, <2>1, <2>3
    <3>2. u \in TimelineType /\ Core(seen, u) /\ u.ws /\ u.syncing = seen.syncing
      BY <1>3, <2>1, <3>1, Opening
    <3>3. Rest(u)
      BY <2>2, <3>2, CoreRests
    <3> QED
      BY <1>3, <1>5, <2>1, <2>3, <3>2, <3>3 DEF Core, Following, u, hidden
  <2>4. CASE ~t.enabled
    <3>1. u = seen
      BY <1>2, <1>3, <2>1, <2>4
    <3> QED
      BY <1>3, <1>5, <2>1, <2>2, <2>4, <3>1 DEF Following, u, hidden
  <2> QED
    BY <2>3, <2>4
<1>6. CASE ~t.hidden
  <2>1. hidden
    BY <1>6 DEF hidden
  <2>2. u = CloseSocket(StopPlay(seen))
    BY <1>2, <1>3, <2>1
  <2>3. /\ Bounded(u) /\ PlayOK(u) /\ ~u.playing /\ ~u.ws /\ ~u.wsTimer
        /\ u.enabled = seen.enabled /\ u.product = seen.product
        /\ u.latest = seen.latest /\ u.period = seen.period
        /\ u.time = seen.time /\ u.live = seen.live
        /\ u.publishRaf = seen.publishRaf
        /\ u.hidden = seen.hidden /\ u.syncing = seen.syncing /\ u.out = seen.out
    BY <1>4, <2>2, Silenced
  <2>4. Rest(u)
    BY <1>3, <2>3 DEF Rest
  <2> QED
    BY <1>3, <1>6, <2>1, <2>3, <2>4 DEF Following, u, hidden
<1> QED
  BY <1>5, <1>6

-----------------------------------------------------------------------------
(* The map                                                                 *)

MapOK(m) ==
  /\ m \in Map!MapType(0..LastFeed) /\ m.style = "ready"
  /\ m.layer <=> m.source # None
  /\ m.layer => m.enabled /\ m.source = Map!TileUrl(m)

LEMMA Tiles ==
  ASSUME NEW p \in Product, NEW time \in 0..LastFeed
  PROVE  [product |-> p, time |-> time] \in [product : Product, time : 0..LastFeed]
         /\ [product |-> p, time |-> time] # None
BY FeedAssumption

LEMMA Draws ==
  ASSUME NEW m, MapOK(m), NEW time \in 0..LastFeed
  PROVE  LET n == Map!ApplyRadarFrame(m, time)
         IN MapOK(n) /\ n.enabled = m.enabled /\ n.product = m.product /\ n.time = time
<1> DEFINE next == [m EXCEPT !.time = time]
           n == Map!ApplyRadarFrame(m, time)
           url == [product |-> m.product, time |-> time]
<1>1. /\ next \in Map!MapType(0..LastFeed) /\ next.time = time
      /\ next.enabled = m.enabled /\ next.product = m.product /\ next.layer = m.layer
      /\ next.source = m.source /\ next.style = "ready"
      /\ m \in Map!MapType(0..LastFeed) /\ time # None
  BY ProductAssumption DEF MapOK, Map!MapType
<1>2. Map!TileUrl(next) = url
  BY <1>1 DEF Map!TileUrl
<1>3. CASE ~m.enabled
  <2>1. n = next
    BY <1>3 DEF Map!ApplyRadarFrame
  <2> HIDE DEF next, n
  <2> QED
    BY <1>1, <1>3, <2>1 DEF MapOK, n
<1>4. CASE m.enabled /\ m.product = None
  <2>1. ~m.layer
    BY <1>1, <1>4, ProductAssumption, FeedAssumption
    DEF MapOK, Map!MapType, Map!TileUrl
  <2>2. n = next
    BY <1>1, <1>4, <2>1 DEF Map!ApplyRadarFrame, Map!AddRadarLayer
  <2> HIDE DEF next, n
  <2> QED
    BY <1>1, <2>1, <2>2 DEF MapOK, n
<1>5. CASE m.enabled /\ m.product # None
  <2>1. m.product \in Product
    BY <1>1, <1>5 DEF Map!MapType
  <2>2. url \in [product : Product, time : 0..LastFeed] /\ url # None
    BY <2>1, Tiles
  <2>3. CASE ~m.layer
    <3>1. n = [next EXCEPT !.layer = TRUE, !.source = url, !.missed = FALSE]
      <4>1. m.source = None
        BY <2>3 DEF MapOK
      <4> QED
        BY <1>1, <1>2, <1>5, <2>3, <4>1 DEF Map!ApplyRadarFrame, Map!AddRadarLayer
    <3> HIDE DEF next, n, url
    <3>2. /\ n \in Map!MapType(0..LastFeed) /\ n.style = "ready" /\ n.layer
          /\ n.source = url /\ n.enabled = m.enabled /\ n.product = m.product
          /\ n.time = time
      BY <1>1, <2>2, <3>1 DEF Map!MapType
    <3> QED
      BY <1>5, <2>2, <3>2 DEF MapOK, Map!TileUrl, n, url
  <2>4. CASE m.layer
    <3>1. n = [next EXCEPT !.source = url]
      <4>1. m.source # None
        BY <2>4 DEF MapOK
      <4> QED
        BY <1>1, <1>2, <1>5, <2>4, <4>1 DEF Map!ApplyRadarFrame, Map!UpdateRadarTiles
    <3> HIDE DEF next, n, url
    <3>2. /\ n \in Map!MapType(0..LastFeed) /\ n.style = "ready" /\ n.layer
          /\ n.source = url /\ n.enabled = m.enabled /\ n.product = m.product
          /\ n.time = time
      BY <1>1, <2>2, <2>4, <3>1 DEF Map!MapType
    <3> QED
      BY <1>5, <2>2, <3>2 DEF MapOK, Map!TileUrl, n, url
  <2> QED
    BY <2>3, <2>4
<1> QED
  BY <1>3, <1>4, <1>5

LEMMA Tells ==
  ASSUME NEW m, MapOK(m), NEW config \in Config
  PROVE  LET n == Map!OnRadarState(m, config)
         IN /\ MapOK(n) /\ n.time = m.time
            /\ n.enabled = config.enabled /\ n.product = config.product
<1> DEFINE next == [m EXCEPT !.enabled = config.enabled, !.product = config.product]
           n == Map!OnRadarState(m, config)
           url == [product |-> config.product, time |-> m.time]
<1>1. /\ next \in Map!MapType(0..LastFeed) /\ next.time = m.time
      /\ next.enabled = config.enabled /\ next.product = config.product
      /\ next.layer = m.layer /\ next.source = m.source /\ next.style = "ready"
      /\ m \in Map!MapType(0..LastFeed) /\ config.product \in Product
      /\ config.product # None /\ config.enabled \in BOOLEAN
  BY ProductAssumption DEF MapOK, Map!MapType, Config
<1>2. Map!TileUrl(next) = url
  BY <1>1 DEF Map!TileUrl
<1>3. CASE ~config.enabled
  <2>1. n = [next EXCEPT !.missed = FALSE, !.layer = FALSE, !.source = None]
    BY <1>3 DEF Map!OnRadarState, Map!RemoveRadar
  <2> HIDE DEF next, n
  <2>2. /\ n \in Map!MapType(0..LastFeed) /\ n.style = "ready" /\ ~n.layer
        /\ n.source = None /\ n.enabled = next.enabled /\ n.product = next.product
        /\ n.time = next.time
    BY <1>1, <2>1 DEF Map!MapType
  <2> QED
    BY <1>1, <2>2 DEF MapOK, n
<1>4. CASE config.enabled /\ ~m.layer /\ m.time = None
  <2>1. n = next
    BY <1>1, <1>4 DEF Map!OnRadarState, Map!AddRadarLayer
  <2> HIDE DEF next, n
  <2> QED
    BY <1>1, <1>4, <2>1 DEF MapOK, n
<1>5. CASE config.enabled /\ ~m.layer /\ m.time # None
  <2>1. url \in [product : Product, time : 0..LastFeed] /\ url # None
    BY <1>1, <1>5, Tiles DEF Map!MapType
  <2>2. n = [next EXCEPT !.layer = TRUE, !.source = url, !.missed = FALSE]
    <3>1. m.source = None
      BY <1>5 DEF MapOK
    <3> QED
      BY <1>1, <1>2, <1>5, <3>1 DEF Map!OnRadarState, Map!AddRadarLayer
  <2> HIDE DEF next, n, url
  <2>3. /\ n \in Map!MapType(0..LastFeed) /\ n.style = "ready" /\ n.layer
        /\ n.source = url /\ n.enabled = next.enabled /\ n.product = next.product
        /\ n.time = next.time
    BY <1>1, <2>1, <2>2 DEF Map!MapType
  <2> QED
    BY <1>1, <1>5, <2>1, <2>3 DEF MapOK, Map!TileUrl, n, url
<1>6. CASE config.enabled /\ m.layer
  <2>1. m.source = [product |-> m.product, time |-> m.time] /\ m.source # None
    BY <1>6 DEF MapOK, Map!TileUrl
  <2>2. m.time # None /\ m.time \in 0..LastFeed
    BY <1>1, <2>1, ProductAssumption DEF Map!MapType
  <2>3. url \in [product : Product, time : 0..LastFeed] /\ url # None
    BY <1>1, <2>2, Tiles
  <2>4. CASE m.product # config.product
    <3>1. n = [next EXCEPT !.source = url]
      BY <1>1, <1>2, <1>6, <2>1, <2>2, <2>4 DEF Map!OnRadarState, Map!UpdateRadarTiles
    <3> HIDE DEF next, n, url
    <3>2. /\ n \in Map!MapType(0..LastFeed) /\ n.style = "ready" /\ n.layer = next.layer
          /\ n.source = url /\ n.enabled = next.enabled /\ n.product = next.product
          /\ n.time = next.time
      BY <1>1, <2>3, <3>1 DEF Map!MapType
    <3> QED
      BY <1>1, <1>6, <2>3, <3>2 DEF MapOK, Map!TileUrl, n, url
  <2>5. CASE m.product = config.product
    <3>1. n = next
      BY <1>6, <2>5 DEF Map!OnRadarState
    <3> HIDE DEF next, n
    <3> QED
      BY <1>1, <1>6, <2>1, <2>5, <3>1 DEF MapOK, Map!TileUrl, n
  <2> QED
    BY <2>4, <2>5
<1> QED
  BY <1>1, <1>3, <1>4, <1>5, <1>6

-----------------------------------------------------------------------------
(* The page                                                                *)

\* The map is told what the timeline is told.
Linked(t, m) == m.enabled = t.enabled /\ (t.enabled => m.product = t.product)

Connected(t, o) == t.ws \/ t.wsTimer <=> o /\ t.enabled /\ ~t.hidden

\* What the answers of the interface have left the timeline with: also while
\* the radar is off, and before there has been one.
Asked(t, l) ==
  /\ t.syncing = None /\ ~l /\ t.latest # None =>
       t.period = Period[t.product] /\ t.latest % t.period = 0
  /\ t.enabled /\ t.latest = None /\ ~l => t.syncing # None

Drawn(t, m, l, o) ==
  o /\ t.enabled /\ ~t.publishRaf /\ t.syncing = None /\ ~l /\ t.time # None
    => m.time = t.time

Inv ==
  /\ Rest(tl) /\ MapOK(map) /\ Linked(tl, map)
  /\ feed \in FirstFeed..LastFeed /\ lost \in BOOLEAN /\ open \in BOOLEAN
  /\ Connected(tl, open) /\ (tl.playing => open)
  /\ Asked(tl, lost) /\ Drawn(tl, map, lost, open)

\* A callback that ends with the timeline u, whatever it has emitted.
Ended(u) ==
  /\ tl'.enabled = u.enabled /\ tl'.product = u.product
  /\ tl'.latest = u.latest /\ tl'.period = u.period /\ tl'.time = u.time
  /\ tl'.live = u.live /\ tl'.playing = u.playing
  /\ tl'.publishRaf = u.publishRaf /\ tl'.ws = u.ws /\ tl'.wsTimer = u.wsTimer
  /\ tl'.syncing = u.syncing /\ tl'.hidden = u.hidden

MapStep(m) == map' = m \/ \E time \in 0..LastFeed : map' = Map!ApplyRadarFrame(m, time)

LEMMA Called ==
  ASSUME NEW u, Bounded(u), PlayOK(u), Emitted(u),
         NEW m, MapOK(m), Linked(u, m), Callback(u, m)
  PROVE  /\ Rest(tl') /\ Ended(u)
         /\ MapOK(map') /\ Linked(tl', map') /\ MapStep(m)
         /\ u.out # None /\ open => map'.time = u.time
         /\ u.out = None => map' = m
<1>1. u \in TimelineType /\ tl' = [u EXCEPT !.out = None]
  BY DEF Bounded, Callback
<1>2. Rest(tl') /\ Ended(u)
  <2>1. /\ tl' \in TimelineType /\ Ended(u) /\ tl'.out = None
        /\ tl'.playTimer = u.playTimer /\ tl'.playHold = u.playHold
        /\ tl'.playFrom = u.playFrom
    BY <1>1 DEF TimelineType, Ended
  <2> QED
    BY <2>1 DEF Rest, Bounded, PlayOK, HasGrid, Ended
<1>3. CASE u.out = None \/ ~open
  <2>1. map' = m
    BY <1>3 DEF Callback
  <2> QED
    BY <1>2, <1>3, <2>1 DEF Linked, Ended, MapStep
<1>4. CASE u.out # None /\ open
  <2>1. map' = Map!ApplyRadarFrame(m, u.out.time)
    BY <1>4 DEF Callback
  <2>2. u.out.time = u.time /\ u.time \in 0..LastFeed
    BY <1>4 DEF Emitted, Bounded
  <2>3. /\ MapOK(map') /\ map'.enabled = m.enabled /\ map'.product = m.product
        /\ map'.time = u.time
    BY <2>1, <2>2, Draws
  <2> QED
    BY <1>2, <1>4, <2>1, <2>2, <2>3 DEF Linked, Ended, MapStep
<1> QED
  BY <1>3, <1>4

LEMMA InvInit == Init => Inv
<1> SUFFICES ASSUME Init PROVE Inv
  OBVIOUS
<1>1. /\ tl = [enabled |-> FALSE, product |-> DefaultProduct,
               latest |-> None, period |-> None, time |-> None, live |-> TRUE,
               playing |-> FALSE, playTimer |-> FALSE, playHold |-> FALSE,
               playFrom |-> None, dragging |-> FALSE, publishRaf |-> FALSE,
               ws |-> FALSE, wsTimer |-> FALSE, syncing |-> None, syncTimer |-> FALSE,
               hidden |-> FALSE, out |-> None]
      /\ DefaultProduct \in Product
  BY ProductAssumption DEF Init, Mounted
<1>2. tl \in TimelineType
  BY <1>1 DEF TimelineType
<1>3. map = [enabled |-> FALSE, product |-> None, time |-> None,
             layer |-> FALSE, source |-> None,
             style |-> "ready", onStyleLoad |-> FALSE, missed |-> FALSE]
  BY DEF Init, Map!StyleLoaded, Map!MapMounted, Map!RemoveRadar
<1>4. MapOK(map)
  BY <1>3 DEF MapOK, Map!MapType
<1>5. feed \in FirstFeed..LastFeed /\ lost = FALSE /\ open = TRUE
  BY FeedAssumption DEF Init
<1>6. Rest(tl)
  BY <1>1, <1>2 DEF Rest, Bounded, PlayOK
<1> QED
  BY <1>1, <1>3, <1>4, <1>5, <1>6 DEF Inv, Linked, Connected, Asked, Drawn

\* A control or a timer that moves the timeline.
LEMMA Moves ==
  ASSUME Inv, NEW u, Moved(tl, u), open \/ ~u.playing, Callback(u, map),
         UNCHANGED <<feed, lost, open>>
  PROVE  Inv' /\ MapStep(map)
<1>1. /\ Bounded(u) /\ PlayOK(u) /\ Emitted(u)
      /\ MapOK(map) /\ Linked(u, map)
  BY DEF Inv, Moved, Emitted, Linked
<1>2. /\ Rest(tl') /\ Ended(u) /\ MapOK(map') /\ Linked(tl', map') /\ MapStep(map)
      /\ u.out # None /\ open => map'.time = u.time
      /\ u.out = None => map' = map
  BY <1>1, Called
<1>3. Connected(tl, open)' /\ Asked(tl, lost)' /\ (tl'.playing => open')
  BY <1>2 DEF Inv, Connected, Asked, Moved, Ended
<1>4. Drawn(tl, map, lost, open)'
  BY <1>2 DEF Inv, Drawn, Moved, Ended
<1> QED
  BY <1>2, <1>3, <1>4 DEF Inv

-----------------------------------------------------------------------------
(* The steps of the page                                                   *)

\* What a step does to the map.
MapTurn ==
  \/ MapStep(map)
  \/ \E config \in Config : MapStep(Map!OnRadarState(map, config))

\* A step that nobody but the viewer takes away from the newest frame.
Kept == Inv' /\ MapTurn /\ (Following(tl) => Following(tl'))

LEMMA ViewerKeeps ==
  ASSUME Inv, ViewerActs
  PROVE  Inv' /\ MapTurn
<1>1. Rest(tl)
  BY DEF Inv
<1>2. ASSUME NEW u, Moved(tl, u), Control(u)
      PROVE  Inv' /\ MapTurn
  BY <1>2, Moves DEF Control, MapTurn
<1>3. ASSUME tl.enabled, ~tl.hidden, Play PROVE Inv' /\ MapTurn
  BY <1>1, <1>2, <1>3, Toggles DEF Play
<1>4. ASSUME tl.enabled, StepButton PROVE Inv' /\ MapTurn
  BY <1>1, <1>2, <1>4, Steps DEF StepButton
<1>5. ASSUME tl.enabled, ArrowKey PROVE Inv' /\ MapTurn
  BY <1>1, <1>2, <1>5, Steps, HourIsFrames DEF ArrowKey
<1>6. ASSUME HomeKey PROVE Inv' /\ MapTurn
  BY <1>1, <1>2, <1>6, GoesOldest DEF HomeKey
<1>7. ASSUME tl.enabled, LiveButton PROVE Inv' /\ MapTurn
  BY <1>1, <1>2, <1>7, GoesLive DEF LiveButton
<1>8. ASSUME Drag PROVE Inv' /\ MapTurn
  <2>1. PICK idx \in 0..MaxIdx(tl) :
          HasGrid(tl) /\ (Control(TrackDown(tl, idx)) \/ Control(TrackMove(tl, idx)))
    BY <1>8 DEF Drag
  <2>2. Moved(tl, TrackDown(tl, idx))
    BY <1>1, <2>1, DragStarts
  <2>3. Moved(tl, TrackMove(tl, idx))
    BY <1>1, <2>1, Drags, Stays DEF TrackMove
  <2> QED
    BY <1>2, <2>1, <2>2, <2>3
<1>9. ASSUME Drop PROVE Inv' /\ MapTurn
  BY <1>1, <1>2, <1>9, DragEnds DEF Drop
<1>10. tl.enabled /\ ~tl.hidden
  BY DEF ViewerActs, Play, StepButton, ArrowKey, HomeKey, LiveButton, Drag, Drop,
         Control
<1> QED
  BY <1>3, <1>4, <1>5, <1>6, <1>7, <1>8, <1>9, <1>10 DEF ViewerActs

LEMMA TimerKeeps ==
  ASSUME Inv, NEW pending, NEW u, Timer(pending, u), Moved(tl, u),
         u.playing => tl.playing
  PROVE  Inv' /\ MapTurn /\ Ended(u)
<1>1. (open \/ ~u.playing) /\ u.playing \in BOOLEAN
  BY DEF Inv, Moved, Bounded, TimelineType
<1>2. Callback(u, map) /\ UNCHANGED <<feed, lost, open>>
  BY DEF Timer
<1>3. Inv' /\ MapStep(map)
  BY <1>1, <1>2, Moves
<1>4. Ended(u)
  BY <1>2, Called DEF Inv, Moved, Emitted, Linked
<1> QED
  BY <1>3, <1>4 DEF MapTurn

LEMMA TimersKeep ==
  ASSUME Inv, PlayTick \/ HoldOver \/ AnimationFrame \/ ServerSync
  PROVE  Kept
<1>1. Rest(tl) /\ tl \in TimelineType
  BY DEF Inv, Rest, Bounded
<1>2. CASE PlayTick
  <2>1. tl.playTimer /\ tl.playing
    BY <1>2 DEF PlayTick, Timer, Inv, Rest, PlayOK
  <2>2. Moved(tl, AdvancePlay(tl))
    BY <1>1, <2>1, Advances
  <2> QED
    BY <1>2, <2>1, <2>2, TimerKeeps DEF PlayTick, Kept, Following
<1>3. CASE HoldOver
  <2>1. tl.playHold /\ tl.playing
    BY <1>3 DEF HoldOver, Timer, Inv, Rest, PlayOK
  <2>2. Moved(tl, RestartPlay(tl))
    BY <1>1, <2>1, Restarts
  <2> QED
    BY <1>3, <2>1, <2>2, TimerKeeps DEF HoldOver, Kept, Following
<1>4. CASE AnimationFrame
  <2> DEFINE s == [tl EXCEPT !.publishRaf = FALSE]
             u == PublishFrame(s)
  <2>1. /\ s \in TimelineType /\ s.time = tl.time /\ s.latest = tl.latest
        /\ s.live = tl.live /\ s.playing = tl.playing
    BY <1>1 DEF TimelineType
  <2>2. PublishOnFrame(tl) = u
    BY DEF PublishOnFrame
  <2> HIDE DEF s
  <2>3. /\ Untouched(s, u)
        /\ ~Shows(s) => u = s
        /\ Shows(s) =>
             /\ u.time = IF s.time >= s.latest THEN s.latest ELSE s.time
             /\ s.time >= s.latest => u.live
    BY <2>1, Publishing
  <2> HIDE DEF u
  <2>4. Moved(tl, u)
    BY <1>1, <2>2, FramePublishes
  <2>5. Shows(s) => s.latest \in Int
    BY <2>1 DEF Shows, TimelineType
  <2>6. Following(tl) => Following(u)
    <3>1. CASE ~Shows(s)
      BY <2>1, <2>3, <3>1 DEF Following
    <3>2. CASE Shows(s)
      <4>1. s.time = s.latest => s.time >= s.latest /\ u.time = s.latest
        BY <2>3, <2>5, <3>2
      <4> QED
        BY <2>1, <2>3, <3>2, <4>1 DEF Following, Untouched
    <3> QED
      BY <3>1, <3>2
  <2>7. u.playing = tl.playing /\ Timer(tl.publishRaf /\ ~tl.hidden, u)
    BY <1>4, <2>1, <2>2, <2>3 DEF Untouched, AnimationFrame
  <2> QED
    BY <2>4, <2>6, <2>7, TimerKeeps DEF Kept, Ended, Following
<1>5. CASE ServerSync
  <2>1. Moved(tl, Reported(tl))
    BY <1>1, Reports
  <2>2. /\ Reported(tl).playing = tl.playing /\ Reported(tl).live = tl.live
        /\ Reported(tl).time = tl.time /\ Reported(tl).latest = tl.latest
    BY <1>1 DEF Reported, TimelineType
  <2>3. Timer(tl.syncTimer, Reported(tl))
    BY <1>5 DEF ServerSync
  <2> QED
    BY <2>1, <2>2, <2>3, TimerKeeps DEF Kept, Ended, Following
<1> QED
  BY <1>2, <1>3, <1>4, <1>5

\* Both hooks hear the state, the map first.
LEMMA StateKeeps ==
  ASSUME Inv, RadarState
  PROVE  Kept
<1>1. PICK config \in Config :
        /\ open
        /\ Callback(ApplyState(tl, config), Map!OnRadarState(map, config))
        /\ lost' = (lost \/ Unasked(tl, config))
        /\ UNCHANGED <<feed, open>>
  BY DEF RadarState
<1> DEFINE u == ApplyState(tl, config)
           m == Map!OnRadarState(map, config)
           asks == config.enabled /\ (tl.latest = None \/ tl.product # config.product)
<1>2. /\ Bounded(u) /\ PlayOK(u) /\ Emitted(u)
      /\ u.enabled = config.enabled /\ u.product = config.product
      /\ u.latest = tl.latest /\ u.period = tl.period /\ u.hidden = tl.hidden
      /\ u.syncing = IF asks /\ tl.syncing = None THEN config.product ELSE tl.syncing
      /\ config.enabled => (u.ws \/ u.wsTimer <=> tl.ws \/ tl.wsTimer \/ ~tl.hidden)
      /\ ~config.enabled => ~u.ws /\ ~u.wsTimer
      /\ config.enabled /\ ~asks => u.out # None
      /\ Following(tl) => Following(u)
  BY Applies DEF Inv
<1>3. MapOK(m) /\ m.enabled = config.enabled /\ m.product = config.product
  BY Tells DEF Inv
<1>4. config.product \in Product /\ config.product # None
  BY ProductAssumption DEF Config
<1> HIDE DEF u, m
<1>5. Linked(u, m) /\ Callback(u, m)
  BY <1>1, <1>2, <1>3 DEF Linked, u, m
<1>6. /\ Rest(tl') /\ Ended(u) /\ MapOK(map') /\ Linked(tl', map') /\ MapStep(m)
      /\ u.out # None /\ open => map'.time = u.time
  BY <1>2, <1>3, <1>5, Called
<1>7. tl.syncing = None /\ ~Unasked(tl, config) /\ ~config.enabled
        => tl.product = config.product
  BY DEF Unasked
<1>8. Asked(tl, lost)'
  BY <1>1, <1>2, <1>4, <1>6, <1>7 DEF Inv, Asked, Ended
<1>9. Drawn(tl, map, lost, open)'
  BY <1>1, <1>2, <1>4, <1>6 DEF Drawn, Ended
<1>10. Connected(tl, open)'
  BY <1>1, <1>2, <1>6 DEF Inv, Connected, Ended
<1>11. Inv'
  BY <1>1, <1>6, <1>8, <1>9, <1>10 DEF Inv
<1>12. Following(tl) => Following(tl')
  BY <1>2, <1>6 DEF Following, Ended
<1> QED
  BY <1>6, <1>11, <1>12 DEF Kept, MapTurn, m

LEMMA ReconnectKeeps ==
  ASSUME Inv, ReconnectTimer
  PROVE  Kept
<1> DEFINE u == Reconnect(tl)
<1>1. tl.wsTimer /\ Callback(u, map) /\ UNCHANGED <<feed, lost, open>>
  BY DEF ReconnectTimer, Timer
<1>2. Rest(tl) /\ tl \in TimelineType /\ open /\ tl.enabled /\ ~tl.hidden
  BY <1>1 DEF Inv, Rest, Bounded, Connected
<1>3. u \in TimelineType /\ Core(tl, u) /\ u.ws /\ u.syncing # None
  BY <1>2, Reconnecting
<1> HIDE DEF u
<1>4. Rest(u) /\ (Following(tl) => Following(u))
  BY <1>2, <1>3, CoreRests
<1>5. Bounded(u) /\ PlayOK(u) /\ Emitted(u) /\ MapOK(map) /\ Linked(u, map)
  BY <1>3, <1>4 DEF Inv, Rest, Emitted, Linked, Core
<1>6. Rest(tl') /\ Ended(u) /\ MapOK(map') /\ Linked(tl', map') /\ MapStep(map)
  BY <1>1, <1>5, Called
<1> QED
  BY <1>1, <1>2, <1>3, <1>4, <1>6
  DEF Inv, Kept, MapTurn, Following, Ended, Core, Connected, Asked, Drawn

LEMMA VisibilityKeeps ==
  ASSUME Inv, Visibility
  PROVE  Kept
<1> DEFINE u == VisibilityChanged(tl)
<1>1. open /\ Callback(u, map) /\ UNCHANGED <<feed, lost, open>>
  BY DEF Visibility, Timer
<1>2. /\ Rest(u)
      /\ u.enabled = tl.enabled /\ u.product = tl.product
      /\ u.latest = tl.latest /\ u.period = tl.period
      /\ u.time = tl.time /\ u.live = tl.live /\ u.publishRaf = tl.publishRaf
      /\ u.syncing = tl.syncing /\ u.hidden = ~tl.hidden
      /\ u.hidden => ~u.ws /\ ~u.wsTimer
      /\ ~u.hidden /\ tl.enabled => u.ws
      /\ ~u.hidden /\ ~tl.enabled => u.ws = tl.ws /\ u.wsTimer = tl.wsTimer
      /\ Following(tl) => Following(u)
  BY Looking DEF Inv
<1> HIDE DEF u
<1>3. Bounded(u) /\ PlayOK(u) /\ Emitted(u) /\ MapOK(map) /\ Linked(u, map)
  BY <1>2 DEF Inv, Rest, Emitted, Linked
<1>4. Rest(tl') /\ Ended(u) /\ MapOK(map') /\ Linked(tl', map') /\ MapStep(map)
      /\ (u.out = None => map' = map)
  BY <1>1, <1>3, Called
<1>5. map' = map
  BY <1>2, <1>4 DEF Rest
<1>6. Asked(tl, lost)' /\ Drawn(tl, map, lost, open)'
  BY <1>1, <1>2, <1>4, <1>5 DEF Inv, Asked, Drawn, Ended
<1>7. Connected(tl, open)'
  BY <1>1, <1>2, <1>4 DEF Inv, Connected, Ended
<1> QED
  BY <1>1, <1>2, <1>4, <1>6, <1>7 DEF Inv, Kept, MapTurn, Following, Ended

\* The network publishes a frame; a page with a socket hears of it.
LEMMA PublishKeeps ==
  ASSUME Inv, Publish
  PROVE  Kept
<1>1. PICK p \in Product :
        /\ feed < LastFeed /\ feed' = feed + 1
        /\ Callback(IF tl.ws THEN SocketMessage(tl, p, feed') ELSE tl, map)
        /\ UNCHANGED <<lost, open>>
  BY DEF Publish
<1>2. feed' \in FirstFeed..LastFeed /\ feed' \in FirstFeed - 1..LastFeed /\ Rest(tl)
  BY <1>1, FeedAssumption DEF Inv
<1> DEFINE u == IF tl.ws THEN SocketMessage(tl, p, feed') ELSE tl
<1>3. /\ Bounded(u) /\ PlayOK(u) /\ Emitted(u)
      /\ u.enabled = tl.enabled /\ u.product = tl.product /\ u.period = tl.period
      /\ u.hidden = tl.hidden /\ u.playing = tl.playing
      /\ u.publishRaf = tl.publishRaf
      /\ u.ws = tl.ws /\ u.wsTimer = tl.wsTimer /\ u.syncing = tl.syncing
      /\ tl.latest # None => u.latest # None
      /\ u.latest = tl.latest \/ tl.period = None \/ u.latest % tl.period = 0
      /\ u.out = None => u.time = tl.time
      /\ Following(tl) => Following(u)
  <2>1. CASE tl.ws
    <3>1. tl.enabled
      BY <2>1 DEF Inv, Connected
    <3> QED
      BY <1>2, <2>1, <3>1, Receives
  <2>2. CASE ~tl.ws
    BY <1>2, <2>2 DEF Rest, Emitted
  <2> QED
    BY <2>1, <2>2
<1> HIDE DEF u
<1>4. Callback(u, map) /\ MapOK(map) /\ Linked(u, map)
  BY <1>1, <1>3 DEF Inv, Linked, u
<1>5. /\ Rest(tl') /\ Ended(u) /\ MapOK(map') /\ Linked(tl', map') /\ MapStep(map)
      /\ u.out # None /\ open => map'.time = u.time
      /\ u.out = None => map' = map
  BY <1>3, <1>4, Called
<1>6. tl.latest # None <=> tl.time # None
  BY DEF Inv, Rest, Bounded
<1>7. u.latest = None => u.latest = tl.latest
  BY <1>3
<1>8. Asked(tl, lost)'
  <2>1. Asked(tl, lost) /\ tl.product \in Product /\ tl.enabled \in BOOLEAN
    BY DEF Inv, Rest, Bounded, TimelineType
  <2>2. Period[tl.product] # None
    BY <2>1, ProductAssumption
  <2>3. u.latest # tl.latest => tl.ws
    BY DEF u
  <2>4. tl.ws => tl.enabled
    BY DEF Inv, Connected
  <2> QED
    BY <1>1, <1>3, <1>5, <2>1, <2>2, <2>3, <2>4 DEF Asked, Ended
<1>9. Drawn(tl, map, lost, open)'
  BY <1>1, <1>3, <1>5, <1>6 DEF Inv, Drawn, Ended
<1>10. Connected(tl, open)' /\ (tl'.playing => open')
  BY <1>1, <1>3, <1>5 DEF Inv, Connected, Ended
<1> QED
  BY <1>1, <1>2, <1>3, <1>5, <1>8, <1>9, <1>10
  DEF Inv, Kept, MapTurn, Following, Ended

LEMMA AnswerKeeps ==
  ASSUME Inv, Answer
  PROVE  Kept
<1>1. tl.syncing # None /\ lost' = (tl.syncing # tl.product) /\ UNCHANGED <<feed, open>>
  BY DEF Answer
<1>2. PICK time \in {feed - 1, feed}, period \in {None, Period[tl.syncing]} :
        Callback(Synced(tl, time, period), map)
  BY DEF Answer
<1>3. Rest(tl) /\ tl.syncing \in Product
  BY <1>1 DEF Inv, Rest, Bounded, TimelineType
<1>4. time \in FirstFeed - 1..LastFeed /\ period \in Periods \cup {None}
  BY <1>2, <1>3, PeriodFacts, FeedAssumption DEF Inv
<1> DEFINE u == Synced(tl, time, period)
           used == IF period = None THEN Period[tl.product] ELSE period
<1>5. /\ Bounded(u) /\ PlayOK(u) /\ Emitted(u)
      /\ u.enabled = tl.enabled /\ u.product = tl.product
      /\ u.hidden = tl.hidden /\ u.playing = tl.playing
      /\ u.publishRaf = tl.publishRaf
      /\ u.ws = tl.ws /\ u.wsTimer = tl.wsTimer
      /\ u.syncing = None /\ u.period = used
      /\ u.latest # None /\ u.latest % used = 0
      /\ u.enabled => u.out # None
      /\ Following(tl) => Following(u)
  BY <1>3, <1>4, Answers
<1>6. tl.syncing = tl.product => used = Period[tl.product]
  BY <1>2
<1> HIDE DEF u, used
<1>7. Callback(u, map) /\ MapOK(map) /\ Linked(u, map)
  BY <1>2, <1>5 DEF Inv, Linked, u
<1>8. /\ Rest(tl') /\ Ended(u) /\ MapOK(map') /\ Linked(tl', map') /\ MapStep(map)
      /\ u.out # None /\ open => map'.time = u.time
  BY <1>5, <1>7, Called
<1>9. ~lost' <=> tl.syncing = tl.product
  BY <1>1
<1>10. Asked(tl, lost)'
  BY <1>5, <1>6, <1>8, <1>9 DEF Asked, Ended
<1>11. Drawn(tl, map, lost, open)'
  BY <1>1, <1>5, <1>8 DEF Drawn, Ended
<1>12. Connected(tl, open)' /\ (tl'.playing => open') /\ lost' \in BOOLEAN
  BY <1>1, <1>5, <1>8 DEF Inv, Connected, Ended
<1> QED
  BY <1>1, <1>5, <1>8, <1>10, <1>11, <1>12
  DEF Inv, Kept, MapTurn, Following, Ended

LEMMA FailureKeeps ==
  ASSUME Inv, AnswerFails
  PROVE  Kept
<1> DEFINE u == SyncFailed(tl)
<1>1. lost' = TRUE /\ Callback(u, map) /\ UNCHANGED <<feed, open>>
  BY DEF AnswerFails
<1>2. Rest(tl) /\ tl \in TimelineType
  BY DEF Inv, Rest, Bounded
<1>3. u \in TimelineType /\ Core(tl, u) /\ u.ws = tl.ws /\ u.wsTimer = tl.wsTimer
  BY <1>2, Failing
<1> HIDE DEF u
<1>4. Rest(u) /\ (Following(tl) => Following(u))
  BY <1>2, <1>3, CoreRests
<1>5. Bounded(u) /\ PlayOK(u) /\ Emitted(u) /\ MapOK(map) /\ Linked(u, map)
  BY <1>3, <1>4 DEF Inv, Rest, Emitted, Linked, Core
<1>6. Rest(tl') /\ Ended(u) /\ MapOK(map') /\ Linked(tl', map') /\ MapStep(map)
  BY <1>1, <1>5, Called
<1> QED
  BY <1>1, <1>3, <1>4, <1>6
  DEF Inv, Kept, MapTurn, Following, Ended, Core, Connected, Asked, Drawn

LEMMA LossKeeps ==
  ASSUME Inv, SocketCloses
  PROVE  Kept
<1> DEFINE u == ScheduleReconnect(tl)
<1>1. tl.ws /\ Callback(u, map) /\ UNCHANGED <<feed, lost, open>>
  BY DEF SocketCloses
<1>2. Rest(tl) /\ tl \in TimelineType /\ open /\ tl.enabled /\ ~tl.hidden
  BY <1>1 DEF Inv, Rest, Bounded, Connected
<1>3. u \in TimelineType /\ Core(tl, u) /\ u.wsTimer /\ u.syncing = tl.syncing
  BY <1>2, Losing
<1> HIDE DEF u
<1>4. Rest(u) /\ (Following(tl) => Following(u)) /\ u.out = None
  BY <1>2, <1>3, CoreRests DEF Rest
<1>5. Bounded(u) /\ PlayOK(u) /\ Emitted(u) /\ MapOK(map) /\ Linked(u, map)
  BY <1>3, <1>4 DEF Inv, Rest, Emitted, Linked, Core
<1>6. /\ Rest(tl') /\ Ended(u) /\ MapOK(map') /\ Linked(tl', map') /\ MapStep(map)
      /\ map' = map
  BY <1>1, <1>4, <1>5, Called
<1> QED
  BY <1>1, <1>2, <1>3, <1>4, <1>6
  DEF Inv, Kept, MapTurn, Following, Ended, Core, Connected, Asked, Drawn

LEMMA LeaveKeeps ==
  ASSUME Inv, Leave
  PROVE  Kept
<1> DEFINE s == CloseSocket(StopPlay(tl))
<1>1. /\ open' = FALSE /\ UNCHANGED <<map, feed, lost>>
      /\ tl' = [s EXCEPT !.syncTimer = FALSE, !.publishRaf = FALSE]
  BY DEF Leave, Destroyed
<1>2. /\ Bounded(s) /\ PlayOK(s) /\ ~s.playing /\ ~s.ws /\ ~s.wsTimer
      /\ s.enabled = tl.enabled /\ s.product = tl.product
      /\ s.latest = tl.latest /\ s.period = tl.period
      /\ s.time = tl.time /\ s.live = tl.live
      /\ s.syncing = tl.syncing /\ s.out = tl.out /\ tl.out = None
  BY Silenced DEF Inv, Rest
<1> HIDE DEF s
<1>3. /\ tl' \in TimelineType /\ tl'.playing = s.playing
      /\ tl'.playTimer = s.playTimer /\ tl'.playHold = s.playHold
      /\ tl'.playFrom = s.playFrom /\ tl'.ws = s.ws /\ tl'.wsTimer = s.wsTimer
      /\ tl'.enabled = s.enabled /\ tl'.product = s.product
      /\ tl'.latest = s.latest /\ tl'.period = s.period
      /\ tl'.time = s.time /\ tl'.live = s.live /\ tl'.hidden = s.hidden
      /\ tl'.syncing = s.syncing /\ tl'.out = s.out
  BY <1>1, <1>2 DEF Bounded, TimelineType
<1>4. Rest(tl')
  BY <1>2, <1>3 DEF Rest, Bounded, PlayOK, HasGrid
<1> QED
  BY <1>1, <1>2, <1>3, <1>4
  DEF Inv, Kept, MapTurn, MapStep, Following, Connected, Asked, Drawn, Linked

LEMMA InvNext ==
  ASSUME Inv, [Next]_vars
  PROVE  /\ Inv'
         /\ MapTurn
         /\ Following(tl) /\ ~Following(tl') => ViewerActs
<1>1. CASE UNCHANGED vars
  BY <1>1 DEF vars, Inv, Linked, Connected, Asked, Drawn, MapTurn, MapStep, Following
<1>2. CASE ViewerActs
  BY <1>2, ViewerKeeps
<1>3. CASE PlayTick \/ HoldOver \/ AnimationFrame \/ ServerSync
  BY <1>3, TimersKeep DEF Kept
<1>4. CASE RadarState
  BY <1>4, StateKeeps DEF Kept
<1>5. CASE ReconnectTimer
  BY <1>5, ReconnectKeeps DEF Kept
<1>6. CASE Visibility
  BY <1>6, VisibilityKeeps DEF Kept
<1>7. CASE Publish
  BY <1>7, PublishKeeps DEF Kept
<1>8. CASE Answer
  BY <1>8, AnswerKeeps DEF Kept
<1>9. CASE AnswerFails
  BY <1>9, FailureKeeps DEF Kept
<1>10. CASE SocketCloses
  BY <1>10, LossKeeps DEF Kept
<1>11. CASE Leave
  BY <1>11, LeaveKeeps DEF Kept
<1> QED
  BY <1>1, <1>2, <1>3, <1>4, <1>5, <1>6, <1>7, <1>8, <1>9, <1>10, <1>11 DEF Next

LEMMA Invariant == Spec => []Inv
BY InvInit, InvNext, PTL DEF Spec

-----------------------------------------------------------------------------
(* Theorems                                                                *)

(* The two hooks keep their types, and between two callbacks no frame is   *)
(* on its way from one to the other.                                       *)
THEOREM Typing == Spec => []TypeOK
<1>1. Inv => TypeOK
  <2> SUFFICES ASSUME Inv PROVE TypeOK
    OBVIOUS
  <2>1. 0..LastFeed \subseteq Int
    OBVIOUS
  <2>2. map \in Map!MapType(Int)
    BY <2>1 DEF Inv, MapOK, Map!MapType
  <2>3. feed \in Nat
    BY FeedAssumption DEF Inv
  <2> QED
    BY <2>2, <2>3 DEF Inv, TypeOK, Rest, Bounded, PlayOK
<1> QED
  BY <1>1, Invariant, PTL

(* A playback has exactly one of its two timers pending and no timer is    *)
(* left without a playback; the page has a socket, or a timer that will    *)
(* open one, exactly while it shows the radar.                             *)
THEOREM Timers == Spec => []TimersFollowPage
<1>1. Inv => TimersFollowPage
  <2> SUFFICES ASSUME Inv PROVE TimersFollowPage
    OBVIOUS
  <2>1. PlayTimers
    BY DEF Inv, Rest, PlayOK, PlayTimers
  <2>2. SocketFollowsPage
    BY DEF Inv, Connected, SocketFollowsPage
  <2> QED
    BY <2>1, <2>2 DEF TimersFollowPage
<1> QED
  BY <1>1, Invariant, PTL

(* The newest frame lies on the grid of the product on display and the map *)
(* draws the frame and the product of the timeline, but for the three      *)
(* cases that `lost' names and while an answer or a frame is to come.      *)
THEOREM Shown == Spec => []ShowsProduct
<1>1. Inv => ShowsProduct
  <2> SUFFICES ASSUME Inv PROVE ShowsProduct
    OBVIOUS
  <2>1. GridOfProduct
    BY DEF Inv, Asked, GridOfProduct
  <2>2. map.layer => map.source.product = map.product
    BY DEF Inv, MapOK, Map!TileUrl
  <2>3. MapFollowsTimeline
    BY <2>2 DEF Inv, Drawn, Linked, MapFollowsTimeline
  <2> QED
    BY <2>1, <2>3 DEF ShowsProduct
<1> QED
  BY <1>1, Invariant, PTL

(* Nothing but a control takes a viewer off the newest frame.              *)
THEOREM Live == Spec => StaysLive
<1>1. Inv /\ [Next]_vars => [Following(tl) /\ ~Following(tl') => ViewerActs]_vars
  BY InvNext
<1> QED
  BY <1>1, Invariant, PTL DEF Spec, StaysLive

(* The map of the page is the map alone: every step of the page is a step  *)
(* of the map or leaves it as it is.                                       *)
THEOREM Refinement == Spec => MapRefined
<1>1. Init => Map!MapInit
  BY DEF Init, Map!MapInit
<1>2. Inv /\ [Next]_vars => [Map!MapNext]_map
  <2> SUFFICES ASSUME Inv, [Next]_vars PROVE [Map!MapNext]_map
    OBVIOUS
  <2>1. CASE MapStep(map)
    BY <2>1 DEF MapStep, Map!MapNext, Map!RadarFrame
  <2>2. ASSUME NEW config \in Config, MapStep(Map!OnRadarState(map, config))
        PROVE  Map!RadarState
    <3>1. /\ config = [enabled |-> config.enabled, product |-> config.product]
          /\ config.enabled \in BOOLEAN /\ config.product \in Product
      BY DEF Config
    <3>2. None \notin 0..LastFeed
      BY ProductAssumption
    <3> DEFINE told == Map!OnRadarState(map, config)
    <3>3. told = Map!OnRadarState(map, [enabled |-> config.enabled,
                                        product |-> config.product])
      BY <3>1
    <3> HIDE DEF told
    <3>4. CASE map' = told
      BY <3>1, <3>3, <3>4 DEF Map!RadarState
    <3>5. ASSUME NEW time \in 0..LastFeed, map' = Map!ApplyRadarFrame(told, time)
          PROVE  Map!RadarState
      <4>1. time # None
        BY <3>2
      <4> QED
        BY <3>1, <3>3, <3>5, <4>1 DEF Map!RadarState
    <3> QED
      BY <2>2, <3>4, <3>5 DEF MapStep, told
  <2> QED
    BY InvNext, <2>1, <2>2 DEF MapTurn, Map!MapNext
<1> QED
  BY <1>1, <1>2, Invariant, PTL DEF Spec, MapRefined
=============================================================================
