---------------------------- MODULE RadarTimeline ----------------------------
(***************************************************************************)
(* The radar timeline of the live map: the hook RadarTimeline of           *)
(* assets/js/hooks/radar_timeline.js.  The hook's object is the record     *)
(* `tl', its methods are operators that return the record they leave       *)
(* behind, and the callbacks the browser may run are actions of RadarPage, *)
(* each one run to its end.  Times are counted in units of the smallest    *)
(* period.                                                                 *)
(*                                                                         *)
(* A timer is a Boolean that says whether it is pending.  The field `out'  *)
(* is the frame the running callback has emitted; it is None between two   *)
(* callbacks.                                                              *)
(***************************************************************************)
EXTENDS Integers

CONSTANTS
  Product,        \* the radar products
  DefaultProduct, \* the one the hook and the server start with
  Period,         \* Period[p]: distance of two frames of product p
  Window,         \* RADAR_WINDOW_MS: how far back the timeline reaches
  PlayWindow,     \* PLAY_WINDOW_MS: what playback covers
  PlayMinFrames,  \* PLAY_MIN_FRAMES
  Hour,           \* the time a step with the shift key moves
  None

ASSUME ProductAssumption ==
  /\ DefaultProduct \in Product
  /\ Period \in [Product -> Nat \ {0}]
  /\ None \notin Product
  /\ None \notin Int

ASSUME WindowAssumption ==
  /\ Window \in Nat /\ PlayWindow \in Nat /\ Hour \in Nat
  /\ PlayMinFrames \in Nat \ {0}

\* Math.min, Math.max and Math.round(a / b)
Least(a, b) == IF a <= b THEN a ELSE b
Most(a, b) == IF a >= b THEN a ELSE b
Round(a, b) == (2 * a + b) \div (2 * b)

\* A config as the server pushes it with the event radar_state.
Config == [enabled : BOOLEAN, product : Product]

Frame == [time : Int, live : BOOLEAN, product : Product]

ASSUME FrameAssumption == None \notin Frame

\* mounted(): the hook before the first radar_state.  `hidden' is
\* document.hidden, `syncing' the product a running fetchLatest asks for.
Mounted(hidden) ==
  [enabled |-> FALSE, product |-> DefaultProduct,
   latest |-> None, period |-> None, time |-> None, live |-> TRUE,
   playing |-> FALSE, playTimer |-> FALSE, playHold |-> FALSE, playFrom |-> None,
   dragging |-> FALSE, publishRaf |-> FALSE,
   ws |-> FALSE, wsTimer |-> FALSE, syncing |-> None, syncTimer |-> FALSE,
   hidden |-> hidden, out |-> None]

TimelineType ==
  [enabled : BOOLEAN, product : Product,
   latest : Int \cup {None}, period : Nat \cup {None}, time : Int \cup {None},
   live : BOOLEAN,
   playing : BOOLEAN, playTimer : BOOLEAN, playHold : BOOLEAN,
   playFrom : Int \cup {None},
   dragging : BOOLEAN, publishRaf : BOOLEAN,
   ws : BOOLEAN, wsTimer : BOOLEAN, syncing : Product \cup {None},
   syncTimer : BOOLEAN, hidden : BOOLEAN, out : Frame \cup {None}]

FloorToPeriod(time, period) == (time \div period) * period

\* The guard of the handlers that need a grid.
HasGrid(t) == t.latest # None /\ t.period # None

MaxIdx(t) == Window \div t.period

OldestTime(t) == t.latest - MaxIdx(t) * t.period

\* The frame of the grid of t.latest that is nearest to t.time.
SnapToGrid(t) ==
  t.latest - Least(Most(Round(t.latest - t.time, t.period), 0), MaxIdx(t)) * t.period

-----------------------------------------------------------------------------
(* Publishing                                                              *)

PublishFrame(t) ==
  IF ~t.enabled \/ t.time = None \/ t.latest = None
  THEN t
  ELSE LET live == t.time >= t.latest
           time == IF live THEN t.latest ELSE t.time
       IN [t EXCEPT !.time = time,
                    !.live = live,
                    !.out = [time |-> time, live |-> live, product |-> t.product],
                    !.syncTimer = TRUE]

SetTime(t, time) == PublishFrame([t EXCEPT !.time = time])

-----------------------------------------------------------------------------
(* Playback                                                                *)

StopInterval(t) == [t EXCEPT !.playing = FALSE, !.playTimer = FALSE]

StopPlay(t) ==
  [t EXCEPT !.playing = FALSE, !.playTimer = FALSE, !.playHold = FALSE]

PlayCount(t) ==
  Least(Most(Round(PlayWindow, t.period), PlayMinFrames), Window \div t.period + 1)

StartPlay(t) ==
  IF ~t.enabled \/ ~HasGrid(t)
  THEN t
  ELSE LET from == t.latest - (PlayCount(t) - 1) * t.period
       IN [SetTime([t EXCEPT !.playFrom = from, !.playing = TRUE], from)
             EXCEPT !.playTimer = TRUE]

TogglePlay(t) == IF t.playing THEN StopPlay(t) ELSE StartPlay(t)

\* The interval: one frame further, or the newest frame and the hold.
AdvancePlay(t) ==
  IF t.time + t.period >= t.latest
  THEN [SetTime(t, t.latest) EXCEPT !.playTimer = FALSE, !.playHold = TRUE]
  ELSE SetTime(t, t.time + t.period)

\* The hold is over: playback starts again where it started first.
RestartPlay(t) ==
  LET over == [t EXCEPT !.playHold = FALSE]
  IN IF t.playing
     THEN [SetTime(over, t.playFrom) EXCEPT !.playTimer = TRUE]
     ELSE over

-----------------------------------------------------------------------------
(* The viewer's controls                                                   *)

StepUnbounded(t, frames) ==
  IF ~HasGrid(t) THEN t ELSE SetTime(StopPlay(t), t.time + frames * t.period)

StepFrames(t, frames) ==
  IF ~HasGrid(t)
  THEN t
  ELSE SetTime(StopPlay(t),
               Least(Most(t.time + frames * t.period, OldestTime(t)), t.latest))

GoLive(t) == IF t.latest = None THEN t ELSE SetTime(StopPlay(t), t.latest)

GoOldest(t) == IF ~t.enabled \/ ~HasGrid(t) THEN t ELSE SetTime(t, OldestTime(t))

\* The frames an arrow key moves while shift is held.
HourFrames(t) == IF t.period >= Hour THEN 1 ELSE Most(1, Round(Hour, t.period))

\* The pointer is idx frames to the left of the newest one.
DragTo(t, idx) ==
  IF ~HasGrid(t) \/ t.latest - idx * t.period = t.time
  THEN t
  ELSE [t EXCEPT !.time = t.latest - idx * t.period,
                 !.live = FALSE,
                 !.publishRaf = TRUE]

TrackDown(t, idx) ==
  IF ~t.enabled \/ ~HasGrid(t)
  THEN t
  ELSE DragTo([StopPlay(t) EXCEPT !.dragging = TRUE], idx)

TrackMove(t, idx) == IF t.dragging THEN DragTo(t, idx) ELSE t

TrackUp(t) ==
  IF ~t.dragging THEN t ELSE PublishFrame([t EXCEPT !.dragging = FALSE])

\* The animation frame that schedulePublish() asked for.
PublishOnFrame(t) == PublishFrame([t EXCEPT !.publishRaf = FALSE])

-----------------------------------------------------------------------------
(* The national network: its REST answer and its socket                    *)

ResyncOnce(t) ==
  IF t.syncing # None \/ t.latest # None THEN t ELSE [t EXCEPT !.syncing = t.product]

Resync(t) == IF t.syncing # None THEN t ELSE [t EXCEPT !.syncing = t.product]

SyncedInPlace(t, time, answered) ==
  LET period == IF answered = None THEN Period[t.product] ELSE answered
      got == [t EXCEPT !.latest = FloorToPeriod(time, period),
                       !.period = period,
                       !.syncing = None]
  IN SetTime(got, IF t.time = None THEN got.latest ELSE SnapToGrid(got))

\* fetchLatest answers with a time and a period, or without a usable period.
\* The answer is that of the product asked for; what it is stored for is the
\* product of the moment.
Synced(t, time, answered) ==
  LET period == IF answered = None THEN Period[t.product] ELSE answered
      got == [t EXCEPT !.latest = FloorToPeriod(time, period),
                       !.period = period,
                       !.syncing = None]
  IN SetTime(got, IF t.live \/ t.time = None THEN got.latest ELSE SnapToGrid(got))

SyncFailed(t) == [t EXCEPT !.syncing = None]

OpenSocket(t) == IF t.ws \/ t.hidden THEN t ELSE [t EXCEPT !.ws = TRUE]

CloseSocket(t) == [t EXCEPT !.wsTimer = FALSE, !.ws = FALSE]

MessageUnseen(t, product, time) ==
  LET newest == FloorToPeriod(time, Period[t.product])
  IN IF product # t.product \/ (t.latest # None /\ newest <= t.latest)
     THEN t
     ELSE [t EXCEPT !.latest = newest]

SocketMessage(t, product, time) ==
  LET period == IF t.period = None THEN Period[t.product] ELSE t.period
      newest == FloorToPeriod(time, period)
      known == [t EXCEPT !.latest = newest]
  IN IF product # t.product \/ (t.latest # None /\ newest <= t.latest)
     THEN t
     ELSE IF t.live /\ ~t.playing THEN SetTime(known, newest) ELSE known

ForgetSocket(t) == [t EXCEPT !.ws = FALSE]

\* onclose of a socket that was not closed by the page.
ScheduleReconnect(t) == [t EXCEPT !.ws = FALSE, !.wsTimer = t.enabled \/ t.wsTimer]

Reconnect(t) ==
  LET fired == [t EXCEPT !.wsTimer = FALSE]
  IN IF t.enabled /\ ~t.hidden THEN Resync(OpenSocket(fired)) ELSE fired

-----------------------------------------------------------------------------
(* The server's state and the page's life                                  *)

ApplyState(t, config) ==
  LET next == [t EXCEPT !.enabled = config.enabled, !.product = config.product]
      open == OpenSocket(next)
  IN IF ~config.enabled
     THEN CloseSocket(StopPlay(next))
     ELSE IF t.latest = None \/ t.product # config.product
          THEN Resync(open)
          ELSE PublishFrame(open)

VisibilityChanged(t) ==
  LET seen == [t EXCEPT !.hidden = ~t.hidden]
  IN IF seen.hidden
     THEN CloseSocket(StopPlay(seen))
     ELSE IF t.enabled THEN OpenSocket(seen) ELSE seen

\* The debounced report of the frame to the server, radar_time_changed.
Reported(t) == [t EXCEPT !.syncTimer = FALSE]

Destroyed(t) ==
  [CloseSocket(StopPlay(t)) EXCEPT !.syncTimer = FALSE, !.publishRaf = FALSE]

=============================================================================
