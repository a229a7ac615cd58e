----------------------------- MODULE RadarPage -------------------------------
(***************************************************************************)
(* The radar of the live map: the timeline hook, the map hook that draws   *)
(* the frames the timeline emits, the LiveView MapLive, which tells both   *)
(* whether the radar is on and which product it shows, and the national    *)
(* radar network with its REST interface and its socket.                   *)
(*                                                                         *)
(* A browser runs one callback at a time and to its end, so every action   *)
(* is a whole callback.  The two hooks meet twice in one callback: both    *)
(* listen to radar_state, the map first, and a frame the timeline emits    *)
(* is drawn before the emitting callback goes on.                          *)
(***************************************************************************)
EXTENDS RadarTimeline

CONSTANTS
  FirstFeed,   \* the time of the newest frame when the page opens
  LastFeed     \* bound: the newest frame the network ever has

\* Times are counted from long before the page: no timeline reaches back
\* beyond the first one.
ASSUME FeedAssumption ==
  /\ FirstFeed \in Nat \ {0} /\ LastFeed \in Nat /\ FirstFeed <= LastFeed
  /\ \A p \in Product : Window + Period[p] <= FirstFeed
  /\ None \notin [product : Product, time : Int]

VARIABLES
  tl,       \* the timeline hook
  map,      \* the map hook
  feed,     \* the time of the network's newest frame
  lost,     \* history: a product switch has not been followed by its answer
  open      \* the page is open

vars == <<tl, map, feed, lost, open>>

Map == INSTANCE RadarMap WITH Time <- 0..LastFeed

Off == [enabled |-> FALSE, product |-> DefaultProduct]

Init ==
  /\ tl = Mounted(FALSE)
  /\ map = Map!StyleLoaded(Map!MapMounted)   \* RadarMap has the other case
  /\ feed = FirstFeed
  /\ lost = FALSE
  /\ open = TRUE

-----------------------------------------------------------------------------
(* A callback leaves the timeline as t; the map, which the callback had    *)
(* already left as m, draws the frame t carries.                           *)
Callback(t, m) ==
  /\ tl' = [t EXCEPT !.out = None]
  /\ map' = IF t.out = None \/ ~open THEN m ELSE Map!ApplyRadarFrame(m, t.out.time)

\* What the LiveView pushes next: its assigns after a change of the form,
\* whose product is disabled while the radar is off, or those it starts with.
Pushed(config) == config = Off \/ tl.enabled \/ config.product = tl.product

\* A product that changes while a request is running, or while the radar is
\* off, has no request of its own.
Unasked(t, config) ==
  /\ t.product # config.product
  /\ config.enabled => t.syncing # None

RadarState == \E config \in Config :
  /\ open /\ Pushed(config)
  /\ Callback(ApplyState(tl, config), Map!OnRadarState(map, config))
  /\ lost' = (lost \/ Unasked(tl, config))
  /\ UNCHANGED <<feed, open>>

\* The viewer, who sees the timeline only while the radar is on

Control(t) ==
  /\ open /\ tl.enabled /\ ~tl.hidden
  /\ Callback(t, map)
  /\ UNCHANGED <<feed, lost, open>>

Play == Control(TogglePlay(tl))
StepButton == \E frames \in {-1, 1} : Control(StepFrames(tl, frames))
ArrowKey == \E dir \in {-1, 1} :
  HasGrid(tl) /\ Control(StepFrames(tl, dir * HourFrames(tl)))
HomeKey == Control(GoOldest(tl))
LiveButton == Control(GoLive(tl))
Drag == HasGrid(tl) /\ \E idx \in 0..MaxIdx(tl) :
  Control(TrackDown(tl, idx)) \/ Control(TrackMove(tl, idx))
Drop == Control(TrackUp(tl))

\* The browser

Timer(pending, t) ==
  /\ pending
  /\ Callback(t, map)
  /\ UNCHANGED <<feed, lost, open>>

PlayTick == Timer(tl.playTimer, AdvancePlay(tl))
HoldOver == Timer(tl.playHold, RestartPlay(tl))
AnimationFrame == Timer(tl.publishRaf /\ ~tl.hidden, PublishOnFrame(tl))
ServerSync == Timer(tl.syncTimer, Reported(tl))
ReconnectTimer == Timer(tl.wsTimer, Reconnect(tl))
Visibility == Timer(open, VisibilityChanged(tl))

\* The network

Publish == \E product \in Product :
  /\ feed < LastFeed
  /\ feed' = feed + 1
  /\ Callback(IF tl.ws THEN SocketMessage(tl, product, feed') ELSE tl, map)
  /\ UNCHANGED <<lost, open>>

\* The interface may answer with the frame before the newest.
Answer ==
  /\ tl.syncing # None
  /\ \E time \in {feed - 1, feed}, period \in {None, Period[tl.syncing]} :
       Callback(Synced(tl, time, period), map)
  /\ lost' = (tl.syncing # tl.product)
  /\ UNCHANGED <<feed, open>>

AnswerFails ==
  /\ tl.syncing # None
  /\ Callback(SyncFailed(tl), map)
  /\ lost' = TRUE
  /\ UNCHANGED <<feed, open>>

SocketCloses ==
  /\ tl.ws
  /\ Callback(ScheduleReconnect(tl), map)
  /\ UNCHANGED <<feed, lost, open>>

Leave ==
  /\ open
  /\ open' = FALSE
  /\ tl' = Destroyed(tl)
  /\ UNCHANGED <<map, feed, lost>>

ViewerActs ==
  Play \/ StepButton \/ ArrowKey \/ HomeKey \/ LiveButton \/ Drag \/ Drop

Next ==
  \/ RadarState
  \/ ViewerActs
  \/ PlayTick \/ HoldOver \/ AnimationFrame \/ ServerSync
  \/ ReconnectTimer \/ Visibility
  \/ Publish \/ Answer \/ AnswerFails \/ SocketCloses
  \/ Leave

\* The browser fires the timer that is pending.
Spec == Init /\ [][Next]_vars /\ WF_vars(ReconnectTimer)

-----------------------------------------------------------------------------
(* Properties                                                              *)

(* The types of the two hooks; between two callbacks no frame is on its    *)
(* way from one to the other.  The timeline has a time whenever it has a   *)
(* newest frame, and a grid whenever it plays: the controls and the timer  *)
(* of the playback compute with them unasked.                              *)
TypeOK ==
  /\ tl \in TimelineType /\ tl.out = None
  /\ tl.latest # None <=> tl.time # None
  /\ tl.playing => HasGrid(tl) /\ tl.playFrom # None
  /\ map \in Map!MapType(Int)
  /\ feed \in Nat
  /\ lost \in BOOLEAN /\ open \in BOOLEAN

PlayTimers ==
  /\ tl.playing => tl.playTimer # tl.playHold
  /\ ~tl.playing => ~tl.playTimer /\ ~tl.playHold
  /\ tl.playing => open /\ tl.enabled /\ ~tl.hidden

SocketFollowsPage ==
  tl.ws \/ tl.wsTimer <=> open /\ tl.enabled /\ ~tl.hidden

(* A playback has exactly one of its two timers pending, and a timer has a *)
(* playback: however the viewer, the server, the tab and the timers        *)
(* interleave, no second interval runs and none is left behind by a stop,  *)
(* a radar that is switched off, a hidden tab or a page that is left.  A   *)
(* page that shows the radar has a socket or a timer that will open one,   *)
(* and a page that does not show it has neither.                           *)
TimersFollowPage == PlayTimers /\ SocketFollowsPage

GridOfProduct ==
  tl.enabled /\ tl.syncing = None /\ ~lost /\ tl.latest # None
    => tl.period = Period[tl.product] /\ tl.latest % tl.period = 0

MapFollowsTimeline ==
  open /\ tl.enabled /\ ~tl.publishRaf /\ tl.syncing = None /\ ~lost /\ tl.time # None
    => /\ map.time = tl.time
       /\ map.layer => map.source.product = tl.product

(* The newest frame lies on the grid of the product on display, once the   *)
(* interface has answered for that product, and the map draws what the     *)
(* timeline shows, unless an animation frame or an answer is still to      *)
(* come.  `lost' names the only ways around it: a switch of the product    *)
(* that found a request running, one that came while the radar was off,    *)
(* and a request that failed.                                              *)
ShowsProduct == GridOfProduct /\ MapFollowsTimeline

Following(t) == t.live /\ ~t.playing /\ t.time = t.latest

(* A viewer who follows the newest frame stays on it until a control is    *)
(* used: no answer, message, state, timer or visit to another tab takes    *)
(* the viewer off it, not even when the newest frame changes.              *)
StaysLive == [][Following(tl) /\ ~Following(tl') => ViewerActs]_vars

(* The map of the page behaves like the map alone, which RadarMap checks   *)
(* with any states, frames and changes of theme.                           *)
MapRefined == Map!MapInit /\ [][Map!MapNext]_map

(* A page that shows the radar and has lost its socket gets one again,     *)
(* however often it is lost.                                               *)
Reconnects ==
  open /\ tl.enabled /\ ~tl.hidden
    ~> tl.ws \/ ~(open /\ tl.enabled /\ ~tl.hidden)
=============================================================================
