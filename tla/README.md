# Voria: a verification project

Voria collects readings of weather stations and pictures of webcams, keeps
them, and shows them to visitors and administrators. This directory holds
TLA+ models of the parts of it whose correctness depends on the order in which
things happen, TLC configurations that check the models on small instances, and
proofs, checked by the TLA+ proof system, that the safety properties hold for
every value of the parameters.

`PROJECT.json` maps each definition of the models to the lines it models, and
lists the components, runs, theorems, mutants (small plausible bugs, each of
which breaks one property) and hazards.

## 1. Inventory

### The server (Elixir, `lib/`)

| Component | State | Operations | Hard behaviours | What makes it correct |
|---|---|---|---|---|
| **Ingest API and dispatch** (`ingest.ex`, `ingest_controller.ex`, the auth plugs) | none of its own | one reading or a bulk of readings per request; dispatch by kind of sensor; then touch the heartbeat, clear faults, publish | a request is a series of steps, each may be the last; requests of one station overlap; clients retry | a reading has all its effects, and having it twice changes nothing |
| **API key and sensor lookups** (`cache.ex` 51-152, key resources) | ETS entries with a lifetime | look up, store, invalidate on revoke or decommission | stored after the invalidation; invalidation is a lossy broadcast | a revoked key is accepted for one lifetime at most |
| **Read cache and invalidation** (`cache.ex`, `cache_invalidation_listener.ex`) | ETS entries, warm locks, the mailbox of the listener, warm tasks | read or compute, invalidate, warm, prime | computing overlaps invalidating; tasks fail or do not start; locks leak | answers are stale for a bounded time only, and not for ever |
| **Fault lifecycle** (`fault.ex`, `fault_scheduler.ex`, `fault_clearer.ex`) | the faults table, ETS heartbeats, the scheduler process | periodic check, touch, clear, report, resolve | a check races readings, clears and admins; restarts lose heartbeats | one automatic fault per device, opened when it is silent, closed when it reports |
| **Cumulative rain** (`rain_measurement.ex`, `rain_cumulative_state.ex`, the change) | measurements and one state row per sensor | record a reading of a gauge that counts up | replays, reordering, two transactions at once, resets of the gauge | intervals are rises of the gauge, each counted once |
| **Other measurements** | one row per sensor and instant | upsert, convert units, round | none beyond the upsert | conversions |
| **Summaries, daily log** | none | functions of the readings of a window | days, minutes, zones, empty windows | totals agree with the readings |
| **Shot upload** (`webcam_ingest.ex`, its controller, `webcam_shot.ex`) | rows of shots, objects in a store | check for a duplicate, convert, store, record | two requests of one image; failure between object and row; restart | a row's object holds its image; what a sender was told is kept stays |
| **Shot purger** (`webcam_shot_purger.ex`, `network.ex`) | the job of one process and its mailbox | start, one batch per message | shots come and go during the job; any step may fail | goes through every shot once, ends, and its counters are right |
| **Storage adapters** (`storage/*.ex`) | the object store (external) | put, delete, public URL | each may fail | - |
| **Public pages** (`live/*.ex`) | assigns of one process per visitor | events of the visitor, messages of PubSub, timers | messages arrive between events, and after midnight | what is shown is what was selected |
| **Administration pages** (`manage_live/*`) | assigns | forms on one record; faults; the purge page | a page is older than the row it acts on | an action applies to what the page shows |
| **Accounts, blog, web shell** | records, sessions | forms, markup, routing | none of concurrency | policies |
| **Application** (`application.ex`) | supervision tree; a task supervisor of 24 children | start, restart | the supervisor is full; restarts lose ETS | - |

### The collector (Go, `ingest/`)

| Component | State | Operations | Hard behaviours | What makes it correct |
|---|---|---|---|---|
| **Scheduler and jobs** (`scheduler/`) | a ticker per job, a pool of ten | start, tick, run, stop | a slot is awaited outside the `select`; runs of one job overlap; `Stop` does not wait for runs | no job is starved for ever; Stop ends |
| **Sender and client** (`sender/`, `client/`) | none | send with retries | answers lost after the server acted; zero or negative retries | success means that the server has it |
| **Imou webcam** (`imou.go`) | tokens and a live stream at a service | bind or reuse, capture, unbind | overlapping runs share a stream; the unbind fails | a stream is not unbound while in use, and not leaked |
| **FTP server** (`ftpserver/`) | the bytes of an open file | write, seek, close | aborted and resumed transfers | what is uploaded is what was sent |
| **HTTP webcam, weather pollers, configuration** | none | fetch, parse, verify | bounded retries | parsing |

### The browser (JavaScript, `assets/js/`, and the LiveViews it talks to)

| Component | State | Operations | Hard behaviours | What makes it correct |
|---|---|---|---|---|
| **Radar timeline** (`hooks/radar_timeline.js`, `radar.js`) | newest frame, grid, shown time, playback, five timers, a socket, a request | play, step, drag, follow; socket messages, REST answers; hidden tab; switch of the product | an answer for a product that was switched meanwhile; timers that outlive what started them; reconnection | what is shown is of the product on display; a viewer who follows the newest frame stays on it; no timer is left behind |
| **Map hook and tile cache** (`hooks/maplibre_map.js`) | the radar layer and its source, the style under way; coloured tiles in order of use, tiles being fetched | states, frames, changes of theme; tile requests | a style that reloads drops the layer; a tile is asked for while it is fetched or evicted | the layer shows what the hook was told last; a tile is fetched once at a time |
| **Charts** (`hooks/d3_charts.js`) with the **live chart pages** (`installation_live.ex`, `compare_live.ex`) | readings, window, drawing; window, tab and selection of the LiveView | load, append, resize; choose range, date, tab, type, stations | messages that wait while the window moves; late, repeated and simultaneous readings, and readings dated ahead; stations without a sensor of the type, more stations than colours | the chart shows the chosen window, in order, and lacks nothing but what can be named |
| **Form inputs** (`hooks/flatpickr_input.js`, `hooks/hugerte_input.js`) | visible input, hidden field, the library's own state, what is pushed | type, pick, close, submit; debounced flush; patches of the server | three copies of one value, an editor that is loaded late or never, and patches that replace the viewer's | what is sent is what is seen |
| **Other browser code** (`app.js`, `input_blur.js`, `radar_palettes.js`) | none | registration of hooks, local times, colours | - | - |

### How the parts interact

    station / webcam --HTTP--> auth plugs --> dispatch or shot upload --> database, store
                                   |                   |
                                   v                   +--> ETS heartbeat --> fault scheduler --> faults
                          key and sensor cache         +--> clear task ----------------------------^
                                                       +--> PubSub --> invalidation listener --> cache
                                                                 \--> public pages
    admin pages --> faults (report, resolve), purger, bulk delete --> rows, then objects
    collector: ticker --> pool --> poller --> sender --HTTP--> the ingest API
    LiveView --radar_state--> map hook, timeline hook --frame--> map hook --tile URLs--> tile cache
    radar network --REST, socket--> timeline hook --radar_time_changed--> LiveView
    stored reading --PubSub--> LiveView --load, append--> chart hook
    viewer --> form input --phx-change, submit--> LiveView --patch--> form input

Shared state is the database (each statement atomic, transactions at READ
COMMITTED), one ETS table per node, and the object store. Processes send each
other messages that are delivered in order per pair and lost when the receiver
restarts. A browser runs one callback at a time and to its end; a LiveView
handles one event or message at a time, and what it pushes arrives in order.

## 2. Modules

| Module | Models | Abstract state |
|---|---|---|
| `Faults` | fault table, heartbeats, scheduler, clear tasks, admin pages, restarts | ages of instants in place of instants |
| `WarmCache` | entries for a webcam's newest shot and its bytes, locks, listener, tasks, requests | a value is "current" or "outdated for n ticks" |
| `RainCumulative` | transactions of one gauge, statement by statement | any gauge: a function from instants to amounts |
| `ShotPurger` | the purge job, uploads and bulk deletes beside it | a shot is an identity and a time |
| `ShotUpload` | upload requests, deletions, restarts | an image stands for its hash |
| `ShotSweep`, `ShotArchive` | what a purge and the uploads promise | sets of shots and of images |
| `RadarTimeline` | the timeline hook: its fields and methods | times in units of the smallest period |
| `RadarMap` | the radar layer of the map hook, alone on a page that sends it anything | a source is the product and time of its tiles |
| `RadarPage` | timeline, map, LiveView and radar network together | one action per callback |
| `TileCache` | the cache of coloured tiles and the fetches under way | a URL is a value |
| `RadarTiles` | the layer of `RadarMap` asking `TileCache` for its tiles | one tile stands for those of a frame |
| `Charts` | the four chart hooks: data, appends, what is drawn | a reading is its time |
| `ChartPage` | a page of either kind, its messages, the stored readings, its chart | a sensor is what it measures and the place of its station in the list |
| `EditorInput` | the editor of an article | documents, and what the editor makes of them |
| `PickerInput` | a date and time picker in two forms | instants, texts, and how they are read |
| `FormInputs` | a page with one of the three forms | - |

A module with runs has a `...MC` module with what TLC needs, unless it needs
nothing; eight have a `...Proofs` module with the theorems.

**Compositions.** `RadarPage` joins the timeline (operators of `RadarTimeline`)
and the map (`Map == INSTANCE RadarMap`) as the page does, by one dispatch for both
and by the frames one emits to the other. `RadarMap` by itself is the abstract
specification of the map: it may be sent any states, frames and changes of theme;
`MapRefined` says that the page's map is an implementation of it, so that what
holds of the map alone holds on the page. Two more abstract specifications are
written as such: `ShotSweep` is a purge without times, cursors, batches and
messages (`PurgeSweeps` of `ShotPurger`), `ShotArchive` the uploads without requests,
keys, objects and tasks (`KeepsImages` of `ShotUpload`). `RadarTiles` joins that map with
`Tiles == INSTANCE TileCache`. `ChartPage` joins the storing of readings, the
messages about them, the LiveView and the operators of `Charts`. On the server
the models meet only in rows (a shot recorded by `ShotUpload` is `RecordShot`
of `WarmCache` and `Record` of `ShotPurger`; a reading is `Commit` of `Faults`,
and `Store` of `ChartPage`), and each of them lets the others' steps happen at
any time.

### Faults

`faults` is the table, restricted to what decides: subject, type, resolved, by
whom. `heartbeat` is the ETS entry of each device, `rowAge` the newest row that
the queries of the scheduler would find. `CheckStations`, `CheckWebcams`,
`JudgeStation`, `JudgeWebcam`, `LookupFault`, `CreateFault` and `EndCheck` are
one `:check_staleness` message taken apart at its queries, because requests
proceed between them. `Commit` (with a sensor of the station, with one it no
longer has, `CommitRemoved`, or for a webcam) and `TouchAndClear` (or
`TouchAndDrop`, when the task supervisor is full or the query of the clear
fails) are a request. A reading bears any instant of its sender's choosing: up
to `MaxAhead` ahead of its arrival (`rowAge` is then negative) or as old as can
be told. `outdated` are the stations whose removed sensor the 5-minute lookup
cache still knows (`LookupExpires`). Queries of the scheduler may fail
(`LookupFails`, and the second case of `JudgeWebcam`); `ClearRead` and `ClearResolve` the
clear task. `Load`, `AdminResolve` and `Report` are the admin pages, and
`Decommission`, `InstallSensor` and `ToggleActive` the forms that change what
the scheduler looks at. `SchedulerCrash` and `NodeRestart` are restarts, with
and without successful seeding. All instants are ages, saturating at `MaxAge`;
`lag` is how much time has passed since the cutoff of the current check, and
the observer `ahead` how far ahead of its arrival the newest row of a device was
dated.

### WarmCache

The ETS entries of one webcam's newest shot (`latest`, read from the database)
and image (`bytes`, computed from what is cached under `latest`). A summary
or a daily log is the case of `latest` alone. A change of the shots (`RecordShot`,
`PurgeShots`, `BulkDelete`) makes every value that was read before it outdated;
`Publish` and `HandleMessage` are the broadcast and the listener;
`StartWarm` claims the lock and starts a task that takes `LookLatest`,
`ReadLatest`, `KeepLatest`, `Download`, `PutBytes`, releasing the lock at the
end (`Finish`), also when it fails (`Fail`); a query that fails gives nil, and
nil is kept. `StartRead` is a request that misses and computes without a lock.
`MaxRun` bounds how long a computation may take and is not related to `LockTTL`: a
lock may expire under the task it was claimed for, and the observer `overruns`
counts how often that happened to a key since it was last without a task.

### RainCumulative

One reading is one transaction: `Check` (is there a measurement of this
instant?), `Fetch` (the state row, and the rise), `Upsert` (the state row, which
is locked until the end), `Write` (the measurement, which waits for a
transaction that wrote the same instant), `Commit` or `Rollback`. `gauge` is
what the gauge showed at each instant and is arbitrary: resets, zeros and
constant stretches are among its values. A reading that is lost is one that is
never sent; one that is repeated is sent again at any time.

### ShotPurger

`job` and `hand` are the state of the GenServer, `mail` the number of
`:process_next_batch` messages it has. `TakeBatch` and `Complete` are the query
of the next batch, `DeleteObject` and `DestroyRow` what is done to the first
shot left, `EndBatch` the new state and the message to itself. `Raise` is the
`rescue` of the handler, `Crash` the supervisor's restart. Meanwhile shots are
recorded (`Record`, at any instant, since `captured_at` is taken before the
insert) and deleted in bulk (`BulkDelete`, then `DeletePending` in a task).
Which shots belong to the selected webcams is left out: the job's filter is
its upper time bound.

As a `ShotSweep`, the job has reached what its batches went through and, of the
batch in hand, what is no longer left. `DeleteObject` and `DestroyRow` are the
steps that reach a shot, taking a batch and ending it are none, and `Raise` and
`Crash` may forget what was reached, as the code does.

### ShotUpload

`Send`, `Duplicate`, `Refuse`, `Draw`, `Put`, `Record` are one request: the hash
is looked for, a key is drawn from the runtime's unique integers, the object is
put, the row is recorded under the unique index. `BulkDelete` and
`DeleteDoomed` delete the row and then, in a task, the object; `PurgeTake`,
`PurgeObject`, `PurgeRow` are the purger, which does it the other way round; its
`PurgeRow` may fail, or the job may end there, and then a row stays whose object
is gone (`stranded` remembers these). `Restart` starts the unique integers anew;
`redrawn` remembers the keys that were in fact drawn a second time. A query for
a duplicate that fails counts as none.

As a `ShotArchive`, an image is kept while it has a row, and served while its row
leads to an object that is that image, under a key that was drawn once. Drawing a key and putting an object are
then no steps at all, nor is the task of a bulk delete; `PurgeObject` withdraws an
image when its row still has the key that the purger read, and is no step
otherwise; `PurgeRow` then deletes it or abandons it, kept and no longer served.
After a restart `ShotArchive` lets any image stop being served (`Doubt`); the model
takes this step only when a key is drawn again.

### RadarTimeline, RadarMap, RadarPage

The hook's object is the record `tl`, with a Boolean for each timer that may be
pending; `Mounted`, `ApplyState`, `SetTime`, `PublishFrame`, `StartPlay`,
`AdvancePlay`, `Synced`, `SocketMessage`, `ScheduleReconnect`, ... are its methods, as
operators from the record before to the record after. `out` is the frame that
the running callback emits. The map hook is the record `map` in the same way:
`OnRadarState`, `ApplyRadarFrame`, `AddRadarLayer`, `UpdateStyle`, `StyleLoaded`.

An action of `RadarPage` is one callback of the browser, run to its end:
`RadarState` (the LiveView's event, which the map hears before the timeline),
the viewer's `Play`, `StepButton`, `ArrowKey`, `HomeKey`, `LiveButton`, `Drag`,
`Drop`; the timers `PlayTick`, `HoldOver`, `AnimationFrame`, `ServerSync`,
`ReconnectTimer`; `Visibility` and `Leave`; and the network's `Publish`, `Answer`,
`AnswerFails`, `SocketCloses`. `Callback` draws what the timeline has emitted.
`lost` remembers that a switch of the product has not had its own answer. The
map's style does not change in `RadarPage`: `RadarMap` has that, at any time.

What is external: MapLibre reports `style.load` once for each change of style
that is not superseded by another, and refuses layers while a style starts from
nothing. The server's assigns are folded into `Pushed`, which says what it may
push next. The network's frames come one unit apart, and it may answer with the
frame before the newest, since the answer and the socket overtake each other.
Opening a socket does not throw.

### TileCache, RadarTiles

`tileCache` is the JavaScript `Map` as the sequence of its keys in the order of
insertion, `tileInFlight` the promises, `waiting` who awaits which. `Hit`, `Join`,
`Start` are the three ways through `fetchColorizedTile`, `Colorized` and
`FetchFails` the end of a fetch, `Settled` the `finally` and the answers. `used` is
a history of the tiles in the order of their last use, against which the cache
is compared.

### Charts, ChartPage

`Charts` has what the hooks compute of the readings (`GetNoDataRegions`,
`SplitIntoSegments`, the search of the tooltip with the bisection of d3) and
what `render()` of each chart draws of them: lines, marks, shaded regions, the
rose, or the message that there is nothing. What the code does with a loop over
an array is stated in closed form, which is shorter and can be proved about:
`Ascending` is what a query sorted by time returns (and the indices a `filter`
keeps), `SplitIntoSegments` the stretches between two cuts. The search of d3 is
the recursion it is. `ChartPage` is a process of either
LiveView: `page` its assigns, `mail` the messages it has not handled,
`Store` and `Announce` the two steps of a reading (on time, late, ahead of the
clock, or once more; `parse_timestamp` of `ingest.ex` takes any date),
`NewMeasurement` the handler with `Append1`, `Reload` what every event of the
viewer ends with, and `Refresh` the change of subscriptions of the comparison,
by `ToggleStation` and `SetMeasurementType`. A comparison selects and hears of
stations and draws sensors: `Wanted` drops the stations without a sensor of the
chosen type, `Charted` what is left over when they are zipped with the `Colors`,
ten in the code. `station` is 0 on a station's own page.
A push and the hook's handler are one step. `missed` remembers the readings that
the code leaves out: older than a minute or dated ahead of the clock when the
message is handled, or beyond the end of a window that counts as live.

### EditorInput, PickerInput, FormInputs

`document` is what the viewer sees, `source` the hidden textarea, `body` what
the server knows; `Input`, `Change`, `Blur`, `Scheduled`, `BeforeSubmit` are the ways from
one to the next, each with or without telling the server, `Validate` the report of
the whole form when another field changes. `stage` is "loading" until the
editor's `init`, and for good when its import fails: the second textarea of
`blog_pages/form.ex:281`, which has no name, is then what the viewer writes in. `sent`
is a history of the last submission: what it carried, what the viewer saw, and
what the server had. In the picker `text`,
`selected` and `hidden` are the visible input, the library's date and the field
of the form; `Type`, `Pick`, `Close` and `SubmitJump` are the viewer's,
`UpdateEditForm` and `ServerMoves` the server's, `Updated` the hook after a patch. A text
has neither seconds nor zone, so several instants share one, and the server
writes its own texts in UTC. External: LiveView holds a patch of an element back
while a push of it is under way; HugeRTE's `init` and the end of its loading are
one step; what flatpickr reports of a `clear()` is left out.

## 3. Runs

| Run | Instance | Question |
|---|---|---|
| `faults_station` | a station, a clear task, two rows, one crash, threshold 1, a check may take 1 tick | safety and liveness of faults while sensors come and go |
| `faults_webcam` | a webcam, an admin, three rows | who resolves what; liveness beside manual faults |
| `cache_safety` | two tasks, lifetime 2, lock 1, computation 1 | staleness bounds; how many tasks warm a key |
| `cache_live` | a task and a request, fair | nothing stays stale for ever |
| `rain_readings` | three instants, every gauge up to 3, two requests | what a stored interval is |
| `rain_replay_race` | two instants, two requests | counterexample: a replay zeroes an interval |
| `purge_covers` | three shots, two instants, batches of two | counters, coverage, messages, rows and objects, ending |
| `shot_uploads` | two images, two requests, three keys, one restart | objects and rows; what senders rely on |
| `radar_page` | two products with frames every 1 and 2 units, a window of 2, one new frame | playback, timers, socket and product switches; the map as an implementation of `RadarMap` |
| `radar_tiles` | two products, two times, two requests, a cache of two | the layer through changes of style; the cache and its fetches |
| `chart_pages` | two sensors of one or two stations, two types, one colour, ranges 1 and 3, three readings (two in a comparison), a unit ahead at most, one waiting message | what is drawn, of which window, and what may be missing |
| `form_inputs` | four instants, three texts, three documents, two pushes | what is sent against what is seen |

**Why the bounds are enough for the cases that matter.** A threshold of one tick
with `MaxLag` one tick has every relation of a heartbeat, a row and a cutoff:
before, at and after it, and a check during which a device becomes stale. Two fault
rows (three with manual ones) allow a second automatic fault, if anything would
open it; rows that are resolved and that nobody refers to are reused, so that
behaviours are not cut short. In the cache, two tasks are the least that can
overlap, the lifetime is two ticks so that an entry can be used and used again
before it ends, and a lock (30 seconds) does not outlive the longest computation
(the image is downloaded, with retries): it can expire under its task, be released
by another task, and be leaked. `WarmsBounded` is about one overrun there, since
after one the two tasks may both be warming; its theorem is about any number. In `faults_station` a reading may be dated a tick
ahead of its arrival (docs/INGEST_API.md:326), now, or beyond the threshold.
Ages saturate above every bound that is compared. Three
instants and gauges up to three give first readings, rises, resets, equal
readings and a reading out of order. Three shots in batches of two give a full
batch, a rest, and, with two instants, shots with equal `captured_at` on both sides
of a cursor. Three keys give two requests at once and a third image after a
deletion; `MaxRestarts` 1 reaches the reuse of a key.

In the browser, two products are what a switch needs, and their periods of one
and two units make a newest frame of one lie off the grid of the other. A window of
two units has three frames of the one and two of the other, and a playback is of
two frames, the least it may have. One new frame is published and answers may be
one frame behind it, which is all that a message overtaking an answer, an
answer overtaking a message and a newest frame that changes while it is followed
need; the theorems hold for any number.
Four frames of which the cache holds two evict some, also one that is being
waited for. For the charts, `MaxPoints` 2 with three readings shifts a series,
ranges of 1 and 3 around a `Gap` of 1 give windows with and without gaps,
`LiveSlack` 2 makes windows live that end before now, readings reach back
to before a window and a unit ahead of the clock, which moves on by one. One
colour leaves out the second of two series of a type; the three networks have a
station with sensors of both types, two stations of one type, and two of which one has
no sensor of the type. A comparison needs two readings: each sensor is appended to
in the same way as the one sensor of the other page, which has three. Two of the four instants have the same text (a repeated
hour, or seconds that are not shown), and one text of the server reads as a
date of the viewer's zone, another does not. Two pushes are enough to have an
old one under way. The theorems of section 5 remove these bounds for every
safety property.

**Deadlock** is checked in every run of the server's models and in `chart_pages`;
none reaches a state without a step. Three runs say `CHECK_DEADLOCK FALSE`,
because the system really stops there: a page that was left has no callbacks
(`radar_page`, and the editor's page in `form_inputs`), and `radar_tiles` counts
only the layer and its tiles.

**What the properties are about**

* `AtMostOneActiveAuto`: nothing in the database forbids a second automatic fault;
  only the scheduler's read before its insert does, across an interval in
  which clear tasks and admins act.
* `BoundedBlindSpot`: warming and seeding count a device as seen now. However often
  the scheduler or node restarts, that hides a silent device for less than one
  threshold (and one check) more, and for as long again as its newest reading was
  dated ahead of its arrival: the ingest accepts any instant and the query of
  recent sensors has no upper bound.
* `ReportingDeviceClears`, `SilentDeviceFaulted` (liveness): a device that keeps its
  heartbeat fresh ends up without an automatic fault and stays so; one that is
  silent while it is watched is faulted, again and again if need be.
* `ManualResolvedByAdmin`: clear tasks and scheduler leave manual faults alone.
* `LatestBounded`, `BytesBounded`: whatever invalidation is lost, overtaken or never
  sent, a served shot has been outdated for less than a lifetime and a
  computation, the image for less than two of each.
* `WarmsBounded`: the tasks that warm a key at a time are at most one more than the
  expiries of its lock under one of them. A task releases the lock without asking
  who holds it, so one expiry can be followed by any number of double warms
  (cache.ex:32 speaks of "at most an occasional double-warm"), yet without an
  expiry there is none, and after one they do not pile up.
* `EventuallyFresh` (liveness): once the shots stop changing, what is served becomes
  and stays what the database says. It has to survive lost publications and the
  bulk delete, which publishes nothing.
* `EachRise`: for readings that come one at a time and in order, each interval is the
  rise since the reading before, whatever is lost, rolled back or replayed.
  `RowIsDifference`: in every interleaving and order a positive interval is a
  difference of two stored readings. `StateMatchesRows`: state row and
  measurements are of one history.
* `CountsAgree`, `CompletedCovers`: the purge takes no shot twice and completes only
  when it has reached all that it counted at its start. `OneBatchMessage`: a running
  job has exactly one thing to do. `RowsMatchObjects`: as long as nothing fails,
  purge, bulk deletes and uploads of the same shots separate no row from its
  object. `PurgeEnds` (liveness): a job ends while shots are recorded all the time.
  `PurgeSweeps` (refinement): the job implements `ShotSweep`, which also says that a
  shot in hand is deleted or is lost, that nothing but the job adds to what it
  reached, and that what ends a job early undoes no deletion.
* `ObjectHoldsImage`, `ToldIsKept`: a row's object is its image, unless a purge took
  the object and is at the row or has left it (the database refused, the job
  failed, the runtime ended) or the key was drawn again after a restart. Deleting an
  earlier shot of the same image, under a key that was read before, takes nothing
  away. What a sender was told is kept has a row until somebody deletes it.
  `KeepsImages` (refinement): an image is recorded once however often it is sent at
  the same time, a promise goes only with its row, and unless its key is drawn
  twice no put and no task takes an image from a row that stays: the purger does,
  from one at a time.
* `TimersFollowPage`: a playback has exactly one of interval and hold, and neither
  outlives it; a page has a socket or a timer that will open one exactly while
  it shows the radar, through every order of switches, hidden tabs and losses.
* `ShowsProduct`: the newest frame lies on the grid of the product on display, and
  the map shows the timeline's frame, but for a product switch whose answer never
  came. `lost` names the ways; each is reachable.
* `StaysLive`: only a control of the viewer takes a viewer off the newest frame, an
  action property over every callback there is.
* `MapRefined`: the map on the page implements the map alone (refinement).
* `Reconnects` (liveness): a page that shows the radar gets its socket back.
* `LayerShowsFrame`: the layer and its source come and go together and are of what
  the hook was told last; no change of theme, in any state of loading, loses the
  layer or brings an old one back.
* `TilesKept`: the order of a `Map`'s keys is the order of use, so that evicting the
  first key is evicting the least recently used; a tile is never fetched twice at
  a time, nor while it is there. `Answered` (liveness): everyone who asks is answered.
* `DrawingIsRight`: nothing in the browser sorts the readings, and they are in order
  all the same; regions without data, lines and the tooltip agree with each other.
* `ShowsChoice`: a chart of the past is never moved or extended by a message; the
  page hears of what it shows; the chart of a tab has its series, that of a
  comparison exactly those of the selected stations that have a sensor of the type
  and a colour.
* `NothingMissing`: a live chart with no message to come lacks only readings that the
  property names: those overtaken within a minute, late ones, those dated ahead, what
  the load of a window called live left out, and what a full chart drops.
* `FormSendsShown`: a submission carries the document the viewer sees in the
  editor, flushed or not (`SubmitSendsSeen`; without the flush of `beforeSubmit` it
  does not); the server knows it unless a flush is pending; the picker's field
  has what its text shows. While there is no editor, a submission carries what
  the server has, not what the textarea shows: the exception is part of the
  property. `EditsSurvivePatch`: no patch takes back a change that was pushed.

**Fairness.** `Faults`: time passes; the timer's message is sent again after each
check, so the scheduler continues; tasks and requests that have begun go on; and
the supervisor is not full on every occasion (strong fairness of `TouchAndClear`;
without it no clear would ever run, and the code has no other way to clear), nor
fails every query of the scheduler about a device (strong fairness of its
`LookupFault`).
`WarmCache`: time passes and computations end; the listener need not do
anything, since expiry alone must suffice. `ShotPurger`: a process with a message
or with work in hand goes on. Nothing is assumed about visitors, admins,
devices or failures. That a purge ends although uploads never stop rests on the
upper time bound of the job and on the finite number of identities.
`RadarPage`: the browser fires a timer that stays pending (weak fairness of
`ReconnectTimer`), and nothing about the network. `RadarTiles`: a fetch ends, well
or badly, and a settled promise runs what waits for it. `ChartPage` and
`FormInputs` have no liveness properties and no fairness.

## 4. Findings

**`rain_replay_race`** ends in a counterexample: a replay whose first request commits
between the replay's two reads finds no measurement and then its own state, and
overwrites the interval with zero. `rain_measurement_test.exs:455`: "duplicate
cumulative replay reuses stored interval".

What follows is reachable in the models as well. The first four are stated as
definitions that no configuration checks; name one as a property of a run of its
module to see TLC's trace.

* `ResolutionIsFinal` of `Faults` (`faults_webcam`): a fault that a clear task or
  another admin has resolved since the page was loaded is resolved again, and
  `resolved_at` and `resolved_by_id` are overwritten, since the validation of
  `:resolve` (`fault.ex:52`) reads the record that the caller holds.
* `SensorlessNeverFaulted` of `Faults` (`faults_station`): `fault_scheduler.ex:83` says
  "Stations with no active sensors are never faulted"; only stations with a cold
  heartbeat are looked at in that way, and a station without sensors is itself
  given a heartbeat, which then goes stale.
* `QuiescentFresh` of `WarmCache` (`cache_safety`): `cache_invalidation_listener.ex:126`
  says that a skipped warm is harmless because the next read computes. The warm
  under way may have read the old value, and stores it after the invalidation:
  it is served until it expires.
* `KeysUnique` of `ShotUpload` (`shot_uploads`): the key of a shot ends in
  `System.unique_integer`, unique within one runtime; after a restart on the
  same day a webcam may draw a key that it has used.
* Readings of one gauge that are handled at the same time or out of order may
  store more rain than the gauge showed (`RowIsDifference` says what still
  holds); of two requests with the same new image, one is answered 422 in place
  of the duplicate answer of `docs/WEBCAM_INGEST_API.md:216-219`, and its object
  stays without a row; a purge that fails after it has deleted an object leaves
  the row without it.
* A product that is switched while the timeline's request is under way, or while
  the radar is off, is not asked for (`radar_timeline.js:204`): the newest frame and the
  period stay those of the earlier product until the next resync. `lost` of
  `RadarPage` remembers this, and `ShowsProduct` excludes it.
* A radar layer that the map's very first style refuses because it is still
  loading is not tried again before the next frame or state (`missed` of
  `RadarMap`): only a change of theme waits for `style.load`.
* The window of a live chart is set when it is loaded and does not move in the
  assigns: a window called live may end up to half a minute ago, and its load
  leaves out what came since (`installation_live.ex:1027`, `compare_live.ex:323`); the
  wind rose is that of the window of the last load, however far the
  speeds have slid.
* An append looks for the newest reading of the last minute: of two readings within a
  minute the first may never be drawn, a late one is not appended, and the same
  one may be appended twice. The tab of a custom sensor is never appended to.
  A reading dated ahead of the clock, which `docs/INGEST_API.md:326` accepts, is
  fetched neither by the append that its message causes nor by any later one
  (`compare_live.ex:650-657`, `installation_live.ex:1507-1516`): a live chart lacks
  it until it is loaded again, also when its time has come.
  `MultiLineChart` adds one more message for each rendering without readings.
  `NothingMissing`, `DrawingIsRight` and `ShowsChoice` say what holds all the same.
* A comparison leaves out, without a word in chart or legend, a selected station
  that has no sensor of the type, and every series past the tenth, for which there
  is no colour (`compare_live.ex:526-545`, `610-624`).
* An article's editor is loaded after the page. Until then, and for good if the
  import fails (`hugerte_input.js:60`), the viewer has an empty textarea without a
  name (`blog_pages/form.ex:281`): what is written there is not sent, and is gone when
  the editor starts. A form that is sent then keeps the article as it was.
* A patch of the jump form replaces a text the viewer has not finished; of the two
  instants of a repeated hour the form can only send the one the text is read as.

## 5. Theorems

All hold for every value of the constants under the assumptions named in the
modules (`TimeAssumption`, `BoundAssumption`, `NilAssumption`, ...). These say that
bounds are natural numbers, that `Nil` or `None` is none of the values, and that
`MaxAge` and `MaxLate` lie above what is compared; `Ids` of `ShotPurger` is a
finite set of naturals. `ProductAssumption` and `WindowAssumption` of the
timeline say that periods are positive and lengths natural numbers,
`FeedAssumption` that times are counted from before the first window;
`TilesAssumption` that the cache holds at least one tile; `TextAssumption` that
what a text is read as is shown as that text again; `CleanAssumption` that the
editor leaves alone what it has written out; `ChartAssumption` that `Gap` and
`MaxPoints` are positive (5 minutes, 10000 points), `PageAssumption` that a window
has a length, which is not shorter than the minute an append looks back (the
shortest range of the page is hours). TLC evaluates them in the runs.
Most theorems are of the form `Spec => []Inv`; `ManualFaults`, `Live` and
`EditsSurvive` are of actions, `Refinement`, `Sweeping` and `Archiving` are of
specifications; the first four about the charts are facts about what the hook
computes of any readings. The types of `ShotPurger` and `ShotUpload` are theorems
only; no configuration checks them again.

| Theorem | Inductive invariant, and why the property alone is not inductive |
|---|---|
| `FaultsProofs!Typing` | `Base`: types, and that tasks and pages refer to rows that exist (a step writes through such a reference) |
| `FaultsProofs!OneAutoFault` | `AutoInv`: also `CreateGuarded`, that between look and insert no automatic fault of the device appears; nobody but the scheduler opens one |
| `FaultsProofs!BlindSpot` | `BlindInv`: also that a row bounds the silence of its device up to what it was dated ahead, and that a station the check holds for fresh was silent for less than threshold + lag + that |
| `FaultsProofs!ManualFaults` | `ManualInv`: what a clear task is about to resolve is an auto-offline fault, whose row is not reused while the task refers to it |
| `WarmCacheProofs!Typing` | itself |
| `WarmCacheProofs!LatestStaleness`, `BytesStaleness` | `LateInv`: lateness of an entry is bounded by its age, of a value in a computation by the computation's run time |
| `WarmCacheProofs!WarmsAreBounded` | `WarmInv`: also that the one task more than the expiries is there only while the key's lock cannot be claimed, which every end of a task and every expiry undo. No assumption relates computations to locks |
| `RainCumulativeProofs!Typing` | itself |
| `RainCumulativeProofs!NoHistoryCounted`, `OneHistory` | `HistoryInv`: what a transaction carries is a difference of stored readings, and one that writes no state row is a replay or shows nothing |
| `RainCumulativeProofs!RainIsRise` | `SerialInv`: as long as readings came in order, the state row is the last reading that showed something, and the one transaction carries the rise since it or what is stored |
| `ShotPurgerProofs!Typing`, `OneMessage` | `Basic`: also that work in hand belongs to a running job |
| `ShotPurgerProofs!CountedOnce` | `Counting`: what was gone through lies behind the cursor, what is in hand after it, and the hand's counters add up |
| `ShotPurgerProofs!CompletedReachedAll` | `Covering`: a shot of the start that is left is `Ahead` of the walk |
| `ShotPurgerProofs!NothingSeparated` | `Together`: pending objects have no row, and the shot whose row goes next has lost its object |
| `ShotPurgerProofs!Sweeping` | `Basic`, `Counting` and `Covering`: that no shot is reached twice is that the hand lies after the cursor, that an end finds nothing due is `Covering`, and a shot that arrives was never recorded before (`ReachedRecorded`) |
| `ShotUploadProofs!Typing`, `ToldAreKept` | `Basic`: also that a request past the check has a key |
| `ShotUploadProofs!RowsHold` | `Unshared`: every key in use was drawn, by this runtime or an earlier one; a key that was drawn once has one use; and objects of requests about to record hold their image |
| `ShotUploadProofs!Archiving` | `Basic` and `Unshared`: an object that is stored or deleted belongs to no row, unless it is the purger's, or to rows whose key was drawn twice, which are not served |
| `RadarPageProofs!Typing`, `Timers` | `Inv`, of which `Bounded` keeps times within the window and the feed (so that a step, a drag or a playback computes with numbers), `PlayOK` the timers with the playback, `Connected` the socket with the page |
| `RadarPageProofs!Shown` | `Inv`, of which `Linked` says that map and timeline were told the same, `Asked` what the last answer has left, also while the radar is off, `Drawn` that the map has the timeline's time |
| `RadarPageProofs!Live`, `Refinement` | the same, and `Kept`: what each callback does to a viewer who follows, and to the map (a step of `RadarMap` or none; its times lie in `0..LastFeed` by `Bounded`) |
| `RadarTilesProofs!Layer` | `Fine`: there is no layer while a style starts from nothing, and every style but the first is waited for |
| `RadarTilesProofs!Typing`, `Kept` | `CacheInv`: the tiles used are distinct and the cache is their end, one fetch a tile; on lemmas about deleting a key from a sequence of distinct ones and appending it |
| `BrowserProofs!FormTyping`, `SendsShown` | `EditorInv`: source and server have the same document, be it cleaned or not, and nothing is pending before there is an editor; `PickerInv`: a server without a value renders no date |
| `BrowserProofs!EditsSurvive` | `LastPushed`: the last value under way, or else the server's, is that of the hidden input |
| `BrowserProofs!BisectFinds`, `HoverFinds` | no state: see below for the recursion |
| `BrowserProofs!NoLineOverShading`, `ShadedIffGap` | no state: both functions are shown to speak of `Neighbours`, two readings (or a reading and an end) with none between; each reading has a left and a right one |
| `BrowserProofs!PageAlways`, `ChartDrawsRight`, `ChartShowsChoice`, `ChartMissesNothing` | `PageIInv`, the conjunction of the four below with the types |

The properties of a chart follow from one invariant, since each needs all of it:

* `PageInv`: a page hears of what it shows (of all its sensors on a station's page,
  so that none of their messages is lost), its window has the length of its range
  while it is live, and never ends after now. Without the last, a message could
  move a window backwards, and drop nothing that it should. A station has one
  sensor of a type, so that a message finds the sensor it is about.
* `ChartInv`: the hook is the page's, with its series and its window, which for a
  live page may be later than the page's but never earlier; `PictureIsCurrent`: what
  is drawn is what `render` makes of the readings the hook has now.
* `ReadingsInv`: the readings are in order, in the database, in the window, and in
  the rose. The order survives an append because the reading appended is the last
  one stored up to now, so none of the chart is later; that needs "in the database".
* `MissingInv`: a stored reading that a live chart lacks has an excuse, or is about to be
  announced, or its message waits. This is `NothingMissing` with the steps before
  there is nothing to come. That a chart is full is an excuse only for readings
  before those it has (`FullSince`), or dropping one would excuse all.

TLC has checked `PageIInv` on the instance of `chart_pages` before it was proved.

The search of the tooltip is recursive, and the library's induction theorems
cannot be used here. The proof does without. What the search looks for, the first
index in a part of the readings, is itself a function that satisfies the
recursive equation, so there is one (`SearchExists`); and of any function that does,
if it differed anywhere from the first index, a narrowest such part would
contradict its own half (`SearchFinds`).

`MapRefined` names the initial states and the steps of `RadarMap`; its fairness, that
a style loads, is the library's and is not claimed of the page. `ShotSweep` and
`ShotArchive` have no fairness: that a purge ends is `PurgeEnds`. Each of the three
proofs is that initial states map to initial states, and that a step maps to a
step or to none, one case for each action.

**Only model-checked:** the liveness properties (`ReportingDeviceClears`,
`SilentDeviceFaulted`, `EventuallyFresh`, `PurgeEnds`, `Reconnects`, `Answered`), which
need fairness and ENABLED, out of the prover's reach. The counterexample needs
no proof.

## 6. Not modelled

`PROJECT.json` lists every component with its reason. In short: kinds of
measurement other than cumulative rain are upserts of one row; accounts, blog,
web shell and most forms keep records one at a time; parsing, markup, scales,
layout and colours have no state. `record_interval` and the correction of rain
measurements by admins write given values into the same rows and are not in
`RainCumulative`. `Faults` has one node with one scheduler: two schedulers would
look up and insert beside each other, and no index keeps the second fault out. In
`WarmCache` one node is modelled: other nodes hold caches of
their own and take part through the same messages.

Of the browser, these are left out: the stations' markers on the map, which follow
each list the server sends; the timeline's ticks and labels; the growing delay of
a reconnection (a timer may fire at any time); the purge form's picker, which
reports by `phx-change`; a local time that the viewer's zone skips; an editor
that is created after its page was left. Of the pages: changes of stations,
sensors and dates of measurements by admins while a page is open; the list, index and date of the
webcam viewer; summaries, daily log and faults, which are rendered from what
was read. The collector is not modelled: it meets the server through requests
that are lost, repeated and reordered, which the models of the server allow.

## 7. What is left

In this order:

1. `KeyCache`: look-up caches of API keys and sensors, revocation and decommission,
   several nodes. Abstract specification: a key is accepted while it is valid or for
   a lifetime after. Theorem: the bound.
2. `Collector`: tickers, the pool, retries, `Stop`; with the server as an abstract
   receiver that may act and then lose the answer. Properties: Stop ends (a
   counterexample is expected when ten runs hang), success means received.
3. `ImouLive`: overlapping runs that bind, reuse, clean up and unbind.
4. `ViewerPage`: the shot list, index and date of the webcam pages under messages, jumps
   and midnight.
5. `DailyLog` and `Summaries`: the running totals by minute and the dry days as
   recursive functions, against a reference on bounded inputs.
6. The FTP file writer against a file that honours offsets.
7. `WarmCache` as an implementation of a register that answers with a value at most
   so old: the abstract specification, a run, and the proof step by step.

## 8. Running

    tlasany Faults.tla
    tlc -workers 2 -config FaultsStation.cfg FaultsMC
    tlapm FaultsProofs.tla
    tlc -workers 2 -config RadarPage.cfg RadarPageMC
    tlc -workers 2 -config RadarTiles.cfg RadarTiles
    tlapm RadarPageProofs.tla
    tlapm BrowserProofs.tla

The longest run is `cache_safety` (about two minutes), the longest proof
`BrowserProofs` (a few minutes).
