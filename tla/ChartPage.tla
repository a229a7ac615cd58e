------------------------------ MODULE ChartPage ------------------------------
(***************************************************************************)
(* A page with a live chart: a process of InstallationLive, whose chart    *)
(* shows one sensor of a station at a time, or of CompareLive, whose chart *)
(* shows the sensors of one type of the selected stations; the hook of its *)
(* chart in the browser; and the readings, which are stored and then       *)
(* announced to the pages.  A source is a sensor.  A station is selected   *)
(* and subscribed to with all of its sensors: a series has the sensor it   *)
(* is of for its id, not the station.                                      *)
(*                                                                         *)
(* The process handles one event or message at a time, and the browser     *)
(* gets what it pushes in order: a push and the hook's handler are one     *)
(* step.  Times are counted in units of any length.                        *)
(***************************************************************************)
EXTENDS Charts

CONSTANTS
  Source,
  Sites,        \* the stations of InstallationLive: what each sensor measures
  Networks,     \* the stations of CompareLive, and which sensor is of which
  Types,        \* the measurement types to choose from
  Colors,       \* how many colours the series of a chart may have
  Ranges,       \* the lengths a window may have
  DefaultRange,
  Recent,       \* an append looks back this far, a minute
  LiveSlack,    \* a window that ends less than this ago is live, 30 seconds
  FirstTime,    \* the time when the page opens
  LastTime,     \* bound: the last time
  Earliest,     \* bound: the first time readings have and windows of the past
                \* begin at
  MaxAhead,     \* bound: a reading is dated at most this far ahead
  MaxReadings,  \* bound: readings of all sources, for each kind of page
  MaxMail,      \* bound: messages waiting for the page
  MaxNotes      \* bound: messages in place of the chart

Slug == {"temperature", "humidity", "pressure", "wind", "rain", "custom"}

\* site[s] is what the sensor s measures, station[s] the place of its station
\* in the list of stations.  A comparison looks at the first sensor of a type
\* that a station has: the others are left out.
Network == [site : [Source -> Slug], station : [Source -> Nat]]

ASSUME PageAssumption ==
  /\ Sites \subseteq [Source -> Slug]
  /\ Networks \subseteq Network
  /\ \A network \in Networks : \A s, u \in Source :
       network.site[s] = network.site[u] /\ network.station[s] = network.station[u] => s = u
  /\ Types \subseteq Slug /\ Colors \in Nat \ {0} /\ MaxAhead \in Nat
  /\ Ranges \subseteq Nat \ {0} /\ DefaultRange \in Ranges
  /\ Recent \in Nat /\ LiveSlack \in Nat
  /\ \A range \in Ranges : Recent <= range
  /\ FirstTime \in Nat /\ LastTime \in Nat /\ Earliest \in Nat

VARIABLES
  now,      \* the time
  site,     \* site[s]: what sensor s measures
  station,  \* station[s]: its station
  stored,   \* stored[s]: the readings of s in the database
  saving,   \* the sources of readings that are stored and not announced yet
  page,     \* the assigns of the process
  mail,     \* its messages: the sources they are about
  chart,    \* the hook
  missed    \* history: readings that a message came too late for or too
            \* early, or that a load of a live chart left out

vars == <<now, site, station, stored, saving, page, mail, chart, missed>>

SummaryType(slug) ==
  CASE slug \in {"humidity", "pressure"} -> "humidity_pressure"
    [] slug = "custom" -> "none"
    [] OTHER -> slug

ChartType(slug) == IF slug \in {"wind", "rain"} THEN slug ELSE "line"

-----------------------------------------------------------------------------
(* The window of the chart, the same in both pages                         *)

LatestChartWindow(p, range) ==
  [p EXCEPT !.range = range, !.from = now - range, !.to = now, !.live = TRUE]

ResizeChartWindow(p, from, range) ==
  LET end == from + range
      to == Min({end, now})
  IN [p EXCEPT !.range = range, !.from = from, !.to = to,
               !.live = end <= now /\ now - to < LiveSlack]

Prev(p) == [p EXCEPT !.from = @ - p.range, !.to = p.from, !.live = FALSE]

Advance(p) == ResizeChartWindow(p, Min({p.from + p.range, now}), p.range)

-----------------------------------------------------------------------------
(* What is pushed to the chart                                             *)

\* The read action for_sensor: in the order of time, both ends included.
ForSensor(s, from, to) == Ascending({t \in stored[s] : from <= t /\ t <= to})

Tab(p) == CHOOSE s \in p.shown : TRUE

\* The sensors of the stations that have one of the type, ...
Wanted(p) ==
  {s \in p.shown : p.kind = "compare" => site[s] = p.type}

\* ... zipped with the colours: the first ones of the list of stations.
Charted(p) ==
  {s \in Wanted(p) : Cardinality({u \in Wanted(p) : station[u] < station[s]}) < Colors}

Fetched(p) == [s \in Charted(p) |-> ForSensor(s, p.from, p.to)]

\* A page without a selection pushes nothing: its chart is only hidden.
PushChartData(p, c) ==
  IF p.shown = {} THEN c
  ELSE CASE c.chart = "line" -> LineData(c, Fetched(p), p.from, p.to)
         [] c.chart = "wind" ->
              WindData(c, Fetched(p), ToSet(Fetched(p)[Tab(p)]), p.from, p.to)
         [] c.chart = "rain" -> RainData(c, Fetched(p), p.from, p.to)
         [] c.chart = "multi" -> MultiData(c, Fetched(p), p.from, p.to)

\* append_chart_point: the last reading of the last minute, whichever the
\* message was about.  The rose is that of the window of the last load.
Append1(s, c) ==
  LET recent == ForSensor(s, now - Recent, now)
      from == now - page.range
  IN CASE recent = <<>> -> c
       [] recent # <<>> /\ c.chart = "line" -> LineAppend(c, s, Last(recent), from, now)
       [] recent # <<>> /\ c.chart = "wind" ->
            WindAppend(c, s, Last(recent), ToSet(ForSensor(s, page.from, now)), from, now)
       [] recent # <<>> /\ c.chart = "rain" -> RainAppend(c, s, Last(recent), from, now)
       [] recent # <<>> /\ c.chart = "multi" -> MultiAppend(c, s, Last(recent), from, now)

MatchingBySlug(s) ==
  {tab \in page.shown : IF page.kind = "compare" THEN s = tab
                                                 ELSE SummaryType(site[s]) = site[tab]}

\* The source a message about s lets the page append a reading of, if any: that
\* of the same station.
Matching(s) ==
  CASE page.kind = "compare" ->
         {x \in page.shown : station[x] = station[s] /\ site[x] = page.type}
    [] page.kind = "installation" ->
         {tab \in page.shown : SummaryType(site[s]) = SummaryType(site[tab])
                                /\ SummaryType(site[s]) # "none"}

-----------------------------------------------------------------------------
(* The readings                                                            *)

\* The times readings are dated at: the ingest accepts those to come as well.
Dates == Earliest..now + MaxAhead

Readings == Cardinality({r \in Source \X Dates : r[2] \in stored[r[1]]})

Tick ==
  /\ now < LastTime
  /\ now' = now + 1
  /\ UNCHANGED <<site, station, stored, saving, page, mail, chart, missed>>

\* dispatch() stores a reading, on time, late, ahead or once more, ...
Store(s, t) ==
  /\ saving = {}   \* bounded
  /\ t \notin stored[s] => Readings < MaxReadings[page.kind]
  /\ stored' = [stored EXCEPT ![s] = @ \cup {t}]
  /\ saving' = saving \cup {s}
  /\ UNCHANGED <<now, site, station, page, mail, chart, missed>>

\* ... and then announces it.
Announce(s) ==
  /\ s \in saving
  /\ s \in page.heard => Len(mail) < MaxMail
  /\ saving' = saving \ {s}
  /\ mail' = IF s \in page.heard THEN Append(mail, s) ELSE mail
  /\ UNCHANGED <<now, site, station, stored, page, chart, missed>>

-----------------------------------------------------------------------------
(* The page                                                                *)

NewMeasurement ==
  /\ mail # <<>>
  /\ mail' = Tail(mail)
  /\ LET matching == Matching(Head(mail))
     IN /\ chart' = IF page.live /\ matching # {}
                    THEN Append1(CHOOSE s \in matching : TRUE, chart)
                    ELSE chart
        /\ missed' = [s \in Source |->
                        missed[s] \cup {t \in stored[s] :
                          /\ page.live /\ s \in matching \cap DOMAIN chart.series
                          /\ t \notin ToSet(chart.series[s])
                          /\ t < now - Recent \/ t > now}]
  /\ UNCHANGED <<now, site, station, stored, saving, page>>

\* An event of the viewer leaves the assigns as p and loads the chart anew.
Reload(p, c) ==
  /\ page' = p
  /\ chart' = PushChartData(p, c) /\ chart'.notes <= MaxNotes
  /\ missed' = [s \in Source |-> {t \in stored[s] : p.live /\ t > p.to}]
  /\ UNCHANGED <<now, site, station, stored, saving, mail>>

SetChartRange == \E range \in Ranges :
  Reload(IF page.live THEN LatestChartWindow(page, range)
                      ELSE ResizeChartWindow(page, page.from, range), chart)

JumpToDatetime == \E from \in Earliest..now :
  Reload(ResizeChartWindow(page, from, page.range), chart)

NavPrev == page.from - page.range >= Earliest /\ Reload(Prev(page), chart)
NavNext == Reload(Advance(page), chart)
NavNow == Reload(LatestChartWindow(page, page.range), chart)

\* The chart of another tab is another element with a new hook.
SetChartTab == \E tab \in Source :
  /\ page.kind = "installation"
  /\ Reload([page EXCEPT !.shown = {tab}],
            IF tab \in page.shown THEN chart ELSE Mounted(ChartType(site[tab])))

SubscribeThenUnsubscribe(p) ==
  Reload([p EXCEPT !.heard = (p.heard \cup p.shown) \ page.shown], chart)

\* refresh_chart: unsubscribe from what is selected now, subscribe and load.
Refresh(p) ==
  Reload([p EXCEPT !.heard = (p.heard \ p.shown) \cup p.shown], chart)

ToggleStation == \E s \in Source :
  /\ page.kind = "compare"
  /\ Refresh([page EXCEPT !.shown = SymDiff(@, {x \in Source : station[x] = station[s]})])

SetMeasurementType == \E type \in Types :
  /\ page.kind = "compare"
  /\ Refresh([page EXCEPT !.type = type])

Resize ==
  /\ chart' = Resized(chart) /\ chart'.notes <= MaxNotes
  /\ UNCHANGED <<now, site, station, stored, saving, page, mail, missed>>

-----------------------------------------------------------------------------

Opened(kind, shown) ==
  [kind |-> kind, shown |-> shown, type |-> "temperature",
   heard |-> IF kind = "installation" THEN Source ELSE shown,
   range |-> DefaultRange, from |-> now - DefaultRange, to |-> now, live |-> TRUE]

Init ==
  /\ now = FirstTime
  /\ stored = [s \in Source |-> {}]
  /\ saving = {} /\ mail = <<>>
  /\ \/ \E tab \in Source :
          /\ site \in Sites /\ station = [s \in Source |-> 0]
          /\ page = Opened("installation", {tab})
          /\ chart = PushChartData(page, Mounted(ChartType(site[tab])))
     \/ /\ \E network \in Networks :
             site = network.site /\ station = network.station
        /\ page = Opened("compare", {})
        /\ chart = Mounted("multi")
  /\ missed = [s \in Source |-> {}]

Viewer ==
  \/ SetChartRange \/ JumpToDatetime
  \/ NavPrev \/ NavNext \/ NavNow
  \/ SetChartTab \/ ToggleStation \/ SetMeasurementType

Next ==
  \/ Tick
  \/ \E s \in Source, t \in Dates : Store(s, t)
  \/ \E s \in Source : Announce(s)
  \/ NewMeasurement
  \/ Viewer
  \/ Resize

Spec == Init /\ [][Next]_vars

-----------------------------------------------------------------------------
(* Properties                                                              *)

\* The series the viewer looks at.
Watched == IF page.shown = {} THEN {} ELSE DOMAIN chart.series

InOrder(data) == \A i \in 1..Len(data) - 1 : data[i] <= data[i + 1]

TimeOrdered == \A s \in Watched : InOrder(chart.series[s])

HoverFindsReading == \A s \in Watched :
  LET data == chart.series[s]
      after(x) == {i \in 2..Len(data) : data[i] >= x}
  IN data # <<>> => \A x \in chart.from..chart.to :
       Hovered(data, x) = data[IF after(x) = {} THEN Len(data) ELSE Min(after(x))]

ShadingIsGaps == \A s \in Watched :
  chart.chart # "multi" /\ chart.series[s] # <<>> =>
    LET data == ToSet(chart.series[s])
        before(x) == Max({chart.from} \cup {t \in data : t <= x})
        after(x) == Min({chart.to} \cup {t \in data : t > x})
    IN /\ \A x \in chart.from..chart.to - 1 :
            (\E r \in chart.picture.shaded : r[1] <= x /\ x < r[2])
              <=> after(x) - before(x) > Gap
       /\ \A r \in chart.picture.shaded, line \in chart.picture.lines :
            ~(line[1] <= r[1] /\ r[2] <= line[Len(line)])

(* The readings of a chart are in the order of their times, though nothing *)
(* in the browser sorts them: late readings, readings sent again, messages *)
(* about another sensor and messages that wait while the window is moved   *)
(* keep it.  So a region is shaded exactly where two readings, or a        *)
(* reading and an end of the window, are further than Gap apart, no line   *)
(* crosses one, and the tooltip shows the first reading at or after the    *)
(* pointer, or the last one of all (the oldest of several never).          *)
DrawingIsRight == TimeOrdered /\ HoverFindsReading /\ ShadingIsGaps

WindowIsChosen == page.shown # {} =>
  /\ ~page.live => chart.from = page.from /\ chart.to = page.to
  /\ page.live => chart.to - chart.from = page.range
  /\ \A s \in DOMAIN chart.series : \A t \in ToSet(chart.series[s]) :
       chart.from <= t /\ t <= chart.to

ShowsSelection ==
  /\ page.shown \subseteq page.heard
  /\ page.kind = "installation" => DOMAIN chart.series = page.shown
  /\ page.kind = "compare" /\ page.shown # {} => \A s \in Source :
       LET ofType == {u \in page.shown : site[u] = page.type}
           earlier == {u \in ofType : station[u] < station[s]}
       IN s \in DOMAIN chart.series <=> s \in ofType /\ Cardinality(earlier) < Colors
  /\ DOMAIN chart.series \subseteq Source
  /\ chart.picture # NoPicture => chart.notes = 0
  /\ DOMAIN chart.series # {} /\ chart.picture = NoPicture => chart.notes > 0

(* A chart of the past stays as it was loaded: no message that waited or   *)
(* comes later slides its window or adds to it.  A live one has the length *)
(* the viewer has chosen.  Nothing outside of the window is drawn.  The    *)
(* page hears of every station it shows.  The chart of a tab has its       *)
(* series, that of a comparison the series of those of the selected        *)
(* stations that have a sensor of the chosen type, as far as the colours   *)
(* go: a station that has as many such before it in the list is left out.  *)
(* A chart with series shows either a drawing or the message that there is *)
(* nothing to draw.                                                        *)
ShowsChoice == WindowIsChosen /\ ShowsSelection

MissingIsExcused ==
  page.live /\ mail = <<>> /\ saving = {} => \A s \in Watched :
    LET data == ToSet(chart.series[s])
    IN \A t \in stored[s] \ data :
         \/ t < chart.from
         \/ \E u \in data : t < u /\ u <= t + Recent
         \/ t \in missed[s]
         \/ Len(chart.series[s]) >= MaxPoints
         \/ page.kind = "installation" /\ SummaryType(site[s]) = "none"

RoseCoversSpeed == chart.chart = "wind" =>
  \A s \in Watched : ToSet(chart.series[s]) \subseteq chart.rose

(* A live chart that has no message to come lacks a reading dated since    *)
(* the start of its window only if another one followed it within Recent,  *)
(* if it was older than that when its message came, if it was dated ahead  *)
(* of the clock when its message came or the chart was loaded (the ingest  *)
(* accepts such readings, and no later append fetches them), if the load   *)
(* left it out because the window that is called live ended before now, if *)
(* the chart is full, or if the sensor is of a kind that is never          *)
(* appended.  The wind rose never leaves out a reading whose speed is      *)
(* drawn.                                                                  *)
NothingMissing == MissingIsExcused /\ RoseCoversSpeed
=============================================================================
