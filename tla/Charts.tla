------------------------------- MODULE Charts --------------------------------
(***************************************************************************)
(* The chart hooks of assets/js/hooks/d3_charts.js: LineChart, WindChart,  *)
(* RainChart and MultiLineChart.  A hook's object is the record `c', a     *)
(* handler is an operator that returns the record it leaves behind, and    *)
(* what render() draws is kept in its field `picture'.                     *)
(*                                                                         *)
(* A reading is its time: the values, the layout and the colours are left  *)
(* out.  A chart of one sensor has one series, that of MultiLineChart one  *)
(* for every station.                                                      *)
(***************************************************************************)
EXTENDS Integers, Sequences, SequencesExt, FiniteSetsExt

CONSTANTS
  Gap,        \* GAP_MS: the line of one sensor breaks over a longer gap
  MaxPoints   \* the length from which on a series loses its first reading

ASSUME ChartAssumption == Gap \in Nat \ {0} /\ MaxPoints \in Nat \ {0}

-----------------------------------------------------------------------------
(* What is computed of the readings                                        *)

\* The members of a finite set of numbers in their order.
Ascending(S) ==
  [i \in 1..Cardinality(S) |->
     CHOOSE t \in S : Cardinality({u \in S : u < t}) = i - 1]

\* The stretches of from..to without a reading, as pairs of times.
GetNoDataRegions(data, from, to) ==
  IF data = <<>>
  THEN {<<from, to>>}
  ELSE {r \in {<<from, Head(data)>>, <<data[Len(data)], to>>}
              \cup {<<data[i], data[i + 1]>> : i \in 1..Len(data) - 1} :
          r[2] - r[1] > Gap}

\* renderNoDataRegions draws those with a width.
Shaded(regions) == {r \in regions : r[2] > r[1]}

\* A line ends at a cut and the next one begins behind it.
SplitIntoSegments(data) ==
  LET cuts == {0, Len(data)} \cup
              {i \in 1..Len(data) - 1 : data[i + 1] - data[i] > Gap}
      lines == {p \in cuts \X cuts :
                  p[1] < p[2] /\ ~ \E c \in cuts : p[1] < c /\ c < p[2]}
  IN {SubSeq(data, p[1] + 1, p[2]) : p \in lines}

BisectRight(data, x, lo) ==
  Min({i \in lo..Len(data) - 1 : data[i + 1] > x} \cup {Len(data)})

\* d3.bisector().left from index lo: with the indices of the language, the
\* first of lo..Len(data) where the search finds data[i] not below x.
BisectLeft(data, x, lo) ==
  LET search[r \in (0..Len(data)) \X (0..Len(data))] ==
        IF r[1] >= r[2] THEN r[1]
        ELSE LET mid == (r[1] + r[2]) \div 2
             IN IF data[mid + 1] < x THEN search[<<mid + 1, r[2]>>]
                                     ELSE search[<<r[1], mid>>]
  IN search[<<lo, Len(data)>>]

\* mousemove: the reading the tooltip shows when the pointer is at time x.
Hovered(data, x) ==
  data[Min({BisectLeft(data, x, 1), Len(data) - 1}) + 1]

-----------------------------------------------------------------------------
(* render()                                                                *)

\* `lines' are the drawn lines, `marks' the readings drawn by themselves,
\* `shaded' the regions marked as without data.
NoPicture == [lines |-> {}, marks |-> {}, shaded |-> {}, rose |-> {}]

Drawn(c) == UNION {ToSet(c.series[s]) : s \in DOMAIN c.series}

\* The one series of a chart that has one.
Only(c) == c.series[CHOOSE s \in DOMAIN c.series : TRUE]

\* The message "No data for this period" in place of every earlier drawing.
NoData(c) == [c EXCEPT !.picture = NoPicture, !.notes = 1]

Shading(c) == Shaded(GetNoDataRegions(Only(c), c.from, c.to))

RenderLine(c) ==
  IF Drawn(c) = {} THEN NoData(c)
  ELSE [c EXCEPT !.notes = 0,
                 !.picture = [NoPicture EXCEPT
                                !.lines = SplitIntoSegments(Only(c)),
                                !.shaded = Shading(c)]]

SpeedChart(c) ==
  [NoPicture EXCEPT !.lines = SplitIntoSegments(Only(c)),
                    !.shaded = Shading(c)]

\* Without readings of a direction the rose is drawn as calm.
WithRose(picture, c) == [picture EXCEPT !.rose = c.rose]

RenderWind(c) ==
  IF Drawn(c) = {} THEN NoData(c)
  ELSE [c EXCEPT !.notes = 0, !.picture = WithRose(SpeedChart(c), c)]

RenderRain(c) ==
  IF Drawn(c) = {} THEN NoData(c)
  ELSE [c EXCEPT !.notes = 0,
                 !.picture = [NoPicture EXCEPT !.marks = Drawn(c),
                                               !.shaded = Shading(c)]]

\* Without series an earlier message stays; without readings one more is
\* added to it.  Lines are not broken over gaps and nothing is shaded.
RenderMulti(c) ==
  IF DOMAIN c.series = {}
  THEN [c EXCEPT !.picture = NoPicture]
  ELSE IF Drawn(c) = {}
       THEN [c EXCEPT !.picture = NoPicture, !.notes = @ + 1]
       ELSE [c EXCEPT !.notes = 0,
                      !.picture = [NoPicture EXCEPT
                        !.lines = {c.series[s] : s \in DOMAIN c.series} \ {<<>>}]]

-----------------------------------------------------------------------------
(* The events                                                              *)

\* mounted(): an empty chart, of which nothing is drawn.
Mounted(chart) ==
  [chart |-> chart, series |-> [s \in {} |-> <<>>], from |-> 0, to |-> 0,
   rose |-> {}, picture |-> NoPicture, notes |-> 0]

Load(c, series, from, to) ==
  [c EXCEPT !.series = series, !.from = from, !.to = to]

\* push, filter and shift.
Trimmed(data, from) ==
  LET kept == Ascending({i \in DOMAIN data : data[i] >= from})
  IN [j \in DOMAIN kept |-> data[kept[j]]]
Capped(data) == IF Len(data) > MaxPoints THEN Tail(data) ELSE data
Grow(c, s, t, from, to) ==
  [c EXCEPT !.series = [x \in DOMAIN c.series |->
                          Capped(Trimmed(IF x = s THEN Append(@[x], t) ELSE @[x], from))],
            !.from = from, !.to = to]

LineData(c, series, from, to) == RenderLine(Load(c, series, from, to))
LineAppend(c, s, t, from, to) ==
  IF s \notin DOMAIN c.series THEN c ELSE RenderLine(Grow(c, s, t, from, to))

WindData(c, series, rose, from, to) ==
  RenderWind([Load(c, series, from, to) EXCEPT !.rose = rose])
WindAppend(c, s, t, rose, from, to) ==
  RenderWind([Grow(c, s, t, from, to) EXCEPT !.rose = rose])

RainData(c, series, from, to) == RenderRain(Load(c, series, from, to))
RainAppend(c, s, t, from, to) == RenderRain(Grow(c, s, t, from, to))

MultiData(c, series, from, to) == RenderMulti(Load(c, series, from, to))
MultiAppend(c, s, t, from, to) ==
  IF s \notin DOMAIN c.series THEN c ELSE RenderMulti(Grow(c, s, t, from, to))

\* The observer of the element's size.
Resized(c) ==
  CASE c.chart = "line" -> RenderLine(c)
    [] c.chart = "wind" -> RenderWind(c)
    [] c.chart = "rain" -> RenderRain(c)
    [] c.chart = "multi" -> RenderMulti(c)
=============================================================================
