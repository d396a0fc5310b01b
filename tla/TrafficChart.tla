---------------------------- MODULE TrafficChart ----------------------------
(***************************************************************************)
(* The traffic chart: a query for each period, the points of its last      *)
(* answer, the size of the element, and the pointer over it, whose         *)
(* position is looked up one animation frame later.                        *)
(*                                                                         *)
(* React keeps the points until the rows or the period are others, and the *)
(* query library keeps the old rows for an equal answer: the period drawn  *)
(* is the one that ended when the rows last changed.  While a period has   *)
(* no answer yet, the rows that were shown last stand in for its own.      *)
(***************************************************************************)
EXTENDS TrafficModel

CONSTANTS Periods,      \* days: 1, 3 and 7
          Histories,    \* bound: the rows there are to begin with
          Amounts,      \* bound: what the collector adds
          Widths, Height,           \* bound: px
          Pointers,     \* bound: px from the left edge of the plot
          ChartStart, ChartEnd,     \* bound: the first and the last moment
          NoChart       \* null

ASSUME ChartAssumption ==
    /\ Periods \subseteq Nat \ {0} /\ Widths \subseteq Nat \ {0} /\ Height \in Nat
    /\ Pointers \subseteq Int /\ ChartEnd \in Nat /\ ChartStart \in 0..ChartEnd
    /\ Amounts \subseteq Least..Most
    /\ \A h \in Histories : /\ DOMAIN h \subseteq {t \in 0..ChartStart : t % Bucket = 0}
                           /\ h \in [DOMAIN h -> Least..Most]
    /\ \A S \in SUBSET {t \in 0..ChartEnd : t % Bucket = 0} : NoChart \notin [S -> Least..Most]

VARIABLES clock,
          traffic,      \* traffic_5m: bucket_time -> traffic, of one user
          days,         \* the period chosen
          rows,         \* rows[d]: the query's data
          asking,       \* the periods whose answer is awaited
          broken,       \* the periods with rows whose last query failed
          shown,        \* raw, the rows on the screen
          loaded,       \* the period whose own rows were shown last
          series,       \* useTraffic's data, and when it was made
          width,        \* of the element
          hovered,      \* hoveredIndex, from 1
          frame,        \* what the next animation frame looks up
          aim           \* history: what hovered was looked up in

chartVars == <<clock, traffic, days, rows, asking, broken, shown, loaded,
               series, width, hovered, frame, aim>>
query == <<rows, asking, broken, shown, loaded, series>>
pointer == <<hovered, frame, aim>>

Buckets == {t \in 0..ChartEnd : t % Bucket = 0}
\* GET /traffic/me: the buckets that began within the period, now.
Served(d) == LET begun == {t \in DOMAIN traffic : t >= clock - d * DayLength}
             IN [t \in begun |-> traffic[t]]
Made(raw, d) == [data |-> FillBuckets(IF raw = NoChart THEN <<>> ELSE raw, d, clock),
                 at |-> clock]
\* placeholderData: what stood in before goes on standing in.
Pending(d) == rows[d] = NoChart /\ d \in asking
StandIn == IF Pending(days) /\ shown # NoChart THEN shown
           ELSE IF loaded = NoChart THEN NoChart ELSE rows[loaded]

ChartInit ==
    /\ clock = ChartStart /\ traffic \in Histories
    /\ days \in Periods /\ width \in Widths
    /\ rows = [d \in Periods |-> NoChart] /\ asking = {days} /\ broken = {}
    /\ shown = NoChart /\ loaded = NoChart
    /\ series = Made(NoChart, days)
    /\ hovered = NoChart /\ frame = NoChart /\ aim = NoChart

\* isLoading, isError, hasData
View == IF days \in broken \/ (rows[days] = NoChart /\ ~Pending(days)) THEN "error"
        ELSE IF shown = NoChart THEN "loading"
        ELSE IF series.data = <<>> THEN "empty" ELSE "chart"

ChartData(data, w) == Smooth(Downsample(data, PointBudget(w)))
Points == ChartData(series.data, width)
Peak(data) == Max(Volumes(data) \cup {0})

-----------------------------------------------------------------------------
(* The query                                                               *)

\* A period that was loaded is asked for again if it has become stale.
SetDays(d) ==
    /\ d # days /\ days' = d
    /\ asking' \in {asking \cup {d}} \cup (IF rows[d] = NoChart THEN {} ELSE {asking})
    /\ shown' = IF rows[d] = NoChart THEN StandIn ELSE rows[d]
    /\ loaded' = IF rows[d] = NoChart THEN loaded ELSE d
    /\ series' = Made(shown', d)
    /\ hovered' = NoChart /\ aim' = NoChart
    /\ UNCHANGED <<clock, traffic, rows, broken, width, frame>>

\* The focus is back after staleTime.
ChartRefetch ==
    /\ days \notin asking
    /\ asking' = asking \cup {days}
    /\ shown' = IF rows[days] = NoChart THEN StandIn ELSE shown
    /\ series' = IF shown' = shown THEN series ELSE Made(shown', days)
    /\ UNCHANGED <<clock, traffic, days, rows, broken, loaded, width, pointer>>

TrafficAnswer(d) ==
    /\ d \in asking
    /\ asking' = asking \ {d} /\ broken' = broken \ {d}
    /\ rows' = [rows EXCEPT ![d] = Served(d)]
    /\ IF d # days THEN UNCHANGED <<shown, loaded>> ELSE shown' = rows'[d] /\ loaded' = d
    /\ series' = IF d # days \/ rows'[d] = rows[d] THEN series ELSE Made(shown', d)
    /\ UNCHANGED <<clock, traffic, days, width, pointer>>

TrafficFails(d) ==
    /\ d \in asking
    /\ asking' = asking \ {d}
    /\ broken' = IF rows[d] = NoChart THEN broken ELSE broken \cup {d}
    /\ shown' = IF d = days /\ rows[d] = NoChart THEN NoChart ELSE shown
    /\ series' = IF shown' = shown THEN series ELSE Made(shown', d)
    /\ UNCHANGED <<clock, traffic, days, rows, loaded, width, pointer>>

-----------------------------------------------------------------------------
(* The element and the pointer                                             *)

\* ResizeObserver; another budget of points clears what was hovered.
Resize(w) ==
    /\ w # width /\ width' = w
    /\ IF PointBudget(w) = PointBudget(width) THEN UNCHANGED <<hovered, aim>>
       ELSE hovered' = NoChart /\ aim' = NoChart
    /\ UNCHANGED <<clock, traffic, days, query, frame>>

\* handlePointerMove closes over the points of the last drawing.
PointerMoves(x) ==
    /\ View = "chart"
    /\ frame' = [points |-> Points, w |-> width, x |-> x]
    /\ UNCHANGED <<clock, traffic, days, query, width, hovered, aim>>

\* x in parts of a pixel of these points.
Aimed(f) == f.x * Span(f.points)

AnimationFrame ==
    /\ frame # NoChart
    /\ hovered' = Closest(frame.points, frame.w, Aimed(frame))
    /\ aim' = frame /\ frame' = NoChart
    /\ UNCHANGED <<clock, traffic, days, query, width>>

\* clearHover does not cancel the frame.
PointerLeaves ==
    /\ View = "chart"
    /\ hovered' = NoChart /\ aim' = NoChart
    /\ UNCHANGED <<clock, traffic, days, query, width, frame>>

\* The collector, on its way through the buckets.
Collected(v) ==
    /\ clock < ChartEnd /\ clock' = clock + 1
    /\ LET b == (clock' \div Bucket) * Bucket
       IN /\ traffic' = IF v = 0 THEN traffic
                        ELSE [t \in DOMAIN traffic \cup {b} |->
                                IF t # b THEN traffic[t]
                                ELSE IF b \in DOMAIN traffic THEN traffic[b] + v ELSE v]
          /\ v # 0 => traffic'[b] <= Most
    /\ UNCHANGED <<days, query, width, pointer>>

ChartNext ==
    \/ \E d \in Periods : SetDays(d) \/ TrafficAnswer(d) \/ TrafficFails(d)
    \/ ChartRefetch \/ AnimationFrame \/ PointerLeaves
    \/ \E w \in Widths : Resize(w)
    \/ \E x \in Pointers : PointerMoves(x)
    \/ \E v \in Amounts \cup {0} : Collected(v)

-----------------------------------------------------------------------------
(* Properties *)

ChartDrawn == View = "chart"

\* The total over the chart counts every row that the server gave for the period
\* (and those that stand in for them until it has), but for those that have left
\* the period since, and none twice.
TotalCountsPeriod ==
    ChartDrawn =>
        LET data == series.data
            given == IF Pending(days) THEN shown ELSE rows[days]
            counted == {t \in DOMAIN given : t >= series.at - days * DayLength}
        IN SumFunction([i \in DOMAIN data |-> data[i].gb]) = SumFunctionOnSet(given, counted)

\* Thinning out keeps the highest and the lowest point, and the budget, as long
\* as the budget is even (an odd one has no room for the last group's second).
PeaksKept ==
    LET budget == PointBudget(width)
        thin == Downsample(series.data, budget)
    IN ChartDrawn /\ budget % 2 = 0 =>
          /\ Len(thin) <= Larger(budget, 2)
          /\ Max(Volumes(thin)) = Max(Volumes(series.data))
          /\ Min(Volumes(thin)) = Min(Volumes(series.data))

\* The line fits under the top of an axis of two to four steps and reaches its
\* upper half, and a line of the grid means what it says wherever a megabyte or
\* more is drawn.
AxisFits ==
    ChartDrawn =>
        LET peak == Peak(Points)
            y == YScale(peak)
        IN /\ peak <= y.top /\ Cardinality(y.ticks) \in 3..TickCount
           /\ peak > 0 => y.top < 2 * peak
           /\ y.top >= Milli => \A t \in y.ticks : Rise(t, y.top, Height) = TickRise(t, y.top, Height)
           /\ XTicks(series.data, width) # {}

\* The tooltip is about the point nearest to the pointer, once the frame has
\* come and as long as the same points are drawn.
HoverIsNearest ==
    ChartDrawn /\ hovered # NoChart /\ aim.w = width /\ aim.points = Points =>
        LET far(i) == Distance(X(aim.points, width, i), Aimed(aim))
        IN \A i \in DOMAIN aim.points : far(hovered) <= far(i)

\* The labels of the time axis are placed by the points before they are thinned
\* out, and yet where the line has these times.
TicksUnderLine ==
    ChartDrawn =>
        LET line == Points
        IN \A t \in XTicks(series.data, width), i \in DOMAIN line :
              line[i].ts = t => XTick(series.data, width, t) = X(line, width, i)

\* The chart shows the traffic of the period and nothing else.
ChartIsTrue == TotalCountsPeriod /\ PeaksKept /\ AxisFits /\ HoverIsNearest /\ TicksUnderLine
=============================================================================
