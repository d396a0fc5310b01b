---------------------------- MODULE TrafficModel ----------------------------
(***************************************************************************)
(* From the rows of GET /traffic to the line on the screen: the gaps are   *)
(* filled, the points thinned out to what the width can show, smoothed,    *)
(* put on axes; and from the pointer back to a point.                      *)
(*                                                                         *)
(* Time is counted in ticks, Bucket of them to five minutes.  Traffic is   *)
(* counted in units small enough for every division of the code to come    *)
(* out even: a weighted mean divides by 6, 7, 8 or 9.  A horizontal        *)
(* position is counted in parts of a pixel, one for each tick of the span. *)
(***************************************************************************)
EXTENDS Integers, SequencesExt, FiniteSetsExt

CONSTANTS Bucket, DayLength,                \* in ticks
          MinBudget, MaxBudget, PixelRatio, \* points: 96, 1400; from 1 to 2
          Sides, PerTick,                   \* px: the padding left and right; 110
          MinTicks, MaxTicks, Intervals,    \* 3, 9, X_TICK_INTERVALS_MS
          Steps, TickCount, Milli,          \* 1, 2, 5 by powers of ten; 5; 0.001 GB
          Least, Most                       \* bound: what a bucket carries, if anything

ASSUME ModelAssumption ==
    /\ Bucket \in Nat \ {0} /\ DayLength \in Nat \ {0} /\ DayLength % Bucket = 0
    /\ MinBudget \in Nat /\ MaxBudget \in Nat /\ 3 <= MinBudget /\ MinBudget <= MaxBudget
    /\ PixelRatio \in 1..2 /\ Sides \in Nat /\ PerTick \in Nat \ {0}
    /\ MinTicks \in Nat \ {0} /\ MaxTicks \in Nat /\ MinTicks <= MaxTicks
    /\ Intervals # <<>> /\ \A i \in DOMAIN Intervals : Intervals[i] \in Nat \ {0}
    /\ Steps \subseteq Nat \ {0} /\ TickCount \in Nat /\ TickCount > 1
    /\ Least \in Nat /\ Most \in Nat /\ 3 <= Least /\ Least <= Most
    /\ Milli \in (Least \div 3)..Most

\* 1, 2 and 5 follow so closely that for all there is to draw a step below it
\* reaches it in time.
ASSUME StepsAssumption ==
    \A v \in (Least \div 3)..Most : \E s \in Steps : s < v /\ v <= s * (TickCount - 1)

CeilDiv(a, b) == -((-a) \div b)
Larger(a, b) == IF a > b THEN a ELSE b
Smaller(a, b) == IF a < b THEN a ELSE b
Clamp(v, lo, hi) == Larger(lo, Smaller(hi, v))
Distance(a, b) == Larger(a - b, b - a)
Volumes(data) == {data[i].gb : i \in DOMAIN data}

-----------------------------------------------------------------------------
(* The points                                                              *)

RoundToBucket(t) == ((t + (Bucket \div 2)) \div Bucket) * Bucket
\* What is drawn for the bucket `at'; rows: from the time of a row to its traffic.
Point(rows, at) ==
    [ts |-> at,
     gb |-> SumFunctionOnSet(rows, {t \in DOMAIN rows : RoundToBucket(t) = at})]

\* fillBuckets: a point for every bucket that begins within the period.
FillBuckets(rows, days, t) ==
    LET from == CeilDiv(t - days * DayLength, Bucket)
    IN [i \in 1..((t \div Bucket) - from + 1) |-> Point(rows, (from + i - 1) * Bucket)]

PointBudget(width) == Clamp(width * PixelRatio, MinBudget, MaxBudget)

\* The first smallest and the first largest of data[lo..hi], in order of time.
Extremes(data, lo, hi) ==
    LET least == CHOOSE i \in lo..hi : \A j \in lo..hi :
                    data[i].gb < data[j].gb \/ (data[i].gb = data[j].gb /\ i <= j)
        most == CHOOSE i \in lo..hi : \A j \in lo..hi :
                    data[i].gb > data[j].gb \/ (data[i].gb = data[j].gb /\ i <= j)
    IN IF least = most THEN <<data[least]>>
       ELSE <<data[Smaller(least, most)], data[Larger(least, most)]>>

\* Mutant of GroupSize: rounded down, the last points are in no group.
GroupSizeDown(length, groups) == Larger(1, length \div groups)
GroupSize(length, groups) == CeilDiv(length, groups)

\* downsampleTraffic: the first point, the last, the extremes of each group between,
\* as long as there is room.
Downsample(data, budget) ==
    IF Len(data) <= budget \/ budget < 3 THEN data
    ELSE LET inner == SubSeq(data, 2, Len(data) - 1)
             room == budget - 2
             groups == Larger(1, CeilDiv(room, 2))
             size == GroupSize(Len(inner), groups)
             group(g) == Extremes(inner, (g - 1) * size + 1, Smaller(g * size, Len(inner)))
             picks == FlattenSeq([g \in 1..Smaller(groups, CeilDiv(Len(inner), size))
                                     |-> group(g)])
         IN <<Head(data)>> \o SubSeq(picks, 1, Smaller(room, Len(picks))) \o <<Last(data)>>

\* smoothTraffic with a radius of 2: weights 1, 2, 3, 2, 1.
Smooth(data) ==
    IF Len(data) < 3 THEN data
    ELSE [i \in DOMAIN data |->
            LET near == Larger(1, i - 2)..Smaller(Len(data), i + 2)
                weight == [j \in near |-> 3 - Distance(i, j)]
            IN [data[i] EXCEPT !.gb = SumFunction([j \in near |-> weight[j] * data[j].gb])
                                         \div SumFunction(weight)]]

-----------------------------------------------------------------------------
(* The axes                                                                *)

NiceStep(peak) == Min({s \in Steps : s * (TickCount - 1) >= peak})

\* buildYScale: the top of the axis and its ticks.
YScale(peak) ==
    LET safe == IF peak > 0 THEN peak ELSE Milli
        step == NiceStep(safe)
        top == Larger(step, CeilDiv(safe, step) * step)
    IN [top |-> top, ticks |-> {k * step : k \in 0..(top \div step)}]

\* buildXTicks
XTicks(data, width) ==
    LET first == Head(data).ts
        last == Last(data).ts
        target == Clamp(width \div PerTick, MinTicks, MaxTicks)
        fits == {i \in DOMAIN Intervals : Larger(1, last - first) <= target * Intervals[i]}
        interval == Intervals[IF fits = {} THEN Len(Intervals) ELSE Min(fits)]
        ticks == {t \in first..last : t % interval = 0}
    IN IF Len(data) = 1 THEN {first} ELSE IF ticks = {} THEN {first, last} ELSE ticks

\* toChartPoints: from the left edge, in parts of a pixel; from the baseline, in px
\* of an area that is `height' high.
X(data, width, i) == (data[i].ts - Head(data).ts) * Larger(1, width - Sides)
\* xTickPositions: where the label of the time t stands.
XTick(data, width, t) == (t - Head(data).ts) * Larger(1, width - Sides)
Span(data) == Larger(1, Last(data).ts - Head(data).ts)
Rise(gb, top, height) ==
    LET range == Larger(Milli, top) IN (Clamp(gb, 0, range) * height) \div range
\* The line of a tick does without the least range.
TickRise(tick, top, height) == (tick * height) \div top

-----------------------------------------------------------------------------
(* The pointer                                                             *)

\* findClosestPointIndexByX: bisection, then the nearer neighbour.
Closest(data, width, x) ==
    LET n == Len(data)
        bisect[at \in (1..n) \X (1..n)] ==
            LET mid == (at[1] + at[2]) \div 2
            IN IF at[1] >= at[2] THEN at[1]
               ELSE IF X(data, width, mid) < x THEN bisect[<<mid + 1, at[2]>>]
               ELSE bisect[<<at[1], mid>>]
        right == bisect[<<1, n>>]
        left == Larger(1, right - 1)
        far(i) == Distance(X(data, width, i), x)
    IN IF n <= 1 THEN 1 ELSE IF far(right) < far(left) THEN right ELSE left
=============================================================================
