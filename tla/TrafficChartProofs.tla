------------------------- MODULE TrafficChartProofs -------------------------
(***************************************************************************)
(* The chart shows the traffic of the period, whatever the rows, the size  *)
(* of the buckets, the periods, the widths and the budgets.                *)
(*                                                                         *)
(* First what each step of TrafficModel makes of a line: filling keeps     *)
(* every row, thinning out the extremes, smoothing the times; the axis     *)
(* fits, the bisection finds the nearest point.  Then what every step of   *)
(* the chart keeps.                                                        *)
(***************************************************************************)
EXTENDS TrafficChart, Arithmetic

Volume == 0..Most
Dot == [ts : Int, gb : Volume]
\* In order of time.
Rising(s) == \A i, j \in 1..Len(s) : i < j => s[i].ts < s[j].ts
Line(s) == s \in Seq(Dot) /\ Rising(s)

LEMMA Constants ==
    /\ Bucket \in Nat \ {0} /\ DayLength \in Nat \ {0} /\ DayLength % Bucket = 0
    /\ Least \in Nat /\ Most \in Nat /\ 3 <= Least /\ Least <= Most
BY ModelAssumption

LEMMA CeilDivFacts ==
    ASSUME NEW a \in Int, NEW b \in Nat \ {0}
    PROVE  /\ CeilDiv(a, b) \in Int
           /\ a <= b * CeilDiv(a, b) /\ b * CeilDiv(a, b) < a + b
<1> DEFINE q == (-a) \div b
<1>1. q \in Int /\ b * q <= -a /\ -a < b * q + b
  BY Quotient
<1>2. CeilDiv(a, b) = -q
  BY DEF CeilDiv
<1> HIDE DEF q
<1>3. b * (-q) = -(b * q) /\ b * q \in Int
  BY <1>1
<1> QED BY <1>1, <1>2, <1>3

LEMMA MaxFacts ==
    ASSUME NEW b \in Nat, NEW S \in SUBSET (0..b), S # {}
    PROVE  Max(S) \in S /\ \A y \in S : y <= Max(S)
<1>1. \E m \in S : \A y \in S : m >= y
  <2>1. PICK m \in S : \A y \in S : y <= m
    BY LargestNumber
  <2> QED BY <2>1
<1>2. Max(S) \in S /\ \A y \in S : Max(S) >= y
  BY <1>1 DEF Max
<1> QED BY <1>2

LEMMA MinFacts ==
    ASSUME NEW S \in SUBSET Nat, S # {}
    PROVE  Min(S) \in S /\ \A y \in S : Min(S) <= y
<1>1. \E m \in S : \A y \in S : m =< y
  BY LeastNumber
<1> QED BY <1>1 DEF Min

-----------------------------------------------------------------------------
(* Filling the gaps                                                        *)

Aligned(c) == {t \in 0..c : t % Bucket = 0}
\* The rows there can be up to the moment c.
History(c) == UNION {[S -> Least..Most] : S \in SUBSET Aligned(c)}

LEMMA HistoryFacts ==
    ASSUME NEW c \in Nat, NEW h \in History(c)
    PROVE  /\ DOMAIN h \subseteq Aligned(c) /\ IsFiniteSet(DOMAIN h)
           /\ \A t \in DOMAIN h : h[t] \in Least..Most /\ h[t] \in Nat
<1>1. DOMAIN h \subseteq Aligned(c) /\ \A t \in DOMAIN h : h[t] \in Least..Most
  BY DEF History
<1>2. IsFiniteSet(0..c)
  BY FS_Interval
<1>3. DOMAIN h \subseteq 0..c
  BY <1>1 DEF Aligned
<1> QED BY <1>1, <1>2, <1>3, FS_Subset, Constants

LEMMA HistoryLater ==
    ASSUME NEW c \in Nat, NEW d \in Nat, c <= d
    PROVE  History(c) \subseteq History(d)
<1>1. Aligned(c) \subseteq Aligned(d)
  BY DEF Aligned
<1> QED BY <1>1 DEF History

LEMMA EmptyHistory ==
    ASSUME NEW c \in Nat
    PROVE  <<>> \in History(c)
<1>1. <<>> \in [{} -> Least..Most] /\ {} \in SUBSET Aligned(c)
  OBVIOUS
<1> QED BY <1>1 DEF History

\* A row begins where its bucket does: rounding leaves it there.
LEMMA RoundedInPlace ==
    ASSUME NEW t \in Int, t % Bucket = 0
    PROVE  RoundToBucket(t) = t
<1> DEFINE r == Bucket \div 2
<1>1. PICK i \in Int : t = Bucket * i
  BY Constants, Multiple, Zenon
<1>2. r \in 0..(Bucket - 1)
  BY Constants
<1> HIDE DEF r
<1>3. (Bucket * i + r) \div Bucket = i
  BY <1>2, Constants, QuotientUnique
<1>4. i * Bucket = Bucket * i
  BY Constants
<1> QED BY <1>1, <1>3, <1>4 DEF RoundToBucket, r

LEMMA PointOfRow ==
    ASSUME NEW c \in Nat, NEW h \in History(c), NEW at \in Int
    PROVE  Point(h, at) = [ts |-> at, gb |-> IF at \in DOMAIN h THEN h[at] ELSE 0]
<1>1. {t \in DOMAIN h : RoundToBucket(t) = at} = IF at \in DOMAIN h THEN {at} ELSE {}
  <2>1. \A t \in DOMAIN h : t \in Int /\ t % Bucket = 0
    BY HistoryFacts DEF Aligned
  <2> QED BY <2>1, RoundedInPlace
<1>2. CASE at \in DOMAIN h
  BY <1>1, <1>2, SumSingleton, HistoryFacts DEF Point
<1>3. CASE at \notin DOMAIN h
  BY <1>1, <1>3, SumEmpty DEF Point
<1> QED BY <1>2, <1>3

\* Where the points of a period stand.
Before(d, t) == CeilDiv(t - d * DayLength, Bucket)
Count(d, t) == (t \div Bucket) - Before(d, t) + 1
Place(d, t, i) == (Before(d, t) + i - 1) * Bucket

LEMMA PlacesCounted ==
    ASSUME NEW d \in Nat \ {0}, NEW t \in Nat
    PROVE  /\ Before(d, t) \in Int /\ Count(d, t) \in Nat
           /\ \A i \in 1..Count(d, t) : /\ Place(d, t, i) \in Int /\ Place(d, t, i) <= t
                                        /\ Place(d, t, i) >= t - d * DayLength
                                        /\ Place(d, t, i) % Bucket = 0
           /\ \A i, j \in 1..Count(d, t) : i < j => Place(d, t, i) < Place(d, t, j)
           /\ \A x \in Int : /\ x % Bucket = 0 /\ x <= t
                             /\ x >= t - d * DayLength
                             => \E i \in 1..Count(d, t) : x = Place(d, t, i)
<1> DEFINE from == Before(d, t)
           q == t \div Bucket
           n == Count(d, t)
           low == t - d * DayLength
<1>0. Bucket \in Nat \ {0} /\ low \in Int /\ t \in Int /\ d * DayLength \in Nat
  BY Constants
<1>1. from \in Int /\ low <= Bucket * from /\ Bucket * from < low + Bucket
  BY <1>0, CeilDivFacts DEF Before
<1>2. q \in Int /\ Bucket * q <= t /\ t < Bucket * q + Bucket
  BY <1>0, Quotient
<1>3. d * DayLength >= Bucket
  <2>1. DayLength >= Bucket
    <3>0. DayLength \in Int
      BY Constants
    <3>1. PICK k \in Int : DayLength = Bucket * k
      BY <3>0, Constants, Multiple, Zenon
    <3>2. k >= 1
      BY <3>1, Constants
    <3> QED BY <3>1, <3>2, <1>0
  <2>2. d * DayLength >= DayLength
    BY Constants
  <2> QED BY <2>1, <2>2, <1>0, Constants
<1>4. n = q - from + 1
  BY DEF Count
<1> HIDE DEF from, q, n
<1>5. Bucket * from < Bucket * (q + 1)
  BY <1>0, <1>1, <1>2, <1>3
<1>6. \A a, b \in Int, k \in Nat \ {0} : k * a < k * b => a < b
  OBVIOUS
<1>6a. \A a, b \in Int, k \in Nat \ {0} : a < b => k * a < k * b
  OBVIOUS
<1>6b. \A a, b \in Int, k \in Nat \ {0} : a <= b => k * a <= k * b
  OBVIOUS
<1>7. n \in Nat
  <2>1. from < q + 1
    BY <1>0, <1>1, <1>2, <1>5, <1>6
  <2> QED BY <2>1, <1>1, <1>2, <1>4
<1>8. ASSUME NEW i \in Int
      PROVE  Place(d, t, i) = Bucket * (from + i - 1) /\ Place(d, t, i) \in Int
  <2>1. from + i - 1 \in Int
    BY <1>1
  <2>2. Place(d, t, i) = (from + i - 1) * Bucket
    BY DEF Place, from
  <2> HIDE DEF low
  <2> QED BY <2>1, <2>2, <1>0
<1>9. ASSUME NEW i \in 1..n
      PROVE  /\ Place(d, t, i) \in Int /\ Place(d, t, i) <= t
             /\ Place(d, t, i) >= low /\ Place(d, t, i) % Bucket = 0
  <2>1. from + i - 1 \in Int /\ from <= from + i - 1 /\ from + i - 1 <= q
    BY <1>1, <1>2, <1>4, <1>7
  <2>2. Bucket * from <= Bucket * (from + i - 1) /\ Bucket * (from + i - 1) <= Bucket * q
    BY <1>0, <1>1, <1>2, <2>1, <1>6b
  <2>3. Place(d, t, i) = Bucket * (from + i - 1) + 0 /\ Place(d, t, i) \in Int
    BY <1>8, <1>0
  <2>4. 0 \in 0..(Bucket - 1)
    BY <1>0
  <2>5. Place(d, t, i) % Bucket = 0
    <3>1. (Bucket * (from + i - 1) + 0) % Bucket = 0
      BY <1>0, <2>1, <2>4, QuotientUnique, Zenon
    <3> QED BY <2>3, <3>1, Zenon
  <2> HIDE DEF low
  <2>6. Bucket * (from + i - 1) \in Int /\ Bucket * from \in Int /\ Bucket * q \in Int
    BY <1>0, <1>1, <1>2, <2>1
  <2> QED BY <1>0, <1>1, <1>2, <2>2, <2>3, <2>5, <2>6
<1>10. ASSUME NEW i \in 1..n, NEW j \in 1..n, i < j
       PROVE  Place(d, t, i) < Place(d, t, j)
  <2>1. from + i - 1 < from + j - 1 /\ from + i - 1 \in Int /\ from + j - 1 \in Int
    BY <1>1, <1>7, <1>10
  <2> QED BY <2>1, <1>0, <1>6a, <1>8
<1>11. ASSUME NEW x \in Int, x % Bucket = 0, x <= t, x >= low
       PROVE  \E i \in 1..n : x = Place(d, t, i)
  <2>1. PICK k \in Int : x = Bucket * k
    BY <1>0, <1>11, Multiple, Zenon
  <2>2. k < q + 1 /\ from < k + 1
    <3>1. Bucket * k < Bucket * (q + 1)
      BY <1>0, <1>2, <1>11, <2>1
    <3>2. Bucket * from < Bucket * (k + 1)
      BY <1>0, <1>1, <1>11, <2>1
    <3> HIDE DEF low
    <3> QED BY <3>1, <3>2, <1>0, <1>1, <1>2, <1>6
  <2> DEFINE i == k - from + 1
  <2>3. i \in 1..n /\ from + i - 1 = k
    BY <1>1, <1>2, <1>4, <2>2
  <2>4. x = Place(d, t, i)
    BY <1>8, <2>1, <2>3
  <2> QED BY <2>3, <2>4
<1> QED BY <1>1, <1>7, <1>9, <1>10, <1>11 DEF from, n


LEMMA FilledLine ==
    ASSUME NEW d \in Nat \ {0}, NEW t \in Nat, NEW h \in History(t)
    PROVE  LET s == FillBuckets(h, d, t)
           IN /\ Line(s) /\ Len(s) = Count(d, t)
              /\ \A i \in 1..Len(s) : /\ s[i].ts = Place(d, t, i)
                                      /\ s[i].gb = IF s[i].ts \in DOMAIN h THEN h[s[i].ts] ELSE 0
<1> DEFINE s == FillBuckets(h, d, t)
           n == Count(d, t)
<1>1. n \in Nat /\ \A i \in 1..n : Place(d, t, i) \in Int
  BY PlacesCounted
<1>2. s = [i \in 1..n |-> Point(h, Place(d, t, i))]
  BY DEF FillBuckets, Count, Before, Place
<1>3. \A i \in 1..n : Point(h, Place(d, t, i)) =
          [ts |-> Place(d, t, i),
           gb |-> IF Place(d, t, i) \in DOMAIN h THEN h[Place(d, t, i)] ELSE 0]
  BY <1>1, PointOfRow
<1>4. \A x \in DOMAIN h : h[x] \in Volume
  BY HistoryFacts, Constants DEF Volume
<1>5. 0 \in Volume
  BY Constants DEF Volume
<1> HIDE DEF n, s
<1>6. \A i \in 1..n : s[i] \in Dot /\ s[i].ts = Place(d, t, i)
                      /\ s[i].gb = IF s[i].ts \in DOMAIN h THEN h[s[i].ts] ELSE 0
  <2> SUFFICES ASSUME NEW i \in 1..n
               PROVE  s[i] \in Dot /\ s[i].ts = Place(d, t, i)
                      /\ s[i].gb = IF s[i].ts \in DOMAIN h THEN h[s[i].ts] ELSE 0
    OBVIOUS
  <2> DEFINE x == Place(d, t, i)
  <2>1. s[i] = [ts |-> x, gb |-> IF x \in DOMAIN h THEN h[x] ELSE 0]
    BY <1>2, <1>3
  <2>2. x \in Int
    BY <1>1
  <2> HIDE DEF x
  <2>3. (IF x \in DOMAIN h THEN h[x] ELSE 0) \in Volume
    BY <1>4, <1>5
  <2>4. s[i] \in Dot
    BY <2>1, <2>2, <2>3 DEF Dot
  <2> QED BY <2>1, <2>4 DEF x
<1>7. DOMAIN s = 1..n /\ Len(s) = n /\ s \in Seq(Dot)
  BY <1>1, <1>2, <1>6
<1>8. Rising(s)
  <2>1. \A i, j \in 1..n : i < j => Place(d, t, i) < Place(d, t, j)
    BY PlacesCounted DEF n
  <2> QED BY <2>1, <1>6, <1>7 DEF Rising
<1> QED BY <1>6, <1>7, <1>8 DEF Line, s, n

\* The total: each row of the period is at one place, and nothing else is.
LEMMA FilledTotal ==
    ASSUME NEW d \in Nat \ {0}, NEW t \in Nat, NEW h \in History(t)
    PROVE  LET s == FillBuckets(h, d, t)
               counted == {x \in DOMAIN h : x >= t - d * DayLength}
           IN SumFunction([i \in DOMAIN s |-> s[i].gb]) = SumFunctionOnSet(h, counted)
<1> DEFINE s == FillBuckets(h, d, t)
           n == Count(d, t)
           counted == {x \in DOMAIN h : x >= t - d * DayLength}
           at(i) == Place(d, t, i)
           part(C) == [i \in 1..n |-> IF at(i) \in C THEN h[at(i)] ELSE 0]
           Total(f) == SumFunctionOnSet(f, 1..n)
           P == {C \in SUBSET counted : Total(part(C)) = SumFunctionOnSet(h, C)}
<1>1. /\ n \in Nat /\ \A i \in 1..n : at(i) \in Int /\ at(i) <= t /\ at(i) >= t - d * DayLength
      /\ \A i, j \in 1..n : i < j => at(i) < at(j)
  BY PlacesCounted
<1>2. \A x \in counted : /\ x \in Int /\ h[x] \in Nat
                         /\ \E i \in 1..n : x = at(i)
  <2>1. \A x \in DOMAIN h : x \in Int /\ x <= t /\ x % Bucket = 0 /\ h[x] \in Nat
    BY HistoryFacts DEF Aligned
  <2> QED BY <2>1, PlacesCounted
<1>3. IsFiniteSet(counted) /\ IsFiniteSet(1..n)
  BY <1>1, HistoryFacts, FS_Subset, FS_Interval
<1>3a. \A i, j \in 1..n : at(i) = at(j) => i = j
  BY <1>1
<1> HIDE DEF n, counted, at
<1>4. P \in SUBSET SUBSET counted /\ {} \in P
  <2>1. part({}) = [i \in 1..n |-> 0]
    OBVIOUS
  <2>2. Total(part({})) = 0
    <3>1. SumFunction([i \in 1..n |-> 0]) = 0
      BY <1>3, SumZero
    <3> QED BY <2>1, <3>1 DEF SumFunction
  <2> QED BY <2>2, SumEmpty
<1>5. ASSUME NEW C \in SUBSET counted, C # {}, \A x \in C : C \ {x} \in P PROVE C \in P
  <2>1. PICK x \in C : TRUE
    BY <1>5
  <2> DEFINE D == C \ {x}
  <2>2. x \in counted /\ h[x] \in Nat
    BY <1>2
  <2>3. PICK k \in 1..n : x = at(k)
    BY <1>2
  <2>4. part(D) \in [1..n -> Nat]
    BY <1>2
  <2>5. \A i \in 1..n : part(C)[i] = IF i = k THEN part(D)[i] + h[x] ELSE part(D)[i]
    <3>1. \A i \in 1..n : i # k => at(i) # x
      BY <2>3, <1>3a
    <3>2. part(D)[k] = 0
      BY <2>3
    <3> SUFFICES ASSUME NEW i \in 1..n
                 PROVE  part(C)[i] = IF i = k THEN part(D)[i] + h[x] ELSE part(D)[i]
      OBVIOUS
    <3>3. CASE i = k
      BY <3>3, <3>2, <2>2, <2>3
    <3>4. CASE i # k
      BY <3>4, <3>1
    <3> QED BY <3>3, <3>4
  <2>6. Total(part(C)) = Total(part(D)) + h[x]
    <3>1. \A i \in 1..n : part(D)[i] \in Nat
      BY <2>4
    <3> DEFINE S == 1..n
               before == part(D)
               after == part(C)
               v == h[x]
               p == k
    <3>2. \A i \in S : after[i] = IF i = p THEN before[i] + v ELSE before[i]
      BY <2>5
    <3>3. \A i \in S : before[i] \in Nat
      BY <3>1
    <3>4. v \in Nat
      BY <2>2
    <3>5. p \in S
      OBVIOUS
    <3>6. IsFiniteSet(S)
      BY <1>3
    <3> HIDE DEF S, before, after, v, p
    <3>7. SumFunctionOnSet(after, S) = SumFunctionOnSet(before, S) + v
      BY <3>2, <3>3, <3>4, <3>5, <3>6, SumRaised
    <3> QED BY <3>7 DEF S, before, after, v, p
  <2>7. SumFunctionOnSet(h, C) = h[x] + SumFunctionOnSet(h, D)
    <3>1. IsFiniteSet(C) /\ \A y \in C : h[y] \in Nat
      BY <1>2, <1>3, FS_Subset
    <3> QED BY <3>1, SumRemove
  <2>8. Total(part(D)) = SumFunctionOnSet(h, D)
    BY <1>5
  <2>9. SumFunctionOnSet(h, D) \in Nat
    <3>1. IsFiniteSet(D) /\ \A y \in D : h[y] \in Nat
      BY <1>2, <1>3, FS_Subset
    <3> QED BY <3>1, SumType
  <2>10. Total(part(C)) = SumFunctionOnSet(h, C)
    <3> HIDE DEF part, D
    <3> QED BY <2>2, <2>6, <2>7, <2>8, <2>9
  <2> QED BY <2>10
<1>6. \A C \in SUBSET counted : C \in P
  <2> HIDE DEF P
  <2> QED BY <1>3, <1>4, <1>5, SubsetInduction
<1>7. [i \in DOMAIN s |-> s[i].gb] = part(counted)
  <2>1. /\ s \in Seq(Dot) /\ Len(s) = n
        /\ \A i \in 1..n : s[i].gb = IF at(i) \in DOMAIN h THEN h[at(i)] ELSE 0
    <3>1. /\ Line(s) /\ Len(s) = n
          /\ \A i \in 1..Len(s) :
                /\ s[i].ts = at(i)
                /\ s[i].gb = IF s[i].ts \in DOMAIN h THEN h[s[i].ts] ELSE 0
      BY FilledLine DEF at, n
    <3> HIDE DEF s
    <3> QED BY <3>1 DEF Line
  <2>2. DOMAIN s = 1..n
    BY <2>1
  <2>3. \A i \in 1..n : at(i) \in DOMAIN h <=> at(i) \in counted
    BY <1>1 DEF counted
  <2> HIDE DEF s
  <2>4. \A i \in 1..n : s[i].gb = part(counted)[i]
    BY <2>1, <2>3
  <2> QED BY <2>2, <2>4
<1>8. SumFunction(part(counted)) = SumFunctionOnSet(h, counted)
  <2>1. Total(part(counted)) = SumFunctionOnSet(h, counted)
    BY <1>6
  <2>2. DOMAIN part(counted) = 1..n
    OBVIOUS
  <2> HIDE DEF part
  <2> QED BY <2>1, <2>2 DEF SumFunction
<1> QED BY <1>7, <1>8 DEF counted


-----------------------------------------------------------------------------
(* Thinning out                                                            *)

\* e is picked, in order, from data[lo..hi].
PickedFrom(e, data, lo, hi) ==
    Line(e) /\ \A i \in 1..Len(e) : \E j \in lo..hi : e[i] = data[j]
\* e goes as high and as low as data[lo..hi].
Spans(e, data, lo, hi) ==
    \A k \in lo..hi : \E i, j \in 1..Len(e) : e[i].gb >= data[k].gb /\ e[j].gb <= data[k].gb

LEMMA JoinedSequence ==
    ASSUME NEW e \in Seq(Dot), NEW f \in Seq(Dot)
    PROVE  /\ e \o f \in Seq(Dot) /\ Len(e \o f) = Len(e) + Len(f)
           /\ \A i \in 1..Len(e) : (e \o f)[i] = e[i]
           /\ \A i \in 1..Len(f) : (e \o f)[Len(e) + i] = f[i]
           /\ Len(e) \in Nat /\ Len(f) \in Nat
OBVIOUS

LEMMA PickedJoined ==
    ASSUME NEW data, Line(data), NEW lo \in Nat \ {0}, NEW mid \in Nat, NEW hi \in Nat,
           hi <= Len(data), lo - 1 <= mid, mid <= hi, NEW e, NEW f,
           PickedFrom(e, data, lo, mid), PickedFrom(f, data, mid + 1, hi)
    PROVE  PickedFrom(e \o f, data, lo, hi)
<1>1. e \in Seq(Dot) /\ f \in Seq(Dot) /\ data \in Seq(Dot)
  BY DEF PickedFrom, Line
<1>2. /\ e \o f \in Seq(Dot) /\ Len(e \o f) = Len(e) + Len(f)
      /\ \A i \in 1..Len(e) : (e \o f)[i] = e[i]
      /\ \A i \in 1..Len(f) : (e \o f)[Len(e) + i] = f[i]
      /\ Len(e) \in Nat /\ Len(f) \in Nat
  BY <1>1
<1>3. \A i \in 1..Len(e \o f) : i \in 1..Len(e) \/ \E j \in 1..Len(f) : i = Len(e) + j
  <2> SUFFICES ASSUME NEW i \in 1..Len(e \o f), i \notin 1..Len(e)
               PROVE  \E j \in 1..Len(f) : i = Len(e) + j
    OBVIOUS
  <2>1. i - Len(e) \in 1..Len(f) /\ i = Len(e) + (i - Len(e))
    BY <1>2
  <2> QED BY <2>1
<1> DEFINE g == e \o f
<1> HIDE DEF g
<1>4. ASSUME NEW i \in 1..Len(g) PROVE \E j \in lo..hi : g[i] = data[j]
  <2>1. CASE i \in 1..Len(e)
    <3>1. PICK j \in lo..mid : e[i] = data[j]
      BY <2>1 DEF PickedFrom
    <3> QED BY <3>1, <2>1, <1>2 DEF g
  <2>2. CASE \E j \in 1..Len(f) : i = Len(e) + j
    <3>1. PICK k \in 1..Len(f) : i = Len(e) + k
      BY <2>2
    <3>2. PICK j \in (mid + 1)..hi : f[k] = data[j]
      BY DEF PickedFrom
    <3>3. j \in lo..hi /\ g[i] = f[k]
      BY <3>1, <1>2 DEF g
    <3> QED BY <3>2, <3>3
  <2> QED BY <1>3, <2>1, <2>2 DEF g
<1>5. ASSUME NEW i \in 1..Len(g), NEW j \in 1..Len(g), i < j PROVE g[i].ts < g[j].ts
  <2>1. CASE j \in 1..Len(e)
    <3>1. i \in 1..Len(e)
      BY <2>1, <1>5
    <3> QED BY <2>1, <3>1, <1>2, <1>5 DEF g, PickedFrom, Line, Rising
  <2>2. CASE i \in 1..Len(e) /\ \E k \in 1..Len(f) : j = Len(e) + k
    <3>1. PICK k \in 1..Len(f) : j = Len(e) + k
      BY <2>2
    <3>2. PICK a \in lo..mid : e[i] = data[a]
      BY <2>2 DEF PickedFrom
    <3>3. PICK b \in (mid + 1)..hi : f[k] = data[b]
      BY DEF PickedFrom
    <3>4. a < b /\ a \in 1..Len(data) /\ b \in 1..Len(data)
      BY <1>1
    <3>5. data[a].ts < data[b].ts
      BY <3>4 DEF Line, Rising
    <3> QED BY <2>2, <3>1, <3>2, <3>3, <3>5, <1>2 DEF g
  <2>3. CASE /\ \E k \in 1..Len(f) : i = Len(e) + k
             /\ \E k \in 1..Len(f) : j = Len(e) + k
    <3>1. PICK k \in 1..Len(f) : i = Len(e) + k
      BY <2>3
    <3>2. PICK m \in 1..Len(f) : j = Len(e) + m
      BY <2>3
    <3>3. k < m
      BY <3>1, <3>2, <1>2, <1>5
    <3>4. f[k].ts < f[m].ts
      BY <3>3 DEF PickedFrom, Line, Rising
    <3> QED BY <3>1, <3>2, <3>4, <1>2 DEF g
  <2>4. i \in Nat /\ j \in Nat /\ (j \in 1..Len(e) \/ \E k \in 1..Len(f) : j = Len(e) + k)
    BY <1>3 DEF g
  <2>5. i \in 1..Len(e) \/ \E k \in 1..Len(f) : i = Len(e) + k
    BY <1>3 DEF g
  <2> QED BY <2>1, <2>2, <2>3, <2>4, <2>5
<1> QED BY <1>2, <1>4, <1>5 DEF g, PickedFrom, Line, Rising

LEMMA SpansJoined ==
    ASSUME NEW data, NEW lo \in Nat, NEW mid \in Nat, NEW hi \in Nat,
           NEW e \in Seq(Dot), NEW f \in Seq(Dot),
           Spans(e, data, lo, mid), Spans(f, data, mid + 1, hi)
    PROVE  Spans(e \o f, data, lo, hi)
<1> DEFINE g == e \o f
<1>1. /\ Len(g) = Len(e) + Len(f) /\ Len(e) \in Nat /\ Len(f) \in Nat
      /\ \A i \in 1..Len(e) : g[i] = e[i]
      /\ \A i \in 1..Len(f) : g[Len(e) + i] = f[i]
  OBVIOUS
<1>1a. /\ \A i \in 1..Len(e) : i \in 1..Len(g)
       /\ \A i \in 1..Len(f) : Len(e) + i \in 1..Len(g)
  BY <1>1
<1> HIDE DEF g
<1>2. ASSUME NEW k \in lo..hi
      PROVE  \E i, j \in 1..Len(g) : g[i].gb >= data[k].gb /\ g[j].gb <= data[k].gb
  <2>1. CASE k \in lo..mid
    <3>1. PICK i \in 1..Len(e), j \in 1..Len(e) : e[i].gb >= data[k].gb /\ e[j].gb <= data[k].gb
      BY <2>1 DEF Spans
    <3> QED BY <3>1, <1>1, <1>1a
  <2>2. CASE k \in (mid + 1)..hi
    <3>1. PICK i \in 1..Len(f), j \in 1..Len(f) : f[i].gb >= data[k].gb /\ f[j].gb <= data[k].gb
      BY <2>2 DEF Spans
    <3> DEFINE a == Len(e) + i
               b == Len(e) + j
    <3>2. a \in 1..Len(g) /\ b \in 1..Len(g) /\ g[a] = f[i] /\ g[b] = f[j]
      BY <1>1, <1>1a
    <3> HIDE DEF a, b
    <3> QED BY <3>1, <3>2
  <2> QED BY <2>1, <2>2
<1> QED BY <1>2 DEF Spans, g


\* The extremes of a group exist, and there are one or two.
LEMMA ExtremesOfGroup ==
    ASSUME NEW data, Line(data), NEW lo \in Nat \ {0}, NEW hi \in Nat, lo <= hi, hi <= Len(data)
    PROVE  LET e == Extremes(data, lo, hi)
           IN PickedFrom(e, data, lo, hi) /\ Spans(e, data, lo, hi) /\ Len(e) \in 1..2
<1> DEFINE Low(i) == \A j \in lo..hi :
                        data[i].gb < data[j].gb \/ (data[i].gb = data[j].gb /\ i <= j)
           High(i) == \A j \in lo..hi :
                        data[i].gb > data[j].gb \/ (data[i].gb = data[j].gb /\ i <= j)
           least == CHOOSE i \in lo..hi : Low(i)
           most == CHOOSE i \in lo..hi : High(i)
           V == {data[j].gb : j \in lo..hi}
<1>1. \A j \in lo..hi : j \in 1..Len(data) /\ data[j] \in Dot
  BY DEF Line
<1>2. \A j \in lo..hi : data[j].gb \in Volume /\ data[j].gb \in Nat
  BY <1>1, Constants DEF Dot, Volume
<1>3. V # {} /\ V \in SUBSET Nat /\ V \in SUBSET (0..Most)
  BY <1>2 DEF Volume
<1>4. \E i \in lo..hi : Low(i)
  <2>1. PICK v \in V : \A w \in V : v <= w
    <3> HIDE DEF V
    <3> QED BY <1>3, LeastNumber
  <2> DEFINE I == {j \in lo..hi : data[j].gb = v}
  <2>2. I # {} /\ I \in SUBSET Nat
    OBVIOUS
  <2>3. PICK i \in I : \A j \in I : i <= j
    <3> HIDE DEF I
    <3> QED BY <2>2, LeastNumber
  <2>4. Low(i)
    <3> SUFFICES ASSUME NEW j \in lo..hi
                 PROVE  data[i].gb < data[j].gb \/ (data[i].gb = data[j].gb /\ i <= j)
      OBVIOUS
    <3>1. data[j].gb \in Nat /\ v <= data[j].gb /\ i \in lo..hi /\ data[i].gb = v
      BY <1>2, <2>1
    <3>2. data[j].gb = v => i <= j
      BY <2>3
    <3> HIDE DEF V, I, least, most
    <3> QED BY <3>1, <3>2, <1>2
  <2> QED BY <2>4
<1>5. \E i \in lo..hi : High(i)
  <2>1. PICK v \in V : \A w \in V : w <= v
    <3> HIDE DEF V
    <3> QED BY <1>3, LargestNumber, Constants
  <2> DEFINE I == {j \in lo..hi : data[j].gb = v}
  <2>2. I # {} /\ I \in SUBSET Nat
    OBVIOUS
  <2>3. PICK i \in I : \A j \in I : i <= j
    <3> HIDE DEF I
    <3> QED BY <2>2, LeastNumber
  <2>4. High(i)
    <3> SUFFICES ASSUME NEW j \in lo..hi
                 PROVE  data[i].gb > data[j].gb \/ (data[i].gb = data[j].gb /\ i <= j)
      OBVIOUS
    <3>1. data[j].gb \in Nat /\ data[j].gb <= v /\ i \in lo..hi /\ data[i].gb = v
      BY <1>2, <2>1
    <3>2. data[j].gb = v => i <= j
      BY <2>3
    <3> HIDE DEF V, I, least, most
    <3> QED BY <3>1, <3>2, <1>2
  <2> QED BY <2>4
<1>6. least \in lo..hi /\ Low(least)
  BY <1>4
<1>7. most \in lo..hi /\ High(most)
  BY <1>5
<1> DEFINE e == Extremes(data, lo, hi)
<1>8. e = IF least = most THEN <<data[least]>>
          ELSE <<data[Smaller(least, most)], data[Larger(least, most)]>>
  BY DEF Extremes
<1> HIDE DEF least, most, e
<1>9. \A k \in lo..hi : data[least].gb <= data[k].gb /\ data[most].gb >= data[k].gb
  BY <1>2, <1>6, <1>7
<1>10. CASE least = most
  <2>1. e = <<data[least]>> /\ data[least] \in Dot
    BY <1>1, <1>6, <1>8, <1>10
  <2>2. e \in Seq(Dot) /\ Len(e) = 1 /\ e[1] = data[least]
    BY <2>1
  <2>3. PickedFrom(e, data, lo, hi)
    BY <1>6, <2>2 DEF PickedFrom, Line, Rising
  <2>4. Spans(e, data, lo, hi)
    BY <1>9, <1>10, <2>2 DEF Spans
  <2> QED BY <2>2, <2>3, <2>4 DEF e
<1>11. CASE least # most
  <2> DEFINE a == Smaller(least, most)
             b == Larger(least, most)
  <2>1. /\ a \in lo..hi /\ b \in lo..hi /\ a < b
        /\ ((a = least /\ b = most) \/ (a = most /\ b = least))
    BY <1>6, <1>7, <1>11 DEF Smaller, Larger
  <2>2. e = <<data[a], data[b]>>
    BY <1>8, <1>11
  <2> HIDE DEF a, b
  <2>3. e \in Seq(Dot) /\ Len(e) = 2 /\ e[1] = data[a] /\ e[2] = data[b]
    BY <1>1, <2>1, <2>2
  <2>4. data[a].ts < data[b].ts
    BY <1>1, <2>1 DEF Line, Rising
  <2>5. PickedFrom(e, data, lo, hi)
    BY <2>1, <2>3, <2>4 DEF PickedFrom, Line, Rising
  <2>6. Spans(e, data, lo, hi)
    BY <1>9, <2>1, <2>3 DEF Spans
  <2> QED BY <2>3, <2>5, <2>6 DEF e
<1> QED BY <1>10, <1>11

\* The recursion of FlattenSeq has a solution.
LEMMA FlattenExists ==
    ASSUME NEW s, NEW n \in Nat
    PROVE  \E F : F = [i \in 1..n |-> IF i = 1 THEN s[i] ELSE F[i - 1] \o s[i]]
<1> DEFINE Solves(F, k) == F = [i \in 1..k |-> IF i = 1 THEN s[i] ELSE F[i - 1] \o s[i]]
           P == {k \in Nat : \E F : Solves(F, k)}
<1>1. P \in SUBSET Nat /\ 0 \in P
  <2>1. Solves([i \in 1..0 |-> s[i]], 0)
    OBVIOUS
  <2> QED BY <2>1
<1>2. ASSUME NEW k \in P PROVE k + 1 \in P
  <2>1. PICK F : Solves(F, k)
    OBVIOUS
  <2> DEFINE G == [i \in 1..(k + 1) |->
                     IF i = 1 THEN s[i] ELSE IF i <= k THEN F[i] ELSE F[i - 1] \o s[i]]
  <2>2. k \in Nat
    OBVIOUS
  <2>3. \A i \in 1..k : F[i] = IF i = 1 THEN s[i] ELSE F[i - 1] \o s[i]
    BY <2>1
  <2>4. \A i \in 1..k : G[i] = F[i]
    BY <2>2, <2>3
  <2>5. ASSUME NEW i \in 1..(k + 1)
        PROVE  G[i] = IF i = 1 THEN s[i] ELSE G[i - 1] \o s[i]
    <3>1. CASE i = 1
      BY <3>1
    <3>2. CASE i # 1
      <4>1. i - 1 \in 1..k
        BY <2>2, <3>2
      <4>2. G[i - 1] = F[i - 1]
        BY <2>4, <4>1
      <4>3. G[i] = F[i - 1] \o s[i]
        <5>1. CASE i <= k
          <6>1. i \in 1..k
            BY <2>2, <5>1
          <6>2. F[i] = F[i - 1] \o s[i] /\ G[i] = F[i]
            BY <6>1, <3>2, <2>3, <2>4
          <6> QED BY <6>2
        <5>2. CASE ~(i <= k)
          BY <3>2, <5>2
        <5> QED BY <5>1, <5>2
      <4> QED BY <3>2, <4>2, <4>3
    <3> QED BY <3>1, <3>2
  <2>6. Solves(G, k + 1)
    BY <2>5
  <2> HIDE DEF Solves, G
  <2>7. k + 1 \in Nat /\ \E H : Solves(H, k + 1)
    BY <2>2, <2>6
  <2> QED BY <2>7
<1>3. n \in P
  <2> HIDE DEF P
  <2> QED BY <1>1, <1>2, NumberInduction
<1> QED BY <1>3

LEMMA Flattened ==
    ASSUME NEW s, NEW n \in Nat \ {0}, Len(s) = n
    PROVE  \E F : /\ FlattenSeq(s) = F[n]
                  /\ \A i \in 1..n : F[i] = IF i = 1 THEN s[i] ELSE F[i - 1] \o s[i]
<1> DEFINE Solves(F) == F = [i \in 1..n |-> IF i = 1 THEN s[i] ELSE F[i - 1] \o s[i]]
           G == CHOOSE F : Solves(F)
<1>1. FlattenSeq(s) = G[n]
  BY DEF FlattenSeq
<1>2. \E F : Solves(F)
  BY FlattenExists
<1>3. Solves(G)
  <2> HIDE DEF Solves
  <2> QED BY <1>2
<1>4. \A i \in 1..n : G[i] = IF i = 1 THEN s[i] ELSE G[i - 1] \o s[i]
  BY <1>3
<1> QED BY <1>1, <1>4


LEMMA GroupBounds ==
    ASSUME NEW size \in Nat \ {0}, NEW K \in Nat \ {0}, NEW I \in Nat,
           (K - 1) * size < I, I <= K * size
    PROVE  /\ \A g \in 1..K : /\ (g - 1) * size \in Nat /\ Smaller(g * size, I) \in Nat
                              /\ (g - 1) * size + 1 <= Smaller(g * size, I)
                              /\ Smaller(g * size, I) <= I
           /\ \A g \in 1..K : g # K => Smaller(g * size, I) = g * size
           /\ Smaller(K * size, I) = I
<1>1. \A a, b \in Nat : a <= b => a * size <= b * size
  OBVIOUS
<1>2. \A a \in Nat : a * size \in Nat
  OBVIOUS
<1>3. K - 1 \in Nat
  OBVIOUS
<1>4. ASSUME NEW g \in 1..K
      PROVE  /\ (g - 1) * size \in Nat /\ Smaller(g * size, I) \in Nat
             /\ (g - 1) * size + 1 <= Smaller(g * size, I)
             /\ Smaller(g * size, I) <= I
  <2>1. g \in Nat /\ g - 1 \in Nat /\ g - 1 <= K - 1
    OBVIOUS
  <2>2. (g - 1) * size <= (K - 1) * size
    BY <1>1, <1>3, <2>1
  <2>3. (g - 1) * size + size = g * size
    BY <2>1
  <2>4. (g - 1) * size \in Nat /\ g * size \in Nat /\ (K - 1) * size \in Nat
    BY <1>2, <1>3, <2>1
  <2>5. (g - 1) * size + 1 <= g * size /\ (g - 1) * size + 1 <= I
    BY <2>2, <2>3, <2>4
  <2> QED BY <2>4, <2>5 DEF Smaller
<1>5. ASSUME NEW g \in 1..K, g # K PROVE Smaller(g * size, I) = g * size
  <2>1. g \in Nat /\ g <= K - 1
    BY <1>5
  <2>2. g * size <= (K - 1) * size
    BY <1>1, <1>3, <2>1
  <2>3. g * size \in Nat /\ (K - 1) * size \in Nat
    BY <1>2, <1>3, <2>1
  <2> QED BY <2>2, <2>3 DEF Smaller
<1>6. Smaller(K * size, I) = I
  BY <1>2 DEF Smaller
<1> QED BY <1>4, <1>5, <1>6

\* All groups together: the extremes of a line that is cut into K groups.
LEMMA GroupsPicked ==
    ASSUME NEW data, Line(data), NEW size \in Nat \ {0}, NEW K \in Nat \ {0},
           (K - 1) * size < Len(data), Len(data) <= K * size
    PROVE  LET p == FlattenSeq([g \in 1..K |-> Extremes(data, (g - 1) * size + 1,
                                                        Smaller(g * size, Len(data)))])
           IN PickedFrom(p, data, 1, Len(data)) /\ Spans(p, data, 1, Len(data)) /\ Len(p) \in 1..(2 * K)
<1> DEFINE I == Len(data)
           start(g) == (g - 1) * size
           end(g) == Smaller(g * size, I)
           s == [g \in 1..K |-> Extremes(data, start(g) + 1, end(g))]
<1>0. I \in Nat
  BY DEF Line
<1>1. /\ \A g \in 1..K : start(g) \in Nat /\ end(g) \in Nat /\ start(g) + 1 <= end(g) /\ end(g) <= I
      /\ \A g \in 1..K : g # K => end(g) = start(g + 1)
      /\ end(K) = I /\ start(1) = 0
  <2>1. \A g \in 1..K : (g + 1) - 1 = g
    OBVIOUS
  <2>2. start(1) = 0
    OBVIOUS
  <2>3. I <= K * size /\ (K - 1) * size < I
    OBVIOUS
  <2>4. /\ \A g \in 1..K : /\ (g - 1) * size \in Nat /\ Smaller(g * size, I) \in Nat
                            /\ (g - 1) * size + 1 <= Smaller(g * size, I)
                            /\ Smaller(g * size, I) <= I
        /\ \A g \in 1..K : g # K => Smaller(g * size, I) = g * size
        /\ Smaller(K * size, I) = I
    <3> HIDE DEF I, s
    <3> QED BY <1>0, <2>3, GroupBounds
  <2>5. \A g \in 1..K : g # K => end(g) = start(g + 1)
    BY <2>1, <2>4
  <2> QED BY <2>2, <2>4, <2>5
<1>2. Len(s) = K
  OBVIOUS
<1>3. PICK F : /\ FlattenSeq(s) = F[K]
               /\ \A i \in 1..K : F[i] = IF i = 1 THEN s[i] ELSE F[i - 1] \o s[i]
  <2> HIDE DEF s
  <2> QED BY <1>2, Flattened
<1> HIDE DEF start, end, I
<1>4. \A g \in 1..K : /\ PickedFrom(s[g], data, start(g) + 1, end(g))
                      /\ Spans(s[g], data, start(g) + 1, end(g)) /\ Len(s[g]) \in 1..2
  <2> SUFFICES ASSUME NEW g \in 1..K
               PROVE  /\ PickedFrom(s[g], data, start(g) + 1, end(g))
                      /\ Spans(s[g], data, start(g) + 1, end(g)) /\ Len(s[g]) \in 1..2
    OBVIOUS
  <2> DEFINE lo == start(g) + 1
             hi == end(g)
  <2>1. lo \in Nat \ {0} /\ hi \in Nat /\ lo <= hi /\ hi <= Len(data)
    BY <1>1 DEF I
  <2>2. s[g] = Extremes(data, lo, hi)
    OBVIOUS
  <2> HIDE DEF lo, hi, s
  <2>3. PickedFrom(s[g], data, lo, hi) /\ Spans(s[g], data, lo, hi) /\ Len(s[g]) \in 1..2
    BY <2>1, <2>2, ExtremesOfGroup
  <2> QED BY <2>3 DEF lo, hi
<1> HIDE DEF s
<1> DEFINE Good(k) == /\ PickedFrom(F[k], data, 1, end(k))
                      /\ Spans(F[k], data, 1, end(k)) /\ Len(F[k]) \in 1..(2 * k)
           P == {k \in Nat : k \in 1..K => Good(k)}
<1>5. Good(1)
  <2>1. 1 \in 1..K /\ F[1] = s[1]
    BY <1>3
  <2>2. start(1) + 1 = 1
    BY <1>1
  <2> QED BY <1>4, <2>1, <2>2
<1>6. ASSUME NEW k \in Nat, k \in 1..K, k + 1 \in 1..K, Good(k) PROVE Good(k + 1)
  <2> DEFINE f == s[k + 1]
             mid == end(k)
             hi == end(k + 1)
  <2>1. F[k + 1] = F[k] \o f
    <3>1. k + 1 # 1 /\ (k + 1) - 1 = k
      BY <1>6
    <3> QED BY <1>3, <1>6, <3>1
  <2>2. mid = start(k + 1) /\ mid \in Nat /\ hi \in Nat /\ mid <= hi /\ hi <= Len(data)
    <3>1. k # K
      BY <1>6
    <3>2. end(k) = start(k + 1) /\ start(k + 1) + 1 <= end(k + 1)
      BY <1>1, <1>6, <3>1
    <3>3. end(k) \in Nat /\ end(k + 1) \in Nat /\ end(k + 1) <= I
      BY <1>1, <1>6
    <3> QED BY <3>2, <3>3 DEF I
  <2>3. PickedFrom(f, data, mid + 1, hi) /\ Spans(f, data, mid + 1, hi) /\ Len(f) \in 1..2
    BY <1>4, <1>6, <2>2
  <2>4. PickedFrom(F[k], data, 1, mid) /\ Spans(F[k], data, 1, mid) /\ Len(F[k]) \in 1..(2 * k)
    BY <1>6
  <2> HIDE DEF f, mid, hi
  <2>5. PickedFrom(F[k] \o f, data, 1, hi)
    BY <2>2, <2>3, <2>4, PickedJoined
  <2>6. F[k] \in Seq(Dot) /\ f \in Seq(Dot)
    BY <2>3, <2>4 DEF PickedFrom, Line
  <2>7. Spans(F[k] \o f, data, 1, hi)
    BY <2>2, <2>3, <2>4, <2>6, SpansJoined
  <2>8. Len(F[k] \o f) \in 1..(2 * (k + 1))
    <3>1. Len(F[k] \o f) = Len(F[k]) + Len(f)
      BY <2>6
    <3>2. \A a \in 1..(2 * k), b \in 1..2 : a + b \in 1..(2 * (k + 1))
      OBVIOUS
    <3> QED BY <2>3, <2>4, <3>1, <3>2, Zenon
  <2> QED BY <2>1, <2>5, <2>7, <2>8 DEF hi
<1> HIDE DEF Good
<1>7. P \in SUBSET Nat /\ 0 \in P
  OBVIOUS
<1>8. ASSUME NEW k \in P PROVE k + 1 \in P
  <2>1. k \in Nat /\ (k \in 1..K => Good(k))
    OBVIOUS
  <2>2. ASSUME k + 1 \in 1..K PROVE Good(k + 1)
    <3>1. CASE k = 0
      BY <3>1, <1>5
    <3>2. CASE k # 0
      <4>1. k \in 1..K
        BY <2>1, <2>2, <3>2
      <4> QED BY <1>6, <2>1, <2>2, <4>1
    <3> QED BY <3>1, <3>2
  <2> QED BY <2>1, <2>2
<1>9. \A k \in Nat : k \in P
  <2> HIDE DEF P
  <2> QED BY <1>7, <1>8, NumberInduction
<1>10. Good(K)
  BY <1>9
<1> QED BY <1>1, <1>3, <1>10 DEF Good, I, s, start, end


LEMMA BudgetOfWidth ==
    ASSUME NEW w \in Nat
    PROVE  PointBudget(w) \in Nat /\ PointBudget(w) >= 3
<1>1. w * PixelRatio \in Int
  BY ModelAssumption
<1>2. \A v \in Int : Clamp(v, MinBudget, MaxBudget) \in MinBudget..MaxBudget
  BY ModelAssumption DEF Clamp, Larger, Smaller
<1>3. PointBudget(w) \in MinBudget..MaxBudget
  BY <1>1, <1>2 DEF PointBudget
<1> QED BY <1>3, ModelAssumption

\* Thinning out picks points in order, the first among them; with an even budget it
\* keeps to it, and it keeps the extremes.
LEMMA Downsampled ==
    ASSUME NEW data, Line(data), data # <<>>, NEW budget \in Nat, budget >= 3
    PROVE  LET e == Downsample(data, budget)
           IN /\ PickedFrom(e, data, 1, Len(data)) /\ Len(e) >= 1 /\ e[1] = data[1]
              /\ budget % 2 = 0 => Spans(e, data, 1, Len(data)) /\ Len(e) <= budget
<1> DEFINE L == Len(data)
           e == Downsample(data, budget)
<1>0. data \in Seq(Dot) /\ L \in Nat \ {0} /\ \A i \in 1..L : data[i] \in Dot
  BY DEF Line
<1>1. CASE L <= budget
  <2>1. e = data
    BY <1>1 DEF Downsample
  <2>2. PickedFrom(data, data, 1, L)
    BY DEF PickedFrom
  <2>3. Spans(data, data, 1, L)
    <3>1. \A k \in 1..L : data[k].gb \in Nat
      BY <1>0, Constants DEF Dot, Volume
    <3>2. \A k \in 1..L : data[k].gb >= data[k].gb /\ data[k].gb <= data[k].gb
      BY <3>1
    <3> QED BY <3>2 DEF Spans
  <2> QED BY <1>0, <1>1, <2>1, <2>2, <2>3
<1>2. CASE L > budget
  <2> DEFINE inner == SubSeq(data, 2, L - 1)
             I == Len(inner)
             room == budget - 2
             groups == Larger(1, CeilDiv(room, 2))
             size == GroupSize(I, groups)
             K == Smaller(groups, CeilDiv(I, size))
             group(g) == Extremes(inner, (g - 1) * size + 1, Smaller(g * size, I))
             picks == FlattenSeq([g \in 1..K |-> group(g)])
             r == Smaller(room, Len(picks))
             q == SubSeq(picks, 1, r)
  <2>1. e = <<Head(data)>> \o q \o <<Last(data)>>
    <3>1. ~(L <= budget \/ budget < 3)
      BY <1>0, <1>2
    <3> QED BY <3>1, Zenon DEF Downsample
  <2>2. /\ inner \in Seq(Dot) /\ I = L - 2 /\ I \in Nat \ {0}
        /\ \A j \in 1..I : inner[j] = data[j + 1] /\ j + 1 \in 2..(L - 1)
    BY <1>0, <1>2
  <2>3. Line(inner)
    <3>1. \A i, j \in 1..I : i < j => i + 1 \in 1..L /\ j + 1 \in 1..L /\ i + 1 < j + 1
      BY <1>0, <2>2
    <3> HIDE DEF inner, I
    <3> QED BY <2>2, <3>1 DEF Line, Rising, I
  <2>4. room \in Nat \ {0} /\ groups \in Nat \ {0} /\ (budget % 2 = 0 => 2 * groups = room)
    <3>1. /\ CeilDiv(room, 2) \in Int /\ room <= 2 * CeilDiv(room, 2)
          /\ 2 * CeilDiv(room, 2) < room + 2
      BY CeilDivFacts
    <3> QED BY <3>1 DEF Larger
  <2> HIDE DEF inner, I, room, groups
  <2>5. size \in Nat \ {0} /\ I <= size * groups
    <3>1. size \in Int /\ I <= groups * size
      <4>1. size = CeilDiv(I, groups)
        BY DEF GroupSize
      <4> HIDE DEF size
      <4> QED BY <4>1, <2>2, <2>4, CeilDivFacts
    <3> HIDE DEF size
    <3>2. size > 0
      BY <2>2, <2>4, <3>1
    <3> QED BY <2>4, <3>1, <3>2
  <2> HIDE DEF size
  <2>6. K \in Nat \ {0} /\ (K - 1) * size < I /\ I <= K * size /\ K <= groups
    <3> DEFINE c == CeilDiv(I, size)
    <3>1. c \in Int /\ I <= size * c /\ size * c < I + size
      BY <2>2, <2>5, CeilDivFacts
    <3> HIDE DEF c
    <3>2. c >= 1
      <4>1. \A k \in Nat, b \in Int : b <= 0 => k * b <= 0
        OBVIOUS
      <4>2. size \in Nat /\ ~(size * c <= 0)
        <5>1. size * c \in Int /\ I <= size * c
          BY <2>5, <3>1
        <5>2. I >= 1
          BY <2>2
        <5> QED BY <2>2, <2>5, <5>1, <5>2
      <4> QED BY <3>1, <4>1, <4>2
    <3>3. size * (c - 1) = size * c - size /\ size * c \in Int
      BY <2>5, <3>1
    <3>4. size * (c - 1) < size * groups
      <4>1. size * groups \in Int /\ size * c \in Int
        BY <2>4, <2>5, <3>1
      <4>2. size * c - size < I
        BY <4>1, <2>2, <2>5, <3>1
      <4> QED BY <4>1, <4>2, <2>2, <2>5, <3>1, <3>3
    <3>5. \A a, b \in Int, k \in Nat \ {0} : k * a < k * b => a < b
      OBVIOUS
    <3>6. c - 1 < groups
      BY <2>4, <2>5, <3>1, <3>4, <3>5
    <3>7. K = c
      BY <2>4, <3>1, <3>6 DEF Smaller, c
    <3>8. (c - 1) * size = size * (c - 1) /\ c * size = size * c
      BY <2>5, <3>1
    <3> HIDE DEF K
    <3> QED BY <2>2, <2>4, <2>5, <3>1, <3>2, <3>3, <3>6, <3>7, <3>8
  <2> HIDE DEF K
  <2>7. PickedFrom(picks, inner, 1, I) /\ Spans(picks, inner, 1, I) /\ Len(picks) \in 1..(2 * K)
    BY <2>3, <2>5, <2>6, GroupsPicked DEF I
  <2> HIDE DEF picks
  <2>8. r \in Nat \ {0} /\ r <= room /\ r <= Len(picks) /\ (budget % 2 = 0 => r = Len(picks))
    <3>1. Len(picks) \in Nat \ {0} /\ Len(picks) <= 2 * K
      BY <2>6, <2>7
    <3>2. 2 * K <= 2 * groups
      BY <2>4, <2>6
    <3> QED BY <2>4, <2>6, <3>1, <3>2 DEF Smaller
  <2> HIDE DEF r
  <2>9. /\ q \in Seq(Dot) /\ Len(q) = r /\ \A i \in 1..r : q[i] = picks[i]
        /\ budget % 2 = 0 => q = picks
    <3>1. picks \in Seq(Dot)
      BY <2>7 DEF PickedFrom, Line
    <3> QED BY <2>8, <3>1
  <2> HIDE DEF q
  <2>10. PickedFrom(q, data, 2, L - 1)
    <3>1. ASSUME NEW i \in 1..r PROVE \E j \in 2..(L - 1) : q[i] = data[j]
      <4>1. i \in 1..Len(picks)
        BY <2>8, <2>7
      <4>2. PICK j \in 1..I : picks[i] = inner[j]
        BY <2>7, <4>1 DEF PickedFrom
      <4>3. inner[j] = data[j + 1] /\ j + 1 \in 2..(L - 1)
        BY <2>2
      <4> QED BY <2>9, <4>2, <4>3
    <3>2. Rising(q)
      <4>1. \A i \in 1..r : i \in 1..Len(picks)
        BY <2>7, <2>8
      <4> QED BY <2>7, <2>9, <4>1 DEF PickedFrom, Line, Rising
    <3> QED BY <2>9, <3>1, <3>2 DEF PickedFrom, Line
  <2>11. budget % 2 = 0 => Spans(q, data, 2, L - 1)
    <3> SUFFICES ASSUME budget % 2 = 0, NEW k \in 2..(L - 1)
                 PROVE  \E i, j \in 1..Len(q) : q[i].gb >= data[k].gb /\ q[j].gb <= data[k].gb
      BY DEF Spans
    <3> DEFINE m == k - 1
    <3>1. m \in 1..I /\ m + 1 = k
      BY <1>0, <2>2
    <3>2. inner[m] = data[k]
      BY <2>2, <3>1
    <3> HIDE DEF m
    <3>3. PICK i \in 1..Len(picks), j \in 1..Len(picks) :
              picks[i].gb >= inner[m].gb /\ picks[j].gb <= inner[m].gb
      BY <2>7, <3>1 DEF Spans
    <3> QED BY <2>9, <3>2, <3>3
  <2> DEFINE a == <<Head(data)>>
             z == <<Last(data)>>
  <2>12. /\ a \in Seq(Dot) /\ Len(a) = 1 /\ a[1] = data[1]
         /\ z \in Seq(Dot) /\ Len(z) = 1 /\ z[1] = data[L]
    BY <1>0 DEF Last
  <2> HIDE DEF a, z
  <2>13. PickedFrom(a, data, 1, 1) /\ PickedFrom(z, data, L, L)
    BY <2>12, <1>0 DEF PickedFrom, Line, Rising
  <2>14. Spans(a, data, 1, 1) /\ Spans(z, data, L, L)
    <3>1. data[1].gb \in Nat /\ data[L].gb \in Nat
      BY <1>0, Constants DEF Dot, Volume
    <3> QED BY <2>12, <1>0, <3>1 DEF Spans
  <2>15. L - 1 \in Nat /\ 1 <= L - 1 /\ L - 1 <= L /\ (L - 1) + 1 = L /\ 1 + 1 = 2
    BY <1>0, <1>2
  <2>16. PickedFrom(a \o q, data, 1, L - 1)
    <3>1. PickedFrom(q, data, 1 + 1, L - 1)
      BY <2>10, <2>15
    <3> QED BY <2>13, <2>15, <3>1, PickedJoined
  <2>17. PickedFrom((a \o q) \o z, data, 1, L)
    <3>1. PickedFrom(z, data, (L - 1) + 1, L)
      BY <2>13, <2>15
    <3> QED BY <2>15, <2>16, <3>1, PickedJoined
  <2>18. a \o q \in Seq(Dot) /\ Len(a \o q) = 1 + r /\ (a \o q)[1] = data[1]
    <3>1. a \o q \in Seq(Dot) /\ Len(a \o q) = Len(a) + Len(q) /\ (a \o q)[1] = a[1]
      <4>1. q \in Seq(Dot) /\ a \in Seq(Dot) /\ 1 \in 1..Len(a)
        BY <2>9, <2>12
      <4> QED BY <4>1, JoinedSequence
    <3> QED BY <2>9, <2>12, <3>1
  <2>19. e = (a \o q) \o z
    BY <2>1 DEF a, z
  <2>20. Len(e) = r + 2 /\ e[1] = data[1]
    <3> DEFINE b == a \o q
    <3>1. b \in Seq(Dot) /\ Len(b) = 1 + r /\ b[1] = data[1]
      BY <2>18
    <3> HIDE DEF b
    <3>2. Len(b \o z) = Len(b) + Len(z) /\ (b \o z)[1] = b[1]
      <4>1. 1 \in 1..Len(b)
        BY <2>8, <3>1
      <4> QED BY <2>12, <3>1, <4>1, JoinedSequence
    <3>3. e = b \o z
      BY <2>19 DEF b
    <3> HIDE DEF e
    <3> QED BY <2>8, <2>12, <3>1, <3>2, <3>3
  <2>21. budget % 2 = 0 => Spans(e, data, 1, L) /\ Len(e) <= budget
    <3> SUFFICES ASSUME budget % 2 = 0 PROVE Spans(e, data, 1, L) /\ Len(e) <= budget
      OBVIOUS
    <3>1. Spans(q, data, 1 + 1, L - 1) /\ Spans(z, data, (L - 1) + 1, L)
      BY <2>11, <2>14, <2>15
    <3>2. Spans(a \o q, data, 1, L - 1)
      BY <2>9, <2>12, <2>14, <2>15, <3>1, SpansJoined
    <3>3. Spans((a \o q) \o z, data, 1, L)
      <4> DEFINE b == a \o q
      <4>1. b \in Seq(Dot) /\ Spans(b, data, 1, L - 1)
        BY <2>18, <3>2
      <4> HIDE DEF b, e
      <4>2. 1 \in Nat /\ L - 1 \in Nat /\ L \in Nat /\ z \in Seq(Dot)
        BY <2>12, <2>15, <1>0
      <4>3. Spans(b \o z, data, 1, L)
        BY <3>1, <4>1, <4>2, SpansJoined
      <4> QED BY <4>3 DEF b
    <3>4. Len(e) <= budget
      BY <2>8, <2>20 DEF room
    <3> QED BY <2>19, <3>3, <3>4
  <2> QED BY <2>8, <2>17, <2>19, <2>20, <2>21
<1> QED BY <1>0, <1>1, <1>2


-----------------------------------------------------------------------------
(* Smoothing                                                               *)

\* Three parts in nine at the least are a point's own.
LEMMA WeightsSum ==
    ASSUME NEW i \in Int, NEW near, near \subseteq (i - 2)..(i + 2), i \in near
    PROVE  LET weight == [j \in near |-> 3 - Distance(i, j)]
           IN /\ IsFiniteSet(near) /\ \A j \in near : weight[j] \in 1..3
              /\ weight[i] = 3 /\ SumFunctionOnSet(weight, near) \in 3..9
<1> DEFINE all == (i - 2)..(i + 2)
           w == [j \in all |-> 3 - Distance(i, j)]
           weight == [j \in near |-> 3 - Distance(i, j)]
<1>1. IsFiniteSet(all) /\ IsFiniteSet(near)
  <2>1. IsFiniteSet(all)
    BY FS_Interval
  <2>2. near \subseteq all
    OBVIOUS
  <2> HIDE DEF all
  <2> QED BY <2>1, <2>2, FS_Subset
<1>2. \A j \in all : w[j] \in 1..3 /\ w[j] \in Nat
  BY DEF Distance, Larger
<1>3. w[i - 2] = 1 /\ w[i - 1] = 2 /\ w[i] = 3 /\ w[i + 1] = 2 /\ w[i + 2] = 1
  BY DEF Distance, Larger
<1>4. \A j \in near : weight[j] = w[j]
  OBVIOUS
<1>5. all = {i - 2, i - 1, i, i + 1, i + 2}
  OBVIOUS
<1>6. \A S \in SUBSET all : \A x \in S :
          SumFunctionOnSet(w, S) = w[x] + SumFunctionOnSet(w, S \ {x})
  <2> HIDE DEF all, w
  <2>1. \A S \in SUBSET all : IsFiniteSet(S) /\ \A y \in S : w[y] \in Nat
    BY <1>1, <1>2, FS_Subset
  <2> QED BY <2>1, SumRemove
<1>7. SumFunctionOnSet(w, all) = 9
  <2> DEFINE W(S) == SumFunctionOnSet(w, S)
  <2>1. {i - 2} \in SUBSET all /\ i - 2 \in {i - 2} /\ {i - 2} \ {i - 2} = {}
    BY <1>5
  <2>2. {i - 2, i - 1} \in SUBSET all /\ i - 1 \in {i - 2, i - 1}
        /\ {i - 2, i - 1} \ {i - 1} = {i - 2}
    BY <1>5
  <2>3. {i - 2, i - 1, i} \in SUBSET all /\ {i - 2, i - 1, i} \ {i} = {i - 2, i - 1}
    BY <1>5
  <2>4. {i - 2, i - 1, i, i + 1} \in SUBSET all
        /\ {i - 2, i - 1, i, i + 1} \ {i + 1} = {i - 2, i - 1, i}
    BY <1>5
  <2>5. all \ {i + 2} = {i - 2, i - 1, i, i + 1} /\ i + 2 \in all
    BY <1>5
  <2>6. W({}) = 0
    BY SumEmpty
  <2> HIDE DEF all, w
  <2>7. W({i - 2}) = w[i - 2] + W({})
    BY <1>6, <2>1
  <2>8. W({i - 2, i - 1}) = w[i - 1] + W({i - 2})
    BY <1>6, <2>2
  <2>9. W({i - 2, i - 1, i}) = w[i] + W({i - 2, i - 1})
    BY <1>6, <2>3
  <2>10. W({i - 2, i - 1, i, i + 1}) = w[i + 1] + W({i - 2, i - 1, i})
    BY <1>6, <2>4
  <2>11. W(all) = w[i + 2] + W({i - 2, i - 1, i, i + 1})
    BY <1>6, <2>5
  <2> HIDE DEF W
  <2>12. W({i - 2}) = 1
    BY <1>3, <2>6, <2>7
  <2>13. W({i - 2, i - 1}) = 3
    BY <1>3, <2>8, <2>12
  <2>14. W({i - 2, i - 1, i}) = 6
    BY <1>3, <2>9, <2>13
  <2>15. W({i - 2, i - 1, i, i + 1}) = 8
    BY <1>3, <2>10, <2>14
  <2>16. W(all) = 9
    BY <1>3, <2>11, <2>15
  <2> QED BY <2>16 DEF W
<1>8. SumFunctionOnSet(w, near) <= 9 /\ SumFunctionOnSet(w, near) \in Nat
      /\ 3 <= SumFunctionOnSet(w, near)
  <2> DEFINE W == SumFunctionOnSet(w, near)
  <2>1. near \in SUBSET all /\ \A j \in near : w[j] \in Nat
    BY <1>2
  <2> HIDE DEF all, w
  <2>2. W <= SumFunctionOnSet(w, all)
    BY <1>1, <1>2, <2>1, SumPart
  <2>3. W \in Nat
    BY <1>1, <2>1, SumType
  <2>4. w[i] <= W
    BY <1>1, <2>1, SumAtLeast
  <2> QED BY <1>3, <1>7, <2>2, <2>3, <2>4
<1>9. SumFunctionOnSet(weight, near) = SumFunctionOnSet(w, near)
  <2>1. \A j \in near : weight[j] = w[j] /\ weight[j] \in Nat
    BY <1>2, <1>4
  <2> HIDE DEF weight, w
  <2> QED BY <1>1, <2>1, SumEqual
<1>10. \A j \in near : weight[j] \in 1..3
  BY <1>2, <1>4
<1>11. weight[i] = 3
  BY <1>3, <1>4
<1> QED BY <1>1, <1>8, <1>9, <1>10, <1>11

\* A mean is no more than the largest, and a ninth of three times the point at the least.
LEMMA MeanBounds ==
    ASSUME NEW a \in Nat, NEW b \in 3..9, NEW m \in Nat, a <= m * b,
           NEW c \in Nat, 3 * c <= a, NEW l \in Nat, c >= l
    PROVE  a \div b \in 0..m /\ a \div b >= l \div 3
<1> DEFINE q == a \div b
           k == l \div 3
<1>1. q \in Int /\ b * q <= a /\ a < b * q + b
  BY Quotient
<1>2. k \in Int /\ 3 * k <= l /\ l < 3 * k + 3
  BY Quotient
<1> HIDE DEF q, k
<1>3. \A x, y \in Int, z \in Nat \ {0} : z * x < z * y => x < y
  OBVIOUS
<1>4. \A x \in Int, z \in Nat \ {0} : z * (x + 1) = z * x + z
  OBVIOUS
<1>5. b \in Nat \ {0} /\ b * q \in Int /\ b * k \in Int /\ b * m \in Int /\ b * m = m * b
  BY <1>1, <1>2
<1>6. q > -1
  <2>1. b * (-1) < b * q
    BY <1>1, <1>5
  <2> QED BY <1>1, <1>3, <1>5, <2>1
<1>7. q < m + 1
  <2>1. b * (m + 1) = b * m + b
    BY <1>4, <1>5
  <2>2. b * q < b * (m + 1)
    BY <1>1, <1>5, <2>1
  <2> QED BY <1>1, <1>3, <1>5, <2>2
<1>8. k < q + 1
  <2>1. k >= 0
    BY <1>2
  <2>2. b * k <= 9 * k
    BY <2>1, <1>2
  <2>3. 9 * k <= a
    BY <1>2
  <2>4. b * (q + 1) = b * q + b
    BY <1>1, <1>4, <1>5
  <2>5. b * k < b * (q + 1)
    BY <1>1, <1>2, <1>5, <2>2, <2>3, <2>4
  <2> QED BY <1>1, <1>2, <1>3, <1>5, <2>5
<1> QED BY <1>1, <1>2, <1>6, <1>7, <1>8 DEF q, k


LEMMA SmoothedLine ==
    ASSUME NEW data, Line(data)
    PROVE  LET e == Smooth(data)
           IN /\ Line(e) /\ Len(e) = Len(data)
              /\ \A i \in 1..Len(data) : e[i].ts = data[i].ts
              /\ \A i \in 1..Len(data) : data[i].gb >= Least => e[i].gb >= Least \div 3
              /\ (\A i \in 1..Len(data) : data[i].gb = 0) => \A i \in 1..Len(data) : e[i].gb = 0
<1> DEFINE n == Len(data)
           e == Smooth(data)
           near(i) == Larger(1, i - 2)..Smaller(n, i + 2)
           weight(i) == [j \in near(i) |-> 3 - Distance(i, j)]
           share(i) == [j \in near(i) |-> weight(i)[j] * data[j].gb]
           mean(i) == SumFunction(share(i)) \div SumFunction(weight(i))
<1>0. data \in Seq(Dot) /\ n \in Nat /\ DOMAIN data = 1..n /\ \A i \in 1..n : data[i] \in Dot
  BY DEF Line
<1>0a. \A i \in 1..n : data[i].gb \in Nat /\ data[i].gb <= Most /\ data[i].ts \in Int
  BY <1>0, Constants DEF Dot, Volume
<1>1. CASE n < 3
  <2>1. e = data
    BY <1>1 DEF Smooth
  <2>2. \A i \in 1..n : data[i].gb >= Least => data[i].gb >= Least \div 3
    BY <1>0a, Constants
  <2> HIDE DEF e
  <2> QED BY <2>1, <2>2 DEF e
<1>2. CASE ~(n < 3)
  <2>1. e = [i \in 1..n |-> [data[i] EXCEPT !.gb = mean(i)]]
    BY <1>0, <1>2 DEF Smooth
  <2>2. ASSUME NEW i \in 1..n
        PROVE  /\ mean(i) \in Volume /\ (data[i].gb >= Least => mean(i) >= Least \div 3)
               /\ (\A j \in 1..n : data[j].gb = 0) => mean(i) = 0
    <3> DEFINE N == near(i)
               w == weight(i)
               v == share(i)
               A == SumFunctionOnSet(v, N)
               B == SumFunctionOnSet(w, N)
    <3>1. N \subseteq (i - 2)..(i + 2) /\ i \in N /\ N \subseteq 1..n
      BY <1>0 DEF Larger, Smaller
    <3>2. mean(i) = A \div B
      BY DEF SumFunction
    <3>3. IsFiniteSet(N) /\ (\A j \in N : w[j] \in 1..3) /\ w[i] = 3 /\ B \in 3..9
      <4>1. i \in Int /\ w = [j \in N |-> 3 - Distance(i, j)]
        OBVIOUS
      <4> HIDE DEF N, w
      <4>2. LET u == [j \in N |-> 3 - Distance(i, j)]
            IN /\ IsFiniteSet(N) /\ \A j \in N : u[j] \in 1..3
               /\ u[i] = 3 /\ SumFunctionOnSet(u, N) \in 3..9
        BY <3>1, <4>1, WeightsSum
      <4> QED BY <4>1, <4>2
    <3>4. \A j \in N : v[j] = w[j] * data[j].gb
      OBVIOUS
    <3> HIDE DEF w, v, N
    <3>5. \A j \in N : w[j] \in Nat /\ data[j].gb \in Nat /\ data[j].gb <= Most
      BY <1>0a, <3>1, <3>3
    <3>6. \A j \in N : v[j] \in Nat /\ v[j] <= Most * w[j]
      <4>1. \A x, y, z \in Nat : y <= z => x * y \in Nat /\ x * y <= z * x
        OBVIOUS
      <4> QED BY <3>4, <3>5, <4>1, Constants
    <3>7. A \in Nat
      BY <3>3, <3>6, SumType
    <3>8. A <= Most * B
      <4>1. Most \in Nat
        BY Constants
      <4>2. \A j \in N : v[j] \in Nat
        BY <3>6
      <4>3. \A j \in N : w[j] \in Nat
        BY <3>5
      <4>4. \A j \in N : v[j] <= Most * w[j]
        BY <3>6
      <4>5. IsFiniteSet(N)
        BY <3>3
      <4> QED BY <4>1, <4>2, <4>3, <4>4, <4>5, SumBound
    <3>9. 3 * data[i].gb <= A
      <4>1. v[i] <= A
        BY <3>1, <3>3, <3>6, SumAtLeast
      <4> QED BY <3>1, <3>3, <3>4, <4>1
    <3> HIDE DEF A, B
    <3>10. data[i].gb \in Nat
      BY <1>0a
    <3>11. A \div B \in 0..Most
      <4>1. data[i].gb >= 0
        BY <3>10
      <4> QED BY <3>3, <3>7, <3>8, <3>9, <3>10, <4>1, Constants, MeanBounds
    <3>12. ASSUME data[i].gb >= Least PROVE A \div B >= Least \div 3
      BY <3>3, <3>7, <3>8, <3>9, <3>10, <3>12, Constants, MeanBounds
    <3>13. ASSUME \A j \in 1..n : data[j].gb = 0 PROVE A \div B = 0
      <4>1. \A j \in N : v[j] = 0
        <5>1. \A j \in N : data[j].gb = 0 /\ w[j] \in Int
          BY <3>1, <3>3, <3>13
        <5>2. \A x \in Int : x * 0 = 0
          OBVIOUS
        <5> QED BY <3>4, <5>1, <5>2
      <4>2. A = 0
        <5>1. \A j \in N : v[j] \in Nat /\ v[j] <= 0 * w[j]
          BY <3>5, <4>1
        <5>2. A <= 0 * B
          <6>1. \A j \in N : v[j] \in Nat
            BY <5>1
          <6>2. \A j \in N : w[j] \in Nat
            BY <3>5
          <6>3. \A j \in N : v[j] <= 0 * w[j]
            BY <5>1
          <6>4. 0 \in Nat /\ IsFiniteSet(N)
            BY <3>3
          <6> QED BY <6>1, <6>2, <6>3, <6>4, SumBound DEF A, B
        <5> QED BY <3>3, <3>7, <5>2
      <4>3. \A b \in 3..9 : 0 \div b = 0
        OBVIOUS
      <4> QED BY <3>3, <4>2, <4>3
    <3> QED BY <3>2, <3>11, <3>12, <3>13 DEF Volume
  <2> HIDE DEF mean, e
  <2>3. \A i \in 1..n : e[i] \in Dot /\ e[i].ts = data[i].ts /\ e[i].gb = mean(i)
    BY <1>0, <2>1, <2>2 DEF Dot
  <2>4. DOMAIN e = 1..n /\ Len(e) = n /\ e \in Seq(Dot)
    BY <1>0, <2>1, <2>3
  <2>5. Rising(e)
    BY <2>3, <2>4 DEF Line, Rising
  <2>6. \A i \in 1..n : data[i].gb >= Least => e[i].gb >= Least \div 3
    BY <2>2, <2>3
  <2>7. (\A i \in 1..n : data[i].gb = 0) => \A i \in 1..n : e[i].gb = 0
    BY <2>2, <2>3
  <2> QED BY <2>3, <2>4, <2>5, <2>6, <2>7 DEF Line, e
<1> QED BY <1>1, <1>2

-----------------------------------------------------------------------------
(* The axes                                                                *)

LEMMA NiceStepFacts ==
    ASSUME NEW v \in (Least \div 3)..Most
    PROVE  LET step == NiceStep(v)
           IN /\ step \in Nat \ {0} /\ step < v /\ v <= step * (TickCount - 1)
<1> DEFINE S == {s \in Steps : s * (TickCount - 1) >= v}
<1>1. PICK s \in Steps : s < v /\ v <= s * (TickCount - 1)
  BY StepsAssumption
<1>2. Steps \subseteq Nat \ {0} /\ TickCount - 1 \in Nat
  BY ModelAssumption
<1>3. v \in Int
  OBVIOUS
<1>4. s \in S
  <2>1. s * (TickCount - 1) \in Int
    BY <1>2
  <2> QED BY <1>1, <1>3, <2>1
<1>5. S \in SUBSET Nat /\ S # {}
  BY <1>2, <1>4
<1>6. Min(S) \in S /\ Min(S) <= s
  <2> HIDE DEF S
  <2> QED BY <1>4, <1>5, MinFacts
<1>7. NiceStep(v) = Min(S)
  BY DEF NiceStep
<1> HIDE DEF S
<1>8. Min(S) \in Steps /\ Min(S) * (TickCount - 1) >= v
  BY <1>6 DEF S
<1>9. Min(S) \in Nat \ {0} /\ Min(S) * (TickCount - 1) \in Int /\ s \in Int
  <2>1. \A a \in Nat \ {0}, b \in Nat : a * b \in Int
    OBVIOUS
  <2>2. \A x \in Steps : x \in Nat \ {0} /\ x \in Int
    BY <1>2
  <2>3. Min(S) \in Nat \ {0} /\ s \in Int
    BY <1>8, <2>2, Zenon
  <2> QED BY <1>2, <2>1, <2>3
<1> QED BY <1>1, <1>3, <1>6, <1>7, <1>8, <1>9


\* There are as many multiples of a number as there are factors.
LEMMA MultiplesCounted ==
    ASSUME NEW step \in Nat \ {0}, NEW q \in Nat
    PROVE  Cardinality({k * step : k \in 0..q}) = q + 1
<1> DEFINE S == 0..q
           T == {k * step : k \in 0..q}
           f == [k \in S |-> k * step]
<1>1. IsFiniteSet(S) /\ Cardinality(S) = q + 1
  BY FS_Interval
<1>2. \A a, b \in S : a * step = b * step => a = b
  OBVIOUS
<1>3. f \in [S -> T] /\ \A y \in T : \E k \in S : f[k] = y
  OBVIOUS
<1>4. \A a, b \in S : f[a] = f[b] => a = b
  BY <1>2
<1> HIDE DEF S, T, f
<1>5. f \in Bijection(S, T)
  BY <1>3, <1>4 DEF Bijection, Injection, Surjection, IsInjective
<1>6. ExistsBijection(S, T)
  BY <1>5 DEF ExistsBijection
<1>7. Cardinality(T) = q + 1
  BY <1>1, <1>6, FS_Bijection
<1> QED BY <1>7 DEF T

LEMMA AxisOfPeak ==
    ASSUME NEW peak \in 0..Most, peak > 0 => peak >= Least \div 3
    PROVE  LET y == YScale(peak)
           IN /\ peak <= y.top /\ Cardinality(y.ticks) \in 3..TickCount
              /\ peak > 0 => y.top < 2 * peak
              /\ y.top >= Milli =>
                    \A t \in y.ticks : Rise(t, y.top, Height) = TickRise(t, y.top, Height)
<1> DEFINE v == IF peak > 0 THEN peak ELSE Milli
           step == NiceStep(v)
           q == CeilDiv(v, step)
           top == Larger(step, q * step)
           ticks == {k * step : k \in 0..(top \div step)}
           y == YScale(peak)
<1>1. y = [top |-> top, ticks |-> ticks]
  BY DEF YScale
<1>2. v \in (Least \div 3)..Most /\ v \in Int /\ peak <= v /\ (peak > 0 => v = peak)
  <2>1. Least \div 3 \in Int /\ Least \div 3 >= 1 /\ Milli \in (Least \div 3)..Most
    BY ModelAssumption
  <2> QED BY <2>1, Constants
<1> HIDE DEF v
<1>3. step \in Nat \ {0} /\ step < v /\ v <= step * (TickCount - 1)
  BY <1>2, NiceStepFacts
<1> HIDE DEF step
<1>4. q \in Int /\ v <= step * q /\ step * q < v + step
  BY <1>2, <1>3, CeilDivFacts
<1> HIDE DEF q
<1>5. TickCount - 1 \in Nat /\ TickCount \in Int
  <2>1. TickCount - 1 \in Nat
    BY ModelAssumption
  <2>2. TickCount \in Int
    BY ModelAssumption
  <2> QED BY <2>1, <2>2
<1>6. \A a, b \in Int, k \in Nat \ {0} : k * a < k * b => a < b
  OBVIOUS
<1>7. step * q \in Int /\ step * 1 = step /\ q * step = step * q
  BY <1>3, <1>4
<1>8. q > 1
  BY <1>2, <1>3, <1>4, <1>6, <1>7
<1>9. q - 1 < TickCount - 1
  <2>1. step * (q - 1) = step * q - step
    BY <1>3, <1>4
  <2>2. step * (TickCount - 1) \in Int
    BY <1>3, <1>5
  <2>3. step * (q - 1) < step * (TickCount - 1)
    BY <1>2, <1>3, <1>4, <1>7, <2>1, <2>2
  <2> QED BY <1>3, <1>4, <1>5, <1>6, <2>3
<1>10. top = step * q
  BY <1>2, <1>3, <1>4, <1>7 DEF Larger
<1>11. top \div step = q
  <2>1. 0 \in 0..(step - 1)
    BY <1>3
  <2>2. (step * q + 0) \div step = q
    BY <1>3, <1>4, <2>1, QuotientUnique
  <2> QED BY <1>7, <1>10, <2>2
<1> HIDE DEF top
<1>12. Cardinality(ticks) = q + 1 /\ \A t \in ticks : t \in Int /\ 0 <= t /\ t <= top
  <2>1. q \in Nat /\ ticks = {k * step : k \in 0..q}
    BY <1>4, <1>8, <1>11
  <2>2. Cardinality(ticks) = q + 1
    BY <1>3, <2>1, MultiplesCounted
  <2>3. \A k \in 0..q : k * step \in Int /\ 0 <= k * step /\ k * step <= q * step
    BY <1>3, <2>1
  <2> QED BY <1>7, <1>10, <2>1, <2>2, <2>3
<1>13. peak <= top /\ (peak > 0 => top < 2 * peak) /\ Cardinality(ticks) \in 3..TickCount
  BY <1>2, <1>3, <1>4, <1>5, <1>7, <1>8, <1>9, <1>10, <1>12
<1>14. ASSUME top >= Milli, NEW t \in ticks
       PROVE  Rise(t, top, Height) = TickRise(t, top, Height)
  <2>1. top \in Int /\ Milli \in Int
    BY <1>7, <1>10, ModelAssumption
  <2>2. Larger(Milli, top) = top
    BY <1>14, <2>1 DEF Larger
  <2>3. t \in Int /\ 0 <= t /\ t <= top
    BY <1>12
  <2>4. Clamp(t, 0, top) = t
    BY <2>1, <2>3 DEF Clamp, Larger, Smaller
  <2> QED BY <2>2, <2>4 DEF Rise, TickRise
<1> HIDE DEF ticks, y
<1>15. y.top = top /\ y.ticks = ticks
  BY <1>1
<1> QED BY <1>13, <1>14, <1>15 DEF y

LEMMA AxisOfTime == \A data, w : XTicks(data, w) # {}
BY DEF XTicks

-----------------------------------------------------------------------------
(* The pointer                                                             *)

LEMMA PositionsRise ==
    ASSUME NEW data, Line(data), NEW w \in Nat
    PROVE  /\ \A i \in 1..Len(data) : X(data, w, i) \in Int
           /\ \A i, j \in 1..Len(data) : i < j => X(data, w, i) < X(data, w, j)
<1> DEFINE m == Larger(1, w - Sides)
<1>1. m \in Nat \ {0}
  BY ModelAssumption DEF Larger
<1>2. data \in Seq(Dot) /\ Len(data) \in Nat
  BY DEF Line
<1>3. \A i \in 1..Len(data) : data[i].ts \in Int
  <2>1. \A i \in 1..Len(data) : data[i] \in Dot
    BY <1>2
  <2> QED BY <2>1 DEF Dot
<1>4. ASSUME NEW i \in 1..Len(data) PROVE X(data, w, i) = (data[i].ts - Head(data).ts) * m
  BY DEF X
<1>5. ASSUME NEW i \in 1..Len(data) PROVE Head(data).ts \in Int
  <2>1. 1 \in 1..Len(data) /\ Head(data) = data[1]
    BY <1>2
  <2> QED BY <1>3, <2>1
<1> HIDE DEF m
<1>6. \A a, b, c \in Int : a < b => (a - c) * m < (b - c) * m
  BY <1>1
<1>7. \A a, c \in Int : (a - c) * m \in Int
  BY <1>1
<1>8. \A i \in 1..Len(data) : X(data, w, i) \in Int
  BY <1>3, <1>4, <1>5, <1>7
<1>9. ASSUME NEW i \in 1..Len(data), NEW j \in 1..Len(data), i < j
      PROVE  X(data, w, i) < X(data, w, j)
  <2>1. data[i].ts < data[j].ts
    BY <1>9 DEF Line, Rising
  <2> QED BY <1>3, <1>4, <1>5, <1>6, <2>1
<1> QED BY <1>8, <1>9

\* i is the first of lo..hi that is not left of x, or the last if there is none;
\* p: where they are.
IsFirst(p, x, i, lo, hi) ==
    /\ i \in lo..hi /\ (i = hi \/ p[i] >= x)
    /\ \A j \in lo..hi : j < i => p[j] < x

LEMMA FirstExists ==
    ASSUME NEW n \in Nat, NEW p \in [1..n -> Int], NEW x \in Int,
           NEW lo \in 1..n, NEW hi \in 1..n, lo <= hi
    PROVE  \E i \in 1..n : /\ IsFirst(p, x, i, lo, hi)
                           /\ \A k \in Int : IsFirst(p, x, k, lo, hi) => k = i
<1>3. \A j \in 1..n : p[j] \in Int
  OBVIOUS
<1> DEFINE S == {i \in lo..hi : i = hi \/ p[i] >= x}
<1>1. S \in SUBSET Nat /\ S # {}
  <2>1. hi \in S
    OBVIOUS
  <2>2. lo..hi \subseteq Nat
    OBVIOUS
  <2> QED BY <2>1, <2>2
<1>2. PICK i \in S : \A j \in S : i <= j
  <2> HIDE DEF S
  <2> QED BY <1>1, LeastNumber
<1>4. IsFirst(p, x, i, lo, hi)
  BY <1>2, <1>3 DEF IsFirst
<1>5. ASSUME NEW k \in Int, IsFirst(p, x, k, lo, hi) PROVE k = i
  <2>1. k \in S /\ k \in 1..n /\ i \in 1..n /\ i <= k
    BY <1>2, <1>5 DEF IsFirst
  <2>2. ~(i < k)
    <3>1. ASSUME i < k PROVE FALSE
      <4>1. p[i] < x /\ (i = hi \/ p[i] >= x) /\ k <= hi
        BY <1>4, <1>5, <3>1 DEF IsFirst
      <4> QED BY <1>3, <2>1, <3>1, <4>1
    <3> QED BY <3>1
  <2> QED BY <2>1, <2>2
<1>6. i \in 1..n
  OBVIOUS
<1> QED BY <1>4, <1>5, <1>6

\* Halving keeps what is looked for.
\* The first of lo..hi is the first of the half that has it.
Halves(p, x, n, lo, mid, hi) ==
    /\ mid \in lo..(hi - 1) /\ mid \in 1..n /\ mid + 1 \in 1..n
    /\ \A i \in Int : p[mid] < x /\ IsFirst(p, x, i, mid + 1, hi) => IsFirst(p, x, i, lo, hi)
    /\ \A i \in Int : ~(p[mid] < x) /\ IsFirst(p, x, i, lo, mid) => IsFirst(p, x, i, lo, hi)

Increasing(p, n) == \A i, j \in 1..n : i < j => p[i] < p[j]

LEMMA FirstOfHalf ==
    ASSUME NEW n \in Nat, NEW p \in [1..n -> Int], NEW x \in Int, Increasing(p, n),
           NEW lo \in 1..n, NEW hi \in 1..n, lo < hi, NEW mid, mid = (lo + hi) \div 2
    PROVE  Halves(p, x, n, lo, mid, hi)
<1>1. mid \in lo..(hi - 1) /\ mid \in 1..n /\ mid + 1 \in 1..n
  OBVIOUS
<1>2. \A j \in 1..n : p[j] \in Int
  OBVIOUS
<1>3. ASSUME NEW i \in Int, p[mid] < x, IsFirst(p, x, i, mid + 1, hi)
      PROVE  IsFirst(p, x, i, lo, hi)
  <2>1. \A j \in lo..mid : p[j] < x
    <3> SUFFICES ASSUME NEW j \in lo..mid PROVE p[j] < x
      OBVIOUS
    <3>1. j = mid \/ p[j] < p[mid]
      BY <1>1 DEF Increasing
    <3> QED BY <1>1, <1>2, <1>3, <3>1
  <2>2. i \in lo..hi /\ (i = hi \/ p[i] >= x)
    BY <1>1, <1>3 DEF IsFirst
  <2>3. ASSUME NEW j \in lo..hi, j < i PROVE p[j] < x
    BY <1>1, <1>3, <2>1, <2>3 DEF IsFirst
  <2> QED BY <2>2, <2>3 DEF IsFirst
<1>4. ASSUME NEW i \in Int, ~(p[mid] < x), IsFirst(p, x, i, lo, mid)
      PROVE  IsFirst(p, x, i, lo, hi)
  <2>1. p[mid] >= x
    BY <1>1, <1>2, <1>4
  <2>2. i \in lo..hi /\ (i = hi \/ p[i] >= x)
    BY <1>1, <1>4, <2>1 DEF IsFirst
  <2>3. ASSUME NEW j \in lo..hi, j < i PROVE p[j] < x
    BY <1>1, <1>4, <2>3 DEF IsFirst
  <2> QED BY <2>2, <2>3 DEF IsFirst
<1> QED BY <1>1, <1>3, <1>4 DEF Halves


\* The bisection as a recursive function.
Halved(p, x, n, b) ==
    [at \in (1..n) \X (1..n) |->
        IF at[1] >= at[2] THEN at[1]
        ELSE IF p[(at[1] + at[2]) \div 2] < x THEN b[<<((at[1] + at[2]) \div 2) + 1, at[2]>>]
        ELSE b[<<at[1], (at[1] + at[2]) \div 2>>]]

LEMMA HalvedExists ==
    ASSUME NEW n \in Nat, NEW p \in [1..n -> Int], NEW x \in Int,
           \A i, j \in 1..n : i < j => p[i] < p[j]
    PROVE  \E b : b = Halved(p, x, n, b)
<1>s. Increasing(p, n)
  BY DEF Increasing
<1> DEFINE R(lo, hi) == IF lo >= hi THEN lo
                        ELSE CHOOSE i \in 1..n : IsFirst(p, x, i, lo, hi)
           b == [at \in (1..n) \X (1..n) |-> R(at[1], at[2])]
<1>1. ASSUME NEW lo \in 1..n, NEW hi \in 1..n, lo <= hi
      PROVE  /\ R(lo, hi) \in 1..n /\ IsFirst(p, x, R(lo, hi), lo, hi)
             /\ \A k \in Int : IsFirst(p, x, k, lo, hi) => k = R(lo, hi)
  <2>1. PICK i \in 1..n : /\ IsFirst(p, x, i, lo, hi)
                          /\ \A k \in Int : IsFirst(p, x, k, lo, hi) => k = i
    BY <1>1, FirstExists
  <2>2. CASE lo = hi
    <3>1. R(lo, hi) = lo /\ IsFirst(p, x, lo, lo, hi)
      BY <2>2 DEF IsFirst
    <3> HIDE DEF R
    <3>2. lo = i
      BY <2>1, <3>1
    <3> QED BY <2>1, <3>1, <3>2
  <2>3. CASE lo # hi
    <3> DEFINE c == CHOOSE k \in 1..n : IsFirst(p, x, k, lo, hi)
    <3>1. R(lo, hi) = c
      BY <1>1, <2>3
    <3>2. c \in 1..n /\ IsFirst(p, x, c, lo, hi)
      BY <2>1
    <3> HIDE DEF c, R
    <3>3. c = i
      BY <2>1, <3>2
    <3> QED BY <2>1, <3>1, <3>2, <3>3
  <2> QED BY <2>2, <2>3
<1>2. ASSUME NEW lo \in 1..n, NEW hi \in 1..n, ~(lo >= hi), NEW mid, mid = (lo + hi) \div 2
      PROVE  /\ mid \in 1..n /\ mid + 1 \in 1..n
             /\ R(lo, hi) = IF p[mid] < x THEN R(mid + 1, hi) ELSE R(lo, mid)
  <2>0. lo < hi
    BY <1>2
  <2>1. /\ mid \in lo..(hi - 1) /\ mid \in 1..n /\ mid + 1 \in 1..n
        /\ \A i \in Int : p[mid] < x /\ IsFirst(p, x, i, mid + 1, hi) => IsFirst(p, x, i, lo, hi)
        /\ \A i \in Int : ~(p[mid] < x) /\ IsFirst(p, x, i, lo, mid) => IsFirst(p, x, i, lo, hi)
    <3> HIDE DEF R, b
    <3>1. Halves(p, x, n, lo, mid, hi)
      BY <1>s, <2>0, <1>2, FirstOfHalf
    <3> QED BY <3>1 DEF Halves
  <2>2. mid + 1 <= hi /\ lo <= mid /\ lo <= hi
    BY <2>0, <2>1
  <2> HIDE DEF R
  <2>3. R(mid + 1, hi) \in 1..n /\ IsFirst(p, x, R(mid + 1, hi), mid + 1, hi)
    BY <1>1, <2>1, <2>2
  <2>4. R(lo, mid) \in 1..n /\ IsFirst(p, x, R(lo, mid), lo, mid)
    BY <1>1, <2>1, <2>2
  <2>5. \A k \in Int : IsFirst(p, x, k, lo, hi) => k = R(lo, hi)
    BY <1>1, <2>2
  <2>6. ASSUME p[mid] < x PROVE R(mid + 1, hi) = R(lo, hi)
    BY <2>1, <2>3, <2>5, <2>6
  <2>7. ASSUME ~(p[mid] < x) PROVE R(lo, mid) = R(lo, hi)
    BY <2>1, <2>4, <2>5, <2>7
  <2> QED BY <2>1, <2>6, <2>7
<1>3. ASSUME NEW lo \in 1..n, NEW hi \in 1..n PROVE b[<<lo, hi>>] = R(lo, hi)
  <2> DEFINE at == <<lo, hi>>
  <2>1. at \in (1..n) \X (1..n) /\ at[1] = lo /\ at[2] = hi
    OBVIOUS
  <2> HIDE DEF R
  <2> QED BY <2>1
<1>4. ASSUME NEW at \in (1..n) \X (1..n)
      PROVE  b[at] = Halved(p, x, n, b)[at]
  <2>1. PICK lo \in 1..n, hi \in 1..n : at = <<lo, hi>>
    OBVIOUS
  <2>2. at[1] = lo /\ at[2] = hi
    BY <2>1
  <2> DEFINE mid == (lo + hi) \div 2
  <2>3. Halved(p, x, n, b)[at] =
            IF lo >= hi THEN lo
            ELSE IF p[mid] < x THEN b[<<mid + 1, hi>>] ELSE b[<<lo, mid>>]
    <3> HIDE DEF b
    <3> QED BY <2>2 DEF Halved
  <2>4. b[at] = R(lo, hi)
    BY <1>3, <2>1
  <2>5. CASE lo >= hi
    <3>1. R(lo, hi) = lo
      BY <2>5
    <3> HIDE DEF b, R, mid
    <3> QED BY <2>3, <2>4, <2>5, <3>1
  <2>6. CASE ~(lo >= hi)
    <3> HIDE DEF b, R
    <3>1. /\ mid \in 1..n /\ mid + 1 \in 1..n
          /\ R(lo, hi) = IF p[mid] < x THEN R(mid + 1, hi) ELSE R(lo, mid)
      BY <1>2, <2>6
    <3>2. b[<<mid + 1, hi>>] = R(mid + 1, hi) /\ b[<<lo, mid>>] = R(lo, mid)
      BY <1>3, <3>1
    <3> HIDE DEF mid
    <3> QED BY <2>3, <2>4, <2>6, <3>1, <3>2
  <2> QED BY <2>5, <2>6
<1>5. b = Halved(p, x, n, b)
  <2> DEFINE h == Halved(p, x, n, b)
  <2>1. h = [at \in (1..n) \X (1..n) |-> h[at]]
    <3> HIDE DEF b
    <3> QED BY DEF Halved
  <2>2. b = [at \in (1..n) \X (1..n) |-> b[at]]
    OBVIOUS
  <2>3. \A at \in (1..n) \X (1..n) : b[at] = h[at]
    BY <1>4
  <2> HIDE DEF b, h
  <2>4. [at \in (1..n) \X (1..n) |-> b[at]] = [at \in (1..n) \X (1..n) |-> h[at]]
    BY <2>3
  <2>5. b = h
    BY <2>1, <2>2, <2>4, Zenon
  <2> QED BY <2>5 DEF h
<1> QED BY <1>5

LEMMA HalvedFinds ==
    ASSUME NEW n \in Nat, NEW p \in [1..n -> Int], NEW x \in Int,
           \A i, j \in 1..n : i < j => p[i] < p[j],
           NEW b, b = Halved(p, x, n, b)
    PROVE  \A lo, hi \in 1..n : lo <= hi => IsFirst(p, x, b[<<lo, hi>>], lo, hi)
<1>s. Increasing(p, n)
  BY DEF Increasing
<1> DEFINE Finds(k) == \A lo, hi \in 1..n : lo <= hi /\ hi - lo <= k =>
                            IsFirst(p, x, b[<<lo, hi>>], lo, hi)
           P == {k \in Nat : Finds(k)}
<1>0. ASSUME NEW lo \in 1..n, NEW hi \in 1..n, NEW mid, mid = (lo + hi) \div 2
      PROVE  b[<<lo, hi>>] = IF lo >= hi THEN lo
                             ELSE IF p[mid] < x THEN b[<<mid + 1, hi>>] ELSE b[<<lo, mid>>]
  <2> DEFINE at == <<lo, hi>>
  <2>1. at \in (1..n) \X (1..n) /\ at[1] = lo /\ at[2] = hi
    OBVIOUS
  <2>2. b[at] = Halved(p, x, n, b)[at]
    OBVIOUS
  <2> QED BY <1>0, <2>1, <2>2 DEF Halved
<1>1. ASSUME NEW lo \in 1..n, NEW hi \in 1..n, lo = hi
      PROVE  IsFirst(p, x, b[<<lo, hi>>], lo, hi)
  <2> DEFINE mid == (lo + hi) \div 2
  <2>1. b[<<lo, hi>>] = lo
    <3>1. b[<<lo, hi>>] = IF lo >= hi THEN lo
                          ELSE IF p[mid] < x THEN b[<<mid + 1, hi>>] ELSE b[<<lo, mid>>]
      BY <1>0
    <3>2. lo >= hi
      BY <1>1
    <3> QED BY <3>1, <3>2
  <2>2. IsFirst(p, x, lo, lo, hi)
    BY <1>1 DEF IsFirst
  <2> QED BY <2>1, <2>2
<1>2. P \in SUBSET Nat /\ 0 \in P
  <2>1. Finds(0)
    BY <1>1
  <2> QED BY <2>1
<1>3. ASSUME NEW k \in P PROVE k + 1 \in P
  <2>1. k \in Nat /\ Finds(k)
    OBVIOUS
  <2>2. ASSUME NEW lo \in 1..n, NEW hi \in 1..n, lo < hi, hi - lo <= k + 1
        PROVE  IsFirst(p, x, b[<<lo, hi>>], lo, hi)
    <3> DEFINE mid == (lo + hi) \div 2
    <3>1. /\ mid \in lo..(hi - 1) /\ mid \in 1..n /\ mid + 1 \in 1..n
          /\ \A i \in Int : p[mid] < x /\ IsFirst(p, x, i, mid + 1, hi) => IsFirst(p, x, i, lo, hi)
          /\ \A i \in Int : ~(p[mid] < x) /\ IsFirst(p, x, i, lo, mid) => IsFirst(p, x, i, lo, hi)
      <4>1. mid = (lo + hi) \div 2
        OBVIOUS
      <4> HIDE DEF mid, P, Finds
      <4>2. Halves(p, x, n, lo, mid, hi)
        BY <1>s, <2>2, <4>1, FirstOfHalf
      <4> QED BY <4>2 DEF Halves
    <3>2. b[<<lo, hi>>] = IF lo >= hi THEN lo
                          ELSE IF p[mid] < x THEN b[<<mid + 1, hi>>] ELSE b[<<lo, mid>>]
      BY <1>0
    <3> HIDE DEF mid, P
    <3>3. IsFirst(p, x, b[<<mid + 1, hi>>], mid + 1, hi)
      <4>1. mid + 1 <= hi /\ hi - (mid + 1) <= k
        BY <2>1, <2>2, <3>1
      <4>2. mid + 1 \in 1..n
        BY <3>1
      <4> QED BY <2>1, <4>1, <4>2, Zenon
    <3>4. IsFirst(p, x, b[<<lo, mid>>], lo, mid)
      <4>1. lo <= mid /\ mid - lo <= k
        BY <2>1, <2>2, <3>1
      <4>2. mid \in 1..n
        BY <3>1
      <4> QED BY <2>1, <4>1, <4>2, Zenon
    <3> HIDE DEF Finds
    <3>5. b[<<mid + 1, hi>>] \in Int /\ b[<<lo, mid>>] \in Int
      <4>1. b[<<mid + 1, hi>>] \in (mid + 1)..hi /\ b[<<lo, mid>>] \in lo..mid
        BY <3>3, <3>4 DEF IsFirst
      <4> QED BY <4>1
    <3>6. CASE p[mid] < x
      <4>1. b[<<lo, hi>>] = b[<<mid + 1, hi>>]
        BY <2>2, <3>2, <3>6
      <4> QED BY <3>1, <3>3, <3>5, <3>6, <4>1
    <3>7. CASE ~(p[mid] < x)
      <4>1. b[<<lo, hi>>] = b[<<lo, mid>>]
        BY <2>2, <3>2, <3>7
      <4> QED BY <3>1, <3>4, <3>5, <3>7, <4>1
    <3> QED BY <3>6, <3>7
  <2>3. Finds(k + 1)
    <3> SUFFICES ASSUME NEW lo \in 1..n, NEW hi \in 1..n, lo <= hi, hi - lo <= k + 1
                 PROVE  IsFirst(p, x, b[<<lo, hi>>], lo, hi)
      OBVIOUS
    <3>1. lo = hi \/ lo < hi
      OBVIOUS
    <3> HIDE DEF P, Finds
    <3> QED BY <1>1, <2>2, <3>1
  <2> QED BY <2>1, <2>3
<1>4. \A k \in Nat : k \in P
  <2> HIDE DEF P
  <2> QED BY <1>2, <1>3, NumberInduction
<1>5. Finds(n)
  BY <1>4
<1> QED BY <1>5


LEMMA ClosestIsNearest ==
    ASSUME NEW data, Line(data), data # <<>>, NEW w \in Nat, NEW x \in Int
    PROVE  LET c == Closest(data, w, x)
           IN /\ c \in 1..Len(data)
              /\ \A i \in 1..Len(data) :
                    Distance(X(data, w, c), x) <= Distance(X(data, w, i), x)
<1> DEFINE n == Len(data)
           p == [i \in 1..n |-> X(data, w, i)]
           Bisect(b) == b = [at \in (1..n) \X (1..n) |->
                               LET mid == (at[1] + at[2]) \div 2
                               IN IF at[1] >= at[2] THEN at[1]
                                  ELSE IF X(data, w, mid) < x THEN b[<<mid + 1, at[2]>>]
                                  ELSE b[<<at[1], mid>>]]
           bisect == CHOOSE b : Bisect(b)
           right == bisect[<<1, n>>]
           left == Larger(1, right - 1)
           far(i) == Distance(X(data, w, i), x)
           c == Closest(data, w, x)
<1>1. c = IF n <= 1 THEN 1 ELSE IF far(right) < far(left) THEN right ELSE left
  BY DEF Closest
<1>2. n \in Nat \ {0}
  BY DEF Line
<1>3. p \in [1..n -> Int] /\ \A i, j \in 1..n : i < j => p[i] < p[j]
  BY PositionsRise
<1>4. \A i \in 1..n : far(i) = Distance(p[i], x)
  OBVIOUS
<1>5. \A b : Halved(p, x, n, b) =
             [at \in (1..n) \X (1..n) |->
                LET mid == (at[1] + at[2]) \div 2
                IN IF at[1] >= at[2] THEN at[1]
                   ELSE IF X(data, w, mid) < x THEN b[<<mid + 1, at[2]>>]
                   ELSE b[<<at[1], mid>>]]
  <2> SUFFICES ASSUME NEW b, NEW at \in (1..n) \X (1..n)
               PROVE  (IF at[1] >= at[2] THEN at[1]
                       ELSE IF p[(at[1] + at[2]) \div 2] < x
                            THEN b[<<((at[1] + at[2]) \div 2) + 1, at[2]>>]
                       ELSE b[<<at[1], (at[1] + at[2]) \div 2>>])
                      = LET mid == (at[1] + at[2]) \div 2
                        IN IF at[1] >= at[2] THEN at[1]
                           ELSE IF X(data, w, mid) < x THEN b[<<mid + 1, at[2]>>]
                           ELSE b[<<at[1], mid>>]
    BY DEF Halved
  <2> DEFINE mid == (at[1] + at[2]) \div 2
  <2>1. at[1] \in 1..n /\ at[2] \in 1..n
    OBVIOUS
  <2>2. ~(at[1] >= at[2]) => mid \in 1..n
    BY <1>2, <2>1
  <2>3. ~(at[1] >= at[2]) => p[mid] = X(data, w, mid)
    BY <2>2
  <2> HIDE DEF p
  <2> QED BY <2>3
<1>6. \A b : Bisect(b) <=> b = Halved(p, x, n, b)
  BY <1>5, Zenon
<1> HIDE DEF p, Bisect, n
<1>7. bisect = Halved(p, x, n, bisect)
  <2>1. \E b : Bisect(b)
    BY <1>2, <1>3, <1>6, HalvedExists
  <2>2. Bisect(bisect)
    BY <2>1
  <2> QED BY <1>6, <2>2
<1> HIDE DEF bisect
<1>8. IsFirst(p, x, right, 1, n)
  <2>1. \A lo, hi \in 1..n : lo <= hi => IsFirst(p, x, bisect[<<lo, hi>>], lo, hi)
    BY <1>2, <1>3, <1>7, HalvedFinds
  <2>2. 1 \in 1..n /\ n \in 1..n /\ 1 <= n
    BY <1>2
  <2> QED BY <2>1, <2>2
<1> HIDE DEF right
<1>9. \A i \in 1..n : p[i] \in Int
  BY <1>3
<1>10. right \in 1..n /\ left \in 1..n /\ left \in Int /\ right \in Int
       /\ ((right = 1 /\ left = 1) \/ left = right - 1)
  BY <1>2, <1>8 DEF IsFirst, Larger
<1>11. ASSUME NEW i \in 1..n, i >= right PROVE far(right) <= far(i)
  <2>1. i = right \/ (p[right] >= x /\ p[right] < p[i])
    BY <1>3, <1>8, <1>10, <1>11 DEF IsFirst
  <2> HIDE DEF far
  <2>2. far(i) = Distance(p[i], x) /\ far(right) = Distance(p[right], x)
    BY <1>4, <1>10
  <2> QED BY <1>9, <1>10, <2>1, <2>2 DEF Distance, Larger
<1>12. ASSUME NEW i \in 1..n, i < right PROVE far(left) <= far(i)
  <2>1. left = right - 1 /\ left < right /\ (i = left \/ i < left)
    BY <1>10, <1>12
  <2>2. p[left] < x /\ (i = left \/ p[i] < p[left])
    BY <1>2, <1>3, <1>8, <1>10, <2>1 DEF IsFirst
  <2> HIDE DEF far, left
  <2>3. far(i) = Distance(p[i], x) /\ far(left) = Distance(p[left], x)
    BY <1>4, <1>10
  <2> QED BY <1>9, <1>10, <2>2, <2>3 DEF Distance, Larger
<1>13. \A i \in 1..n : far(i) \in Int
  <2>1. \A i \in 1..n : far(i) = Distance(p[i], x)
    BY <1>4
  <2> HIDE DEF far
  <2> QED BY <1>9, <2>1 DEF Distance, Larger
<1> HIDE DEF far, left, c
<1>14. CASE n <= 1
  <2>1. n = 1 /\ c = 1 /\ \A i \in 1..n : i = 1
    BY <1>1, <1>2, <1>14
  <2>2. c \in 1..n /\ \A i \in 1..n : far(c) <= far(i)
    BY <1>13, <2>1
  <2> QED BY <2>2 DEF far, c, n
<1>15. CASE ~(n <= 1)
  <2>1. c = IF far(right) < far(left) THEN right ELSE left
    BY <1>1, <1>15
  <2>2. c \in 1..n /\ far(c) <= far(left) /\ far(c) <= far(right)
    BY <1>10, <1>13, <2>1
  <2>3. \A i \in 1..n : far(c) <= far(i)
    <3> SUFFICES ASSUME NEW i \in 1..n PROVE far(c) <= far(i)
      OBVIOUS
    <3>1. i >= right \/ i < right
      BY <1>10
    <3> QED BY <1>10, <1>11, <1>12, <1>13, <2>2, <3>1
  <2> QED BY <2>2, <2>3 DEF far, c, n
<1> QED BY <1>14, <1>15


-----------------------------------------------------------------------------
(* What every step of the chart keeps                                      *)

\* The points and the place a pointer was over.
Sketch(f) ==
    /\ Line(f.points) /\ f.points # <<>>
    /\ f.w \in Widths /\ f.x \in Pointers

ChartTypes ==
    /\ clock \in ChartStart..ChartEnd /\ traffic \in History(clock)
    /\ days \in Periods /\ width \in Widths
    /\ rows \in [Periods -> History(clock) \cup {NoChart}]
    /\ asking \subseteq Periods /\ broken \subseteq Periods
    /\ loaded \in Periods \cup {NoChart}

\* The points are made of the rows on the screen, for the period chosen; they are
\* its own rows if there are any.
PointsOfRows ==
    /\ series.at \in Nat /\ series.at <= clock
    /\ shown \in History(series.at) \cup {NoChart}
    /\ series.data = FillBuckets(IF shown = NoChart THEN <<>> ELSE shown, days, series.at)
    /\ rows[days] # NoChart => shown = rows[days]

\* What is hovered was looked up in the points it was aimed at.
PointerOver ==
    /\ frame # NoChart => Sketch(frame)
    /\ aim # NoChart => Sketch(aim) /\ hovered = Closest(aim.points, aim.w, Aimed(aim))
    /\ aim = NoChart => hovered = NoChart

ChartInv == ChartTypes /\ PointsOfRows /\ PointerOver

LEMMA ChartConstants ==
    /\ Periods \subseteq Nat \ {0} /\ Widths \subseteq Nat \ {0} /\ Pointers \subseteq Int
    /\ ChartEnd \in Nat /\ ChartStart \in 0..ChartEnd /\ Amounts \subseteq Least..Most
BY ChartAssumption

LEMMA NoChartIsNoHistory ==
    ASSUME NEW c \in Nat, c <= ChartEnd
    PROVE  NoChart \notin History(c)
<1>1. Aligned(c) \subseteq {t \in 0..ChartEnd : t % Bucket = 0}
  BY ChartConstants DEF Aligned
<1>2. \A S \in SUBSET Aligned(c) : NoChart \notin [S -> Least..Most]
  BY <1>1, ChartAssumption
<1> QED BY <1>2 DEF History

LEMMA ServedRows ==
    ASSUME NEW c \in Nat, traffic \in History(c), NEW d
    PROVE  Served(d) \in History(c)
<1> DEFINE begun == {t \in DOMAIN traffic : t >= clock - d * DayLength}
<1>1. begun \in SUBSET Aligned(c) /\ \A t \in begun : traffic[t] \in Least..Most
  BY HistoryFacts
<1>2. Served(d) = [t \in begun |-> traffic[t]]
  BY DEF Served
<1> HIDE DEF begun
<1>3. Served(d) \in [begun -> Least..Most]
  BY <1>1, <1>2
<1> QED BY <1>1, <1>3 DEF History

LEMMA StandInRows ==
    ASSUME ChartTypes, PointsOfRows
    PROVE  /\ StandIn \in History(clock) \cup {NoChart}
           /\ shown \in History(clock) \cup {NoChart}
           /\ clock \in Nat /\ clock <= ChartEnd
<1>1. clock \in Nat /\ clock <= ChartEnd
  BY ChartConstants DEF ChartTypes
<1>2. History(series.at) \subseteq History(clock)
  BY <1>1, HistoryLater DEF PointsOfRows
<1>3. shown \in History(clock) \cup {NoChart}
  BY <1>2 DEF PointsOfRows
<1>4. loaded # NoChart => rows[loaded] \in History(clock) \cup {NoChart}
  BY DEF ChartTypes
<1> QED BY <1>1, <1>3, <1>4 DEF StandIn

LEMMA ChartStarts == ChartInit => ChartInv
<1> SUFFICES ASSUME ChartInit PROVE ChartInv
  OBVIOUS
<1>1. clock = ChartStart /\ clock \in Nat /\ clock \in ChartStart..ChartEnd
  BY ChartConstants DEF ChartInit
<1>2. traffic \in History(clock)
  <2>1. traffic \in Histories
    BY DEF ChartInit
  <2>2. /\ DOMAIN traffic \subseteq {t \in 0..ChartStart : t % Bucket = 0}
        /\ traffic \in [DOMAIN traffic -> Least..Most]
    BY <2>1, ChartAssumption
  <2>3. DOMAIN traffic \in SUBSET Aligned(clock)
    BY <1>1, <2>2 DEF Aligned
  <2> QED BY <2>2, <2>3 DEF History
<1>3. ChartTypes
  BY <1>1, <1>2 DEF ChartInit, ChartTypes
<1>4. PointsOfRows
  <2>1. series = [data |-> FillBuckets(<<>>, days, clock), at |-> clock]
    BY DEF ChartInit, Made
  <2>2. shown = NoChart /\ days \in Periods /\ rows[days] = NoChart
    BY DEF ChartInit
  <2>3. series.at = clock /\ series.data = FillBuckets(<<>>, days, clock)
    BY <2>1
  <2> QED BY <1>1, <2>2, <2>3 DEF PointsOfRows
<1>5. PointerOver
  BY DEF ChartInit, PointerOver
<1> QED BY <1>3, <1>4, <1>5 DEF ChartInv

\* The line on the screen, from the points: where it begins and how high it goes.
LEMMA ChartLine ==
    ASSUME NEW data, Line(data), data # <<>>, NEW w \in Widths
    PROVE  LET thin == Downsample(data, PointBudget(w))
               line == ChartData(data, w)
           IN /\ PickedFrom(thin, data, 1, Len(data)) /\ Len(thin) >= 1 /\ thin[1] = data[1]
              /\ Line(line) /\ Len(line) = Len(thin) /\ line # <<>>
              /\ \A i \in 1..Len(thin) : line[i].ts = thin[i].ts
              /\ \A i \in 1..Len(thin) : thin[i].gb >= Least => line[i].gb >= Least \div 3
              /\ (\A i \in 1..Len(thin) : thin[i].gb = 0) => \A i \in 1..Len(thin) : line[i].gb = 0
<1> DEFINE budget == PointBudget(w)
           thin == Downsample(data, budget)
           line == ChartData(data, w)
<1>1. budget \in Nat /\ budget >= 3
  BY ChartConstants, BudgetOfWidth
<1>2. line = Smooth(thin)
  BY DEF ChartData
<1> HIDE DEF budget
<1>3. PickedFrom(thin, data, 1, Len(data)) /\ Len(thin) >= 1 /\ thin[1] = data[1]
  BY <1>1, Downsampled
<1> HIDE DEF thin, line
<1>4. Line(thin)
  BY <1>3 DEF PickedFrom
<1>5. /\ Line(line) /\ Len(line) = Len(thin)
      /\ \A i \in 1..Len(thin) : line[i].ts = thin[i].ts
      /\ \A i \in 1..Len(thin) : thin[i].gb >= Least => line[i].gb >= Least \div 3
      /\ (\A i \in 1..Len(thin) : thin[i].gb = 0) => \A i \in 1..Len(thin) : line[i].gb = 0
  BY <1>2, <1>4, SmoothedLine
<1>6. line # <<>>
  BY <1>3, <1>5
<1> QED BY <1>3, <1>5, <1>6 DEF thin, line, budget

\* What is drawn when a chart is.
LEMMA DrawnRows ==
    ASSUME ChartInv, View = "chart"
    PROVE  /\ shown # NoChart /\ shown \in History(series.at) /\ series.at \in Nat
           /\ series.data = FillBuckets(shown, days, series.at) /\ days \in Nat \ {0}
           /\ series.data # <<>> /\ Line(series.data)
           /\ \A i \in 1..Len(series.data) :
                 series.data[i].gb = 0 \/ series.data[i].gb \in Least..Most
           /\ (IF Pending(days) THEN shown ELSE rows[days]) = shown
           /\ width \in Widths
<1>1. shown # NoChart /\ series.data # <<>>
      /\ (IF Pending(days) THEN shown ELSE rows[days]) = shown
  BY DEF View, ChartInv, PointsOfRows
<1>2. /\ shown \in History(series.at) /\ series.at \in Nat
      /\ series.data = FillBuckets(shown, days, series.at)
  BY <1>1 DEF ChartInv, PointsOfRows
<1>3. days \in Nat \ {0} /\ width \in Widths
  BY ChartConstants DEF ChartInv, ChartTypes
<1>4. /\ Line(series.data)
      /\ \A i \in 1..Len(series.data) : series.data[i].gb =
            IF series.data[i].ts \in DOMAIN shown THEN shown[series.data[i].ts] ELSE 0
  BY <1>2, <1>3, FilledLine
<1>5. \A t \in DOMAIN shown : shown[t] \in Least..Most
  BY <1>2, HistoryFacts
<1> QED BY <1>1, <1>2, <1>3, <1>4, <1>5


\* New rows on the screen, or another period: the points are made anew, now.
LEMMA PointsRemade ==
    ASSUME NEW d, clock \in Nat, clock' = clock, days' = d, series' = Made(shown', d),
           shown' \in History(clock) \cup {NoChart}, rows'[d] # NoChart => shown' = rows'[d]
    PROVE  PointsOfRows'
<1>1. series' = [data |-> FillBuckets(IF shown' = NoChart THEN <<>> ELSE shown', d, clock),
                 at |-> clock]
  BY DEF Made
<1>2. series'.at = clock /\ series'.data =
          FillBuckets(IF shown' = NoChart THEN <<>> ELSE shown', d, clock)
  BY <1>1
<1> QED BY <1>2 DEF PointsOfRows

LEMMA SetDaysKeeps ==
    ASSUME ChartInv, NEW d \in Periods, SetDays(d)
    PROVE  ChartInv'
<1> USE DEF ChartInv
<1>1. /\ days' = d /\ clock' = clock /\ traffic' = traffic /\ rows' = rows
      /\ broken' = broken /\ width' = width /\ frame' = frame
      /\ hovered' = NoChart /\ aim' = NoChart
  BY DEF SetDays
<1>2. ChartTypes'
  <2>1. asking' \subseteq Periods
    BY DEF SetDays, ChartTypes
  <2>2. loaded' \in Periods \cup {NoChart}
    BY DEF SetDays, ChartTypes
  <2> QED BY <1>1, <2>1, <2>2 DEF ChartTypes
<1>3. PointsOfRows'
  <2>1. shown' = (IF rows[d] = NoChart THEN StandIn ELSE rows[d]) /\ series' = Made(shown', d)
    BY DEF SetDays
  <2>2. rows[d] \in History(clock) \cup {NoChart}
    BY DEF ChartTypes
  <2>3. shown' \in History(clock) \cup {NoChart} /\ clock \in Nat
    BY <2>1, <2>2, StandInRows
  <2>4. rows'[d] # NoChart => shown' = rows'[d]
    BY <1>1, <2>1
  <2> QED BY <1>1, <2>1, <2>3, <2>4, PointsRemade
<1>4. PointerOver'
  BY <1>1 DEF PointerOver, Sketch
<1> QED BY <1>2, <1>3, <1>4

LEMMA RefetchKeeps ==
    ASSUME ChartInv, ChartRefetch
    PROVE  ChartInv'
<1> USE DEF ChartInv
<1>1. /\ days' = days /\ clock' = clock /\ traffic' = traffic /\ rows' = rows
      /\ broken' = broken /\ loaded' = loaded /\ width' = width
      /\ frame' = frame /\ hovered' = hovered /\ aim' = aim
  BY DEF ChartRefetch, pointer
<1>2. ChartTypes'
  <2>1. asking' \subseteq Periods
    BY DEF ChartRefetch, ChartTypes
  <2> QED BY <1>1, <2>1 DEF ChartTypes
<1>3. PointsOfRows'
  <2>1. /\ shown' = IF rows[days] = NoChart THEN StandIn ELSE shown
        /\ series' = IF shown' = shown THEN series ELSE Made(shown', days)
    BY DEF ChartRefetch
  <2>2. CASE shown' = shown
    BY <1>1, <2>1, <2>2 DEF PointsOfRows
  <2>3. CASE shown' # shown
    <3>1. rows'[days] = NoChart /\ shown' = StandIn /\ series' = Made(shown', days)
      BY <1>1, <2>1, <2>3
    <3>2. shown' \in History(clock) \cup {NoChart} /\ clock \in Nat
      BY <3>1, StandInRows
    <3> QED BY <1>1, <3>1, <3>2, PointsRemade
  <2> QED BY <2>2, <2>3
<1>4. PointerOver'
  BY <1>1 DEF PointerOver, Sketch
<1> QED BY <1>2, <1>3, <1>4

LEMMA AnswerKeeps ==
    ASSUME ChartInv, NEW d \in Periods, TrafficAnswer(d)
    PROVE  ChartInv'
<1> USE DEF ChartInv
<1>1. /\ days' = days /\ clock' = clock /\ traffic' = traffic /\ width' = width
      /\ frame' = frame /\ hovered' = hovered /\ aim' = aim
      /\ rows' = [rows EXCEPT ![d] = Served(d)]
  BY DEF TrafficAnswer, pointer
<1>2. clock \in Nat /\ clock <= ChartEnd
  BY StandInRows
<1>3. Served(d) \in History(clock) /\ Served(d) # NoChart
  BY <1>2, ServedRows, NoChartIsNoHistory DEF ChartTypes
<1>4. /\ rows' \in [Periods -> History(clock) \cup {NoChart}] /\ rows'[d] = Served(d)
      /\ \A p \in Periods : p # d => rows'[p] = rows[p]
  <2>1. rows \in [Periods -> History(clock) \cup {NoChart}]
    BY DEF ChartTypes
  <2> HIDE DEF ChartInv
  <2> QED BY <1>1, <1>3, <2>1
<1>5. ChartTypes'
  <2>1. asking' \subseteq Periods /\ broken' \subseteq Periods
    BY DEF TrafficAnswer, ChartTypes
  <2>2. loaded' \in Periods \cup {NoChart}
    BY DEF TrafficAnswer, ChartTypes
  <2> QED BY <1>1, <1>4, <2>1, <2>2 DEF ChartTypes
<1>6. PointsOfRows'
  <2>0. days \in Periods
    BY DEF ChartTypes
  <2>1. CASE d # days
    <3>1. shown' = shown /\ series' = series
      BY <2>1 DEF TrafficAnswer
    <3>2. rows'[days] = rows[days]
      BY <1>4, <2>0, <2>1
    <3> QED BY <1>1, <3>1, <3>2 DEF PointsOfRows
  <2>2. CASE d = days /\ rows'[d] = rows[d]
    <3>1. shown' = rows'[d] /\ series' = series
      BY <2>2 DEF TrafficAnswer
    <3>2. rows[days] # NoChart
      BY <1>3, <1>4, <2>2
    <3>3. shown' = shown
      BY <2>2, <3>1, <3>2 DEF PointsOfRows
    <3> QED BY <1>1, <2>2, <3>1, <3>3 DEF PointsOfRows
  <2>3. CASE d = days /\ rows'[d] # rows[d]
    <3>1. shown' = rows'[d] /\ series' = Made(shown', d)
      BY <2>3 DEF TrafficAnswer
    <3> QED BY <1>1, <1>2, <1>3, <1>4, <2>3, <3>1, PointsRemade
  <2> QED BY <2>1, <2>2, <2>3
<1>7. PointerOver'
  BY <1>1 DEF PointerOver, Sketch
<1> QED BY <1>5, <1>6, <1>7

LEMMA FailureKeeps ==
    ASSUME ChartInv, NEW d \in Periods, TrafficFails(d)
    PROVE  ChartInv'
<1> USE DEF ChartInv
<1>1. /\ days' = days /\ clock' = clock /\ traffic' = traffic /\ rows' = rows
      /\ loaded' = loaded /\ width' = width
      /\ frame' = frame /\ hovered' = hovered /\ aim' = aim
  BY DEF TrafficFails, pointer
<1>2. ChartTypes'
  <2>1. asking' \subseteq Periods /\ broken' \subseteq Periods
    BY DEF TrafficFails, ChartTypes
  <2> QED BY <1>1, <2>1 DEF ChartTypes
<1>3. PointsOfRows'
  <2>1. /\ shown' = IF d = days /\ rows[d] = NoChart THEN NoChart ELSE shown
        /\ series' = IF shown' = shown THEN series ELSE Made(shown', d)
    BY DEF TrafficFails
  <2>2. CASE shown' = shown
    BY <1>1, <2>1, <2>2 DEF PointsOfRows
  <2>3. CASE shown' # shown
    <3>1. d = days /\ rows'[d] = NoChart /\ shown' = NoChart /\ series' = Made(shown', d)
      BY <1>1, <2>1, <2>3
    <3> QED BY <1>1, <3>1, StandInRows, PointsRemade
  <2> QED BY <2>2, <2>3
<1>4. PointerOver'
  BY <1>1 DEF PointerOver, Sketch
<1> QED BY <1>2, <1>3, <1>4

LEMMA ResizeKeeps ==
    ASSUME ChartInv, NEW w \in Widths, Resize(w)
    PROVE  ChartInv'
<1> USE DEF ChartInv
<1>1. /\ days' = days /\ clock' = clock /\ traffic' = traffic /\ rows' = rows
      /\ asking' = asking /\ broken' = broken /\ loaded' = loaded /\ width' = w
      /\ shown' = shown /\ series' = series /\ frame' = frame
      /\ (hovered' = hovered /\ aim' = aim) \/ (hovered' = NoChart /\ aim' = NoChart)
  BY DEF Resize, query
<1>2. ChartTypes' /\ PointsOfRows'
  BY <1>1 DEF ChartTypes, PointsOfRows
<1>3. PointerOver'
  BY <1>1 DEF PointerOver, Sketch
<1> QED BY <1>2, <1>3

\* The steps of the pointer leave the rows and the points alone.
LEMMA PointerSteps ==
    ASSUME ChartInv, UNCHANGED <<clock, traffic, days, query, width>>, PointerOver'
    PROVE  ChartInv'
<1>1. /\ days' = days /\ clock' = clock /\ traffic' = traffic /\ rows' = rows
      /\ asking' = asking /\ broken' = broken /\ loaded' = loaded /\ width' = width
      /\ shown' = shown /\ series' = series
  BY DEF query
<1>2. ChartTypes' /\ PointsOfRows'
  BY <1>1 DEF ChartInv, ChartTypes, PointsOfRows
<1> QED BY <1>2 DEF ChartInv

LEMMA PointerMovesKeeps ==
    ASSUME ChartInv, NEW x \in Pointers, PointerMoves(x)
    PROVE  ChartInv'
<1>1. View = "chart" /\ frame' = [points |-> Points, w |-> width, x |-> x]
  BY DEF PointerMoves
<1>2. hovered' = hovered /\ aim' = aim /\ UNCHANGED <<clock, traffic, days, query, width>>
  BY DEF PointerMoves
<1>3. Line(series.data) /\ series.data # <<>> /\ width \in Widths
  BY <1>1, DrawnRows
<1>4. Line(Points) /\ Points # <<>>
  BY <1>3, ChartLine DEF Points
<1>5. Sketch(frame')
  BY <1>1, <1>3, <1>4 DEF Sketch
<1>6. PointerOver'
  BY <1>2, <1>5 DEF ChartInv, PointerOver, Sketch
<1> QED BY <1>2, <1>6, PointerSteps

LEMMA FrameKeeps ==
    ASSUME ChartInv, AnimationFrame
    PROVE  ChartInv'
<1>1. /\ frame # NoChart /\ hovered' = Closest(frame.points, frame.w, Aimed(frame))
      /\ aim' = frame /\ frame' = NoChart
      /\ UNCHANGED <<clock, traffic, days, query, width>>
  BY DEF AnimationFrame
<1>2. PointerOver'
  BY <1>1 DEF ChartInv, PointerOver, Sketch, Aimed
<1> QED BY <1>1, <1>2, PointerSteps

LEMMA LeavesKeeps ==
    ASSUME ChartInv, PointerLeaves
    PROVE  ChartInv'
<1>1. /\ hovered' = NoChart /\ aim' = NoChart /\ frame' = frame
      /\ UNCHANGED <<clock, traffic, days, query, width>>
  BY DEF PointerLeaves
<1>2. PointerOver'
  BY <1>1 DEF ChartInv, PointerOver, Sketch
<1> QED BY <1>1, <1>2, PointerSteps

LEMMA CollectedKeeps ==
    ASSUME ChartInv, NEW v \in Amounts \cup {0}, Collected(v)
    PROVE  ChartInv'
<1> USE DEF ChartInv
<1> DEFINE b == ((clock + 1) \div Bucket) * Bucket
<1>1. /\ clock < ChartEnd /\ clock' = clock + 1
      /\ traffic' = IF v = 0 THEN traffic
                    ELSE [t \in DOMAIN traffic \cup {b} |->
                            IF t # b THEN traffic[t]
                            ELSE IF b \in DOMAIN traffic THEN traffic[b] + v ELSE v]
      /\ v # 0 => traffic'[b] <= Most
  BY DEF Collected
<1>2. /\ days' = days /\ rows' = rows /\ asking' = asking /\ broken' = broken
      /\ loaded' = loaded /\ width' = width /\ shown' = shown /\ series' = series
      /\ frame' = frame /\ hovered' = hovered /\ aim' = aim
  BY DEF Collected, query, pointer
<1>3. /\ clock \in Nat /\ clock' \in Nat /\ clock <= clock'
      /\ clock' \in ChartStart..ChartEnd
  BY <1>1, ChartConstants DEF ChartTypes
<1>4. History(clock) \subseteq History(clock')
  BY <1>3, HistoryLater
<1>5. b \in Aligned(clock')
  <2> DEFINE q == (clock + 1) \div Bucket
  <2>1. Bucket \in Nat \ {0} /\ clock + 1 \in Int
    BY <1>3, Constants
  <2>2. q \in Int /\ Bucket * q <= clock + 1 /\ clock + 1 < Bucket * q + Bucket
    BY <2>1, Quotient
  <2> HIDE DEF q
  <2>3. 0 \in 0..(Bucket - 1) /\ Bucket * q + 0 = b /\ Bucket * q = b
    BY <2>1, <2>2 DEF q
  <2>4. (Bucket * q + 0) % Bucket = 0
    BY <2>1, <2>2, <2>3, QuotientUnique
  <2>5. q > -1
    <3>1. Bucket * (q + 1) = Bucket * q + Bucket
      BY <2>1, <2>2
    <3>2. Bucket * 0 < Bucket * (q + 1)
      BY <1>3, <2>1, <2>2, <3>1
    <3>3. \A x, y \in Int, k \in Nat \ {0} : k * x < k * y => x < y
      OBVIOUS
    <3>4. 0 < q + 1
      BY <2>1, <2>2, <3>2, <3>3
    <3> QED BY <2>2, <3>4
  <2>6. Bucket * q \in Nat
    BY <2>1, <2>2, <2>5
  <2> HIDE DEF b
  <2> QED BY <1>1, <1>3, <2>2, <2>3, <2>4, <2>6 DEF Aligned
<1>6. traffic' \in History(clock')
  <2>0. traffic \in History(clock) /\ v \in Amounts \cup {0}
    BY DEF ChartTypes
  <2> HIDE DEF b, ChartInv
  <2>1. CASE v = 0
    BY <1>1, <1>4, <2>0, <2>1
  <2>2. CASE v # 0
    <3> DEFINE D == DOMAIN traffic \cup {b}
    <3>1. v \in Least..Most /\ v \in Nat
      BY <2>0, <2>2, ChartConstants, Constants
    <3>2. DOMAIN traffic \in SUBSET Aligned(clock') /\ \A t \in DOMAIN traffic : traffic[t] \in Least..Most
      BY <1>3, <1>4, <2>0, HistoryFacts
    <3>3. DOMAIN traffic' = D /\ D \in SUBSET Aligned(clock')
      BY <1>1, <1>5, <2>2, <3>2
    <3>4. \A t \in DOMAIN traffic : t # b => traffic'[t] \in Least..Most
      BY <1>1, <2>2, <3>2
    <3>5. traffic'[b] \in Least..Most
      <4>1. traffic'[b] = IF b \in DOMAIN traffic THEN traffic[b] + v ELSE v
        BY <1>1, <2>2
      <4>2. traffic'[b] <= Most
        BY <1>1, <2>2
      <4>3. CASE b \in DOMAIN traffic
        <5>1. traffic[b] \in Least..Most
          BY <3>2, <4>3
        <5>2. traffic'[b] = traffic[b] + v
          BY <4>1, <4>3
        <5> QED BY <3>1, <4>2, <5>1, <5>2, Constants
      <4>4. CASE b \notin DOMAIN traffic
        BY <3>1, <4>1, <4>4
      <4> QED BY <4>3, <4>4
    <3>6. traffic' \in [D -> Least..Most]
      <4>1. traffic' = [t \in D |-> traffic'[t]]
        BY <1>1, <2>2
      <4>2. \A t \in D : traffic'[t] \in Least..Most
        BY <3>4, <3>5
      <4> QED BY <4>1, <4>2
    <3> HIDE DEF D
    <3> QED BY <3>3, <3>6 DEF History
  <2> QED BY <2>1, <2>2
<1>7. ChartTypes'
  BY <1>2, <1>3, <1>4, <1>6 DEF ChartTypes
<1>8. PointsOfRows'
  <2>1. series.at <= clock'
    BY <1>3 DEF PointsOfRows
  <2> QED BY <1>2, <2>1 DEF PointsOfRows
<1>9. PointerOver'
  BY <1>2 DEF PointerOver, Sketch
<1> QED BY <1>7, <1>8, <1>9

LEMMA ChartSteps == ChartInv /\ [ChartNext]_chartVars => ChartInv'
<1> SUFFICES ASSUME ChartInv, [ChartNext]_chartVars PROVE ChartInv'
  OBVIOUS
<1>1. CASE UNCHANGED chartVars
  BY <1>1 DEF chartVars, ChartInv, ChartTypes, PointsOfRows, PointerOver, Sketch, Aimed
<1>2. ASSUME NEW d \in Periods, SetDays(d) PROVE ChartInv'
  BY <1>2, SetDaysKeeps
<1>3. ASSUME NEW d \in Periods, TrafficAnswer(d) PROVE ChartInv'
  BY <1>3, AnswerKeeps
<1>4. ASSUME NEW d \in Periods, TrafficFails(d) PROVE ChartInv'
  BY <1>4, FailureKeeps
<1>5. CASE ChartRefetch
  BY <1>5, RefetchKeeps
<1>6. CASE AnimationFrame
  BY <1>6, FrameKeeps
<1>7. CASE PointerLeaves
  BY <1>7, LeavesKeeps
<1>8. ASSUME NEW w \in Widths, Resize(w) PROVE ChartInv'
  BY <1>8, ResizeKeeps
<1>9. ASSUME NEW x \in Pointers, PointerMoves(x) PROVE ChartInv'
  BY <1>9, PointerMovesKeeps
<1>10. ASSUME NEW v \in Amounts \cup {0}, Collected(v) PROVE ChartInv'
  BY <1>10, CollectedKeeps
<1> QED BY <1>1, <1>2, <1>3, <1>4, <1>5, <1>6, <1>7, <1>8, <1>9, <1>10 DEF ChartNext

-----------------------------------------------------------------------------
(* What is drawn is the traffic of the period                              *)

LEMMA PeriodIsCounted == ChartInv => TotalCountsPeriod
<1> SUFFICES ASSUME ChartInv, View = "chart" PROVE TotalCountsPeriod
  BY DEF TotalCountsPeriod, ChartDrawn
<1> DEFINE data == series.data
           given == IF Pending(days) THEN shown ELSE rows[days]
           counted == {t \in DOMAIN given : t >= series.at - days * DayLength}
<1>1. /\ shown \in History(series.at) /\ series.at \in Nat /\ days \in Nat \ {0}
      /\ data = FillBuckets(shown, days, series.at) /\ given = shown
  BY DrawnRows
<1> HIDE DEF data, given
<1>2. SumFunction([i \in DOMAIN data |-> data[i].gb]) = SumFunctionOnSet(given, counted)
  BY <1>1, FilledTotal
<1> QED BY <1>2 DEF TotalCountsPeriod, data, given

\* Points picked from others that go as high and as low have the same extremes.
LEMMA ExtremesKept ==
    ASSUME NEW data, Line(data), NEW e, PickedFrom(e, data, 1, Len(data)), Len(e) >= 1,
           Spans(e, data, 1, Len(data))
    PROVE  Max(Volumes(e)) = Max(Volumes(data)) /\ Min(Volumes(e)) = Min(Volumes(data))
<1> DEFINE S == Volumes(e)
           T == Volumes(data)
<1>0. \A s \in Seq(Dot) : /\ Len(s) \in Nat /\ DOMAIN s = 1..Len(s)
                         /\ \A i \in 1..Len(s) : s[i] \in Dot
  OBVIOUS
<1>0a. /\ data \in Seq(Dot) /\ e \in Seq(Dot)
       /\ \A i \in 1..Len(e) : \E j \in 1..Len(data) : e[i] = data[j]
  BY DEF PickedFrom, Line
<1>0b. \A x \in Dot : x.gb \in 0..Most
  BY DEF Dot, Volume
<1>1. /\ DOMAIN e = 1..Len(e) /\ DOMAIN data = 1..Len(data) /\ Len(e) \in Nat
      /\ \A i \in 1..Len(data) : data[i].gb \in 0..Most
  BY <1>0, <1>0a, <1>0b
<1>2. S \subseteq T /\ T \subseteq 0..Most /\ Most \in Nat
  <2>1. T \subseteq 0..Most /\ Most \in Nat
    BY <1>1, Constants DEF Volumes
  <2>2. S \subseteq T
    BY <1>0a, <1>1, Zenon DEF Volumes
  <2> QED BY <2>1, <2>2
<1>3. S # {} /\ T # {}
  <2>1. 1 \in 1..Len(e)
    BY <1>1
  <2> QED BY <1>1, <1>2, <2>1 DEF Volumes
<1>4. \A t \in T : \E x, y \in S : x >= t /\ y <= t
  <2> SUFFICES ASSUME NEW k \in 1..Len(data)
               PROVE  \E x, y \in S : x >= data[k].gb /\ y <= data[k].gb
    BY <1>1 DEF Volumes
  <2>1. PICK i, j \in 1..Len(e) : e[i].gb >= data[k].gb /\ e[j].gb <= data[k].gb
    BY DEF Spans
  <2>2. e[i].gb \in S /\ e[j].gb \in S
    BY <1>1 DEF Volumes
  <2> QED BY <2>1, <2>2
<1> HIDE DEF S, T
<1>5. S \in SUBSET (0..Most) /\ T \in SUBSET (0..Most) /\ S \in SUBSET Nat /\ T \in SUBSET Nat
  BY <1>2
<1>6. /\ Max(S) \in S /\ \A y \in S : y <= Max(S)
      /\ Max(T) \in T /\ \A y \in T : y <= Max(T)
  BY <1>2, <1>3, <1>5, MaxFacts
<1>7. /\ Min(S) \in S /\ \A y \in S : Min(S) <= y
      /\ Min(T) \in T /\ \A y \in T : Min(T) <= y
  BY <1>3, <1>5, MinFacts
<1>8. \A m : m \in S \/ m \in T => m \in Int
  <2>1. \A m \in 0..Most : m \in Int
    BY Constants
  <2> QED BY <1>5, <2>1, Zenon
<1>9. Max(S) = Max(T)
  <2>0. Max(T) \in T
    BY <1>6
  <2>1. PICK x \in S : x >= Max(T)
    BY <1>4, <2>0, Zenon
  <2>2. x <= Max(S) /\ Max(S) <= Max(T)
    BY <1>2, <1>6
  <2>3. x \in Int /\ Max(S) \in Int /\ Max(T) \in Int
    BY <1>6, <1>8, Zenon
  <2> QED BY <2>1, <2>2, <2>3
<1>10. Min(S) = Min(T)
  <2>0. Min(T) \in T
    BY <1>7
  <2>1. PICK x \in S : x <= Min(T)
    BY <1>4, <2>0, Zenon
  <2>2. Min(S) <= x /\ Min(T) <= Min(S)
    BY <1>2, <1>7
  <2>3. x \in Int /\ Min(S) \in Int /\ Min(T) \in Int
    BY <1>7, <1>8, Zenon
  <2> QED BY <2>1, <2>2, <2>3
<1> QED BY <1>9, <1>10 DEF S, T

LEMMA PeaksAreKept == ChartInv => PeaksKept
<1> SUFFICES ASSUME ChartInv, View = "chart", PointBudget(width) % 2 = 0 PROVE PeaksKept
  BY DEF PeaksKept, ChartDrawn
<1> DEFINE budget == PointBudget(width)
           data == series.data
           thin == Downsample(data, budget)
<1>1. data # <<>> /\ Line(data) /\ width \in Nat
  BY DrawnRows, ChartConstants
<1>2. budget \in Nat /\ budget >= 3
  BY <1>1, BudgetOfWidth
<1>3. budget % 2 = 0
  OBVIOUS
<1> HIDE DEF budget, data
<1>4. /\ PickedFrom(thin, data, 1, Len(data)) /\ Len(thin) >= 1
      /\ Spans(thin, data, 1, Len(data)) /\ Len(thin) <= budget
  BY <1>1, <1>2, <1>3, Downsampled
<1> HIDE DEF thin
<1>5. Max(Volumes(thin)) = Max(Volumes(data)) /\ Min(Volumes(thin)) = Min(Volumes(data))
  BY <1>1, <1>4, ExtremesKept
<1>6. Len(thin) <= Larger(budget, 2)
  BY <1>2, <1>4 DEF Larger
<1> QED BY <1>5, <1>6 DEF PeaksKept, thin, data, budget

\* What is drawn is nothing, or enough for the axis.
LEMMA PeakDrawn ==
    ASSUME ChartInv, View = "chart"
    PROVE  LET peak == Peak(Points)
           IN peak \in 0..Most /\ (peak > 0 => peak >= Least \div 3)
<1> DEFINE data == series.data
           thin == Downsample(data, PointBudget(width))
           line == ChartData(data, width)
           V == Volumes(line) \cup {0}
<1>1. /\ data # <<>> /\ Line(data) /\ width \in Widths
      /\ \A i \in 1..Len(data) : data[i].gb = 0 \/ data[i].gb \in Least..Most
  BY DrawnRows
<1> HIDE DEF data
<1>2. /\ PickedFrom(thin, data, 1, Len(data)) /\ Line(line) /\ Len(line) = Len(thin)
      /\ \A i \in 1..Len(thin) : thin[i].gb >= Least => line[i].gb >= Least \div 3
      /\ (\A i \in 1..Len(thin) : thin[i].gb = 0) => \A i \in 1..Len(thin) : line[i].gb = 0
  BY <1>1, ChartLine
<1> HIDE DEF thin, line
<1>3. DOMAIN line = 1..Len(line) /\ \A i \in 1..Len(line) : line[i].gb \in 0..Most
  <2>1. \A x \in Dot : x.gb \in 0..Most
    BY DEF Dot, Volume
  <2>2. line \in Seq(Dot)
    BY <1>2 DEF Line
  <2> QED BY <2>1, <2>2
<1>4. V \in SUBSET (0..Most) /\ V # {} /\ Most \in Nat
  BY <1>3, Constants DEF Volumes
<1>5. \A i \in 1..Len(line) : line[i].gb \in V
  BY <1>3 DEF Volumes
<1>6. \A v \in V : v = 0 \/ \E i \in 1..Len(line) : v = line[i].gb
  BY <1>3 DEF Volumes
<1> HIDE DEF V
<1>7. Max(V) \in V /\ \A y \in V : y <= Max(V)
  BY <1>4, MaxFacts
<1>8. ASSUME Max(V) > 0 PROVE Max(V) >= Least \div 3
  <2>1. Max(V) \in Int
    <3>1. \A S \in SUBSET (0..Most) : \A m \in S : m \in Int
      BY Constants
    <3> QED BY <1>4, <1>7, <3>1, Zenon
  <2>2. ~ \A i \in 1..Len(thin) : line[i].gb = 0
    BY <1>2, <1>6, <1>7, <1>8, <2>1
  <2>3. PICK i \in 1..Len(thin) : thin[i].gb # 0
    BY <1>2, <2>2
  <2>4. thin[i].gb \in Least..Most
    BY <1>1, <1>2, <2>3 DEF PickedFrom
  <2>5. line[i].gb >= Least \div 3 /\ line[i].gb <= Max(V) /\ line[i].gb \in Int
    BY <1>2, <1>3, <1>5, <1>7, <2>4, Constants
  <2>6. Least \div 3 \in Int
    BY Constants
  <2> QED BY <2>1, <2>5, <2>6
<1>9. Peak(Points) = Max(V)
  BY DEF Peak, Points, V, line, data
<1> QED BY <1>4, <1>7, <1>8, <1>9

LEMMA AxesFit == ChartInv => AxisFits
<1> SUFFICES ASSUME ChartInv, View = "chart" PROVE AxisFits
  BY DEF AxisFits, ChartDrawn
<1> DEFINE peak == Peak(Points)
<1>1. peak \in 0..Most /\ (peak > 0 => peak >= Least \div 3)
  BY PeakDrawn
<1> HIDE DEF peak
<1>2. LET y == YScale(peak)
      IN /\ peak <= y.top /\ Cardinality(y.ticks) \in 3..TickCount
         /\ peak > 0 => y.top < 2 * peak
         /\ y.top >= Milli =>
               \A t \in y.ticks : Rise(t, y.top, Height) = TickRise(t, y.top, Height)
  BY <1>1, AxisOfPeak
<1>3. XTicks(series.data, width) # {}
  BY AxisOfTime
<1> QED BY <1>2, <1>3 DEF AxisFits, peak

LEMMA AimedNearest ==
    ASSUME NEW f, Sketch(f)
    PROVE  LET c == Closest(f.points, f.w, Aimed(f))
           IN /\ c \in 1..Len(f.points)
              /\ \A i \in DOMAIN f.points : Distance(X(f.points, f.w, c), Aimed(f))
                                               <= Distance(X(f.points, f.w, i), Aimed(f))
<1> DEFINE data == f.points
           n == Len(data)
           w == f.w
           x == Aimed(f)
<1>1. Line(data) /\ data # <<>> /\ w \in Nat
  BY ChartConstants DEF Sketch
<1>2. n \in Nat \ {0} /\ DOMAIN data = 1..n /\ \A i \in 1..n : data[i].ts \in Int
  <2>1. \A p \in Dot : p.ts \in Int
    BY DEF Dot
  <2>2. data \in Seq(Dot) /\ data # <<>>
    BY <1>1 DEF Line
  <2> HIDE DEF data
  <2> QED BY <2>1, <2>2
<1>3. Head(data) = data[1] /\ Last(data) = data[n]
  BY <1>1 DEF Last, Line
<1>4. x \in Int
  <2>1. \A a, b \in Int : Larger(1, a - b) \in Int
    BY DEF Larger
  <2>2. data[1].ts \in Int /\ data[n].ts \in Int
    BY <1>2
  <2>3. Span(data) \in Int
    BY <1>3, <2>1, <2>2 DEF Span
  <2>4. f.x \in Int
    BY ChartConstants DEF Sketch
  <2>5. x = f.x * Span(data)
    BY DEF Aimed
  <2> QED BY <2>3, <2>4, <2>5
<1> HIDE DEF data, w, x
<1>5. /\ Closest(data, w, x) \in 1..Len(data)
      /\ \A i \in 1..Len(data) :
            Distance(X(data, w, Closest(data, w, x)), x) <= Distance(X(data, w, i), x)
  BY <1>1, <1>4, ClosestIsNearest
<1> QED BY <1>2, <1>5 DEF data, w, x

LEMMA HoverFindsNearest == ChartInv => HoverIsNearest
<1> SUFFICES ASSUME ChartInv, hovered # NoChart, aim.w = width PROVE HoverIsNearest
  BY DEF HoverIsNearest
<1>1. Sketch(aim) /\ hovered = Closest(aim.points, aim.w, Aimed(aim))
  BY DEF ChartInv, PointerOver
<1>2. \A i \in DOMAIN aim.points : Distance(X(aim.points, aim.w, hovered), Aimed(aim))
                                      <= Distance(X(aim.points, aim.w, i), Aimed(aim))
  BY <1>1, AimedNearest
<1> QED BY <1>2 DEF HoverIsNearest

LEMMA HoveredType == ChartInv => hovered \in Nat \cup {NoChart}
<1> SUFFICES ASSUME ChartInv, aim # NoChart PROVE hovered \in Nat
  BY DEF ChartInv, PointerOver
<1>1. Sketch(aim) /\ hovered = Closest(aim.points, aim.w, Aimed(aim))
  BY DEF ChartInv, PointerOver
<1>2. hovered \in 1..Len(aim.points)
  BY <1>1, AimedNearest
<1>3. \A m, i : i \in 1..m => i \in Nat
  OBVIOUS
<1> QED BY <1>2, <1>3, Zenon

LEMMA TicksStandUnderLine == ChartInv => TicksUnderLine
<1> SUFFICES ASSUME ChartInv, View = "chart" PROVE TicksUnderLine
  BY DEF TicksUnderLine, ChartDrawn
<1> DEFINE data == series.data
           thin == Downsample(data, PointBudget(width))
           line == ChartData(data, width)
<1>1. data # <<>> /\ Line(data) /\ width \in Widths
  BY DrawnRows
<1> HIDE DEF data
<1>2. /\ thin[1] = data[1] /\ Len(thin) >= 1 /\ Line(line) /\ Len(line) = Len(thin) /\ line # <<>>
      /\ \A i \in 1..Len(thin) : line[i].ts = thin[i].ts
  BY <1>1, ChartLine
<1> HIDE DEF thin, line
<1>3. Head(line) = line[1] /\ Head(data) = data[1] /\ 1 \in 1..Len(thin)
  BY <1>1, <1>2 DEF Line
<1>4. Head(line).ts = Head(data).ts
  BY <1>2, <1>3
<1>5. \A t, i : line[i].ts = t => XTick(data, width, t) = X(line, width, i)
  BY <1>4 DEF XTick, X
<1>6. Points = line
  BY DEF Points, line, data
<1> QED BY <1>5, <1>6 DEF TicksUnderLine, data

LEMMA ChartTrue == ChartInv => ChartIsTrue
BY PeriodIsCounted, PeaksAreKept, AxesFit, HoverFindsNearest, TicksStandUnderLine DEF ChartIsTrue

=============================================================================
