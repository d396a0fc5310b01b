---------------------------- MODULE SignInProofs ----------------------------
(***************************************************************************)
(* What stands in front of an account: the limiter of requests and the     *)
(* failures counted against guessing, and the refresh tokens of those who  *)
(* came in.                                                                *)
(*                                                                         *)
(* Both halves of rate_limiter.py keep their caps, for any number of keys  *)
(* and any thresholds, whatever the cleanup takes away and when: the store of*)
(* the limiter never loses a request still inside the window, if the cleanup*)
(* remembers that long; an entry of the tracker that is not blocked has    *)
(* counted every recent failure, and a block began with the last of them.  *)
(*                                                                         *)
(* For any number of requests and tokens: whoever is about to exchange a   *)
(* token is alone on the event loop and holds its row, or the row is gone  *)
(* for good; whoever is about to delete an account keeps new tokens away.  *)
(***************************************************************************)
EXTENDS SlidingWindow, AuthFailures, RefreshTokens, TLAPS, FiniteSetTheorems, SequenceTheorems

-----------------------------------------------------------------------------
(* The clock, and sequences of times                                       *)

LEMMA ClockKept ==
    ASSUME ClockType,
           \/ SweepStart \/ SweepOver \/ Tick \/ UNCHANGED <<now, sweep>>
    PROVE  ClockType' /\ now \in Nat /\ now' \in Nat /\ now' >= now
<1>1. now \in Nat /\ sweep \in {Absent} \cup 0..now /\ now <= MaxTime
  BY ClockAssumption DEF ClockType
<1>2. CASE Tick
  <2>1. now' = now + 1 /\ now' <= MaxTime /\ sweep' = sweep
    BY <1>1, <1>2, ClockAssumption DEF Tick
  <2>2. sweep' \in {Absent} \cup 0..now'
    BY <1>1, <2>1
  <2> QED BY <1>1, <2>1, <2>2, ClockAssumption DEF ClockType
<1>3. CASE ~Tick
  <2>1. now' = now /\ sweep' \in {sweep, now, Absent}
    BY <1>3 DEF SweepStart, SweepOver
  <2>2. sweep' \in {Absent} \cup 0..now'
    BY <1>1, <2>1
  <2> QED BY <1>1, <2>1, <2>2, ClockAssumption DEF ClockType
<1> QED BY <1>2, <1>3

\* A time span sees finitely many of the times.
LEMMA WithinFinite ==
    ASSUME NEW times \in Seq(Nat), NEW span \in Nat, NEW at \in Nat
    PROVE  /\ Len(times) \in Nat /\ \A i \in 1..Len(times) : times[i] \in Nat
           /\ Within(times, span, at) \subseteq 1..Len(times)
           /\ IsFiniteSet(Within(times, span, at))
           /\ Cardinality(Within(times, span, at)) \in Nat
<1>1. Len(times) \in Nat /\ \A i \in 1..Len(times) : times[i] \in Nat
  BY ElementOfSeq
<1>2. Within(times, span, at) \subseteq 1..Len(times) /\ IsFiniteSet(1..Len(times))
  BY <1>1, FS_Interval DEF Within
<1> QED BY <1>1, <1>2, FS_Subset, FS_CardinalityType

\* Fewer of them, when time goes on.
LEMMA WithinShrinks ==
    ASSUME NEW times \in Seq(Nat), NEW span \in Nat, NEW at \in Nat, NEW later \in Nat, at <= later
    PROVE  /\ Within(times, span, later) \subseteq Within(times, span, at)
           /\ Cardinality(Within(times, span, later)) <= Cardinality(Within(times, span, at))
<1>1. Within(times, span, later) \subseteq Within(times, span, at)
  BY WithinFinite DEF Within
<1> QED BY <1>1, WithinFinite, FS_Subset

\* At most one more, when the present is added.
LEMMA WithinAppend ==
    ASSUME NEW times \in Seq(Nat), NEW span \in Nat, NEW at \in Nat
    PROVE  LET more == Append(times, at) IN
           /\ more \in Seq(Nat) /\ Len(more) = Len(times) + 1 /\ more[Len(times) + 1] = at
           /\ \A i \in 1..Len(times) : more[i] = times[i]
           /\ 1..Len(more) = 1..Len(times) \cup {Len(times) + 1}
           /\ Within(more, span, at) \subseteq Within(times, span, at) \cup {Len(times) + 1}
           /\ Cardinality(Within(more, span, at)) <= Cardinality(Within(times, span, at)) + 1
<1> DEFINE n == Len(times)
           more == Append(times, at)
           R == Within(times, span, at)
           S == Within(more, span, at)
<1>1. /\ n \in Nat /\ more \in Seq(Nat) /\ Len(more) = n + 1 /\ more[n + 1] = at
      /\ \A i \in 1..n : more[i] = times[i]
  BY AppendProperties
<1> HIDE DEF n, more
<1>2. 1..Len(more) = 1..n \cup {n + 1}
  BY <1>1
<1>3. S \subseteq R \cup {n + 1}
  BY <1>1, <1>2 DEF Within, n
<1>4. IsFiniteSet(R) /\ Cardinality(R) \in Nat
  BY WithinFinite
<1> HIDE DEF R, S
<1>5. /\ IsFiniteSet(R \cup {n + 1})
      /\ Cardinality(R \cup {n + 1}) \in {Cardinality(R), Cardinality(R) + 1}
  BY <1>4, FS_AddElement
<1>6. Cardinality(S) <= Cardinality(R \cup {n + 1}) /\ Cardinality(S) \in Nat
  BY <1>3, <1>5, FS_Subset, FS_CardinalityType
<1>7. Cardinality(S) <= Cardinality(R) + 1
  BY <1>4, <1>5, <1>6
<1> QED BY <1>1, <1>2, <1>3, <1>7 DEF n, more, R, S

\* None, when all are older.
LEMMA WithinNothing ==
    ASSUME NEW times \in Seq(Nat), NEW span \in Nat, NEW at \in Nat,
           \A i \in 1..Len(times) : times[i] <= at - span
    PROVE  Within(times, span, at) = {} /\ Cardinality(Within(times, span, at)) = 0
<1>1. Within(times, span, at) = {}
  BY WithinFinite DEF Within
<1> QED BY <1>1, FS_EmptySet

LEMMA EmptyTimes == ASSUME NEW span, NEW at
                    PROVE  /\ <<>> \in Seq(Nat) /\ Within(<<>>, span, at) = {}
                           /\ Cardinality(Within(<<>>, span, at)) = 0
<1>1. <<>> \in Seq(Nat) /\ Within(<<>>, span, at) = {}
  BY DEF Within
<1> QED BY <1>1, FS_EmptySet

-----------------------------------------------------------------------------
(* The request limiter                                                     *)

\* What config.py does not check: the cleanup remembers a window's requests.
Remembered == Window <= TTL /\ Window <= Horizon

\* Times do not lie ahead, and an entry was last seen after all its requests.
Ordered(k) ==
    /\ \A i \in 1..Len(admitted[k]) : admitted[k][i] <= now
    /\ called[k] # Absent => \A i \in 1..Len(admitted[k]) : admitted[k][i] <= called[k]

\* The entry holds admitted requests, all of the recent ones among them.
Complete(k) == kept[k] \subseteq 1..Len(admitted[k]) /\ InWindow(k) \subseteq kept[k]

WindowInv == WindowTypeOK /\ CapHolds /\ \A k \in Keys : Ordered(k) /\ Complete(k)

\* One step of the limiter is one of the clock.
LEMMA WindowClock ==
    ASSUME ClockType, [WindowNext]_limiter
    PROVE  ClockType' /\ now \in Nat /\ now' \in Nat /\ now' >= now
<1>1. SweepStart \/ SweepOver \/ Tick \/ UNCHANGED <<now, sweep>>
  BY DEF WindowNext, limiter, Admit, Refuse, SweepRequests
<1> QED BY <1>1, ClockKept

LEMMA WindowTypesStep == WindowTypeOK /\ [WindowNext]_limiter => WindowTypeOK'
<1> SUFFICES ASSUME WindowTypeOK, [WindowNext]_limiter PROVE WindowTypeOK'
  OBVIOUS
<1>0. ClockType' /\ now \in Nat
  BY WindowClock DEF WindowTypeOK
<1>1. ASSUME NEW k \in Keys, Admit(k) PROVE WindowTypeOK'
  <2>1. admitted[k] \in Seq(Nat)
    BY DEF WindowTypeOK
  <2>2. Append(admitted[k], now) \in Seq(Nat) /\ Len(admitted[k]) + 1 \in Nat \ {0}
    BY <1>0, <2>1
  <2>3. Fresh(k) \cup {Len(admitted[k]) + 1} \in SUBSET (Nat \ {0})
    BY <2>2 DEF Fresh, WindowTypeOK
  <2> QED BY <1>0, <1>1, <2>2, <2>3 DEF Admit, WindowTypeOK
<1>2. ASSUME NEW k \in Keys, Refuse(k) PROVE WindowTypeOK'
  BY <1>0, <1>2 DEF Refuse, Fresh, WindowTypeOK
<1>3. CASE SweepRequests
  <2>1. kept' \in [Keys -> SUBSET (Nat \ {0})]
    BY <1>3 DEF SweepRequests, WindowTypeOK
  <2> QED BY <1>0, <1>3, <2>1 DEF SweepRequests, WindowTypeOK
<1>4. CASE UNCHANGED requests
  BY <1>0, <1>4 DEF requests, WindowTypeOK
<1> QED BY <1>1, <1>2, <1>3, <1>4 DEF WindowNext, limiter

\* WindowTypeOK: every variable of SlidingWindow keeps its type.
THEOREM WindowTypes == WindowSpec => []WindowTypeOK
<1>1. WindowInit => WindowTypeOK
  BY EmptyTimes, ClockAssumption DEF WindowInit, ClockInit, WindowTypeOK, ClockType
<1> QED BY <1>1, WindowTypesStep, PTL DEF WindowSpec

\* The counted requests are those of the window.
LEMMA FreshIsRecent ==
    ASSUME WindowInv, NEW k \in Keys
    PROVE  /\ Fresh(k) = InWindow(k) /\ admitted[k] \in Seq(Nat) /\ Len(admitted[k]) \in Nat
           /\ \A i \in 1..Len(admitted[k]) : admitted[k][i] \in Nat
           /\ Cardinality(InWindow(k)) \in Nat /\ Cardinality(InWindow(k)) <= Limit
<1>1. Fresh(k) = InWindow(k)
  BY DEF WindowInv, Complete, Fresh, InWindow, Within
<1>2. admitted[k] \in Seq(Nat) /\ now \in Nat
  BY ClockAssumption DEF WindowInv, WindowTypeOK, ClockType
<1> QED BY <1>1, <1>2, WithinFinite, LimiterAssumption DEF InWindow, WindowInv, CapHolds

\* A key whose entry and history a step leaves alone.
LEMMA RequestsKept ==
    ASSUME WindowInv, NEW k \in Keys, now \in Nat, now' \in Nat, now' >= now,
           admitted'[k] = admitted[k], kept'[k] = kept[k], called'[k] = called[k]
    PROVE  Ordered(k)' /\ Complete(k)' /\ Cardinality(InWindow(k)') <= Limit
<1>1. Ordered(k) /\ Complete(k)
  BY DEF WindowInv
<1>2. /\ InWindow(k)' \subseteq InWindow(k)
      /\ Cardinality(InWindow(k)') <= Cardinality(InWindow(k))
      /\ Cardinality(InWindow(k)') \in Nat
  BY FreshIsRecent, WithinShrinks, WithinFinite, LimiterAssumption DEF InWindow
<1>3. Ordered(k)'
  BY <1>1, FreshIsRecent DEF Ordered
<1> QED BY <1>1, <1>2, <1>3, FreshIsRecent, LimiterAssumption DEF Complete

\* Admit: one request more, and there was room for it.
LEMMA AdmitKeeps ==
    ASSUME WindowInv, NEW k \in Keys, now \in Nat, Admit(k)
    PROVE  Ordered(k)' /\ Complete(k)' /\ Cardinality(InWindow(k)') <= Limit
<1> DEFINE n == Len(admitted[k])
<1>1. /\ n \in Nat /\ admitted[k] \in Seq(Nat)
      /\ \A i \in 1..n : admitted[k][i] \in Nat /\ admitted[k][i] <= now
  BY FreshIsRecent DEF WindowInv, Ordered
<1>2. /\ admitted'[k] = Append(admitted[k], now)
      /\ kept'[k] = Fresh(k) \cup {n + 1} /\ called'[k] = now /\ now' = now
  BY DEF Admit, WindowInv, WindowTypeOK
<1>3. /\ Len(admitted'[k]) = n + 1 /\ admitted'[k][n + 1] = now
      /\ \A i \in 1..n : admitted'[k][i] = admitted[k][i]
      /\ 1..(n + 1) = 1..n \cup {n + 1}
      /\ InWindow(k)' \subseteq InWindow(k) \cup {n + 1}
      /\ Cardinality(InWindow(k)') <= Cardinality(InWindow(k)) + 1
  BY <1>1, <1>2, WithinAppend, LimiterAssumption DEF InWindow
<1>4. Ordered(k)'
  BY <1>1, <1>2, <1>3 DEF Ordered
<1>5. Complete(k)'
  <2>1. kept'[k] \subseteq 1..(n + 1)
    BY <1>2, <1>3, FreshIsRecent DEF InWindow, Within
  <2> QED BY <1>2, <1>3, <2>1, FreshIsRecent DEF Complete
<1>6. Cardinality(InWindow(k)') <= Limit
  <2>1. Cardinality(InWindow(k)) < Limit /\ Cardinality(InWindow(k)) \in Nat
    BY FreshIsRecent DEF Admit
  <2>2. Cardinality(InWindow(k)') \in Nat
    BY <1>1, <1>2, WithinAppend, WithinFinite, LimiterAssumption DEF InWindow
  <2> QED BY <1>3, <2>1, <2>2, LimiterAssumption
<1> QED BY <1>4, <1>5, <1>6

\* SweepRequests: what it takes away is out of the window, for good.
LEMMA SweepKeeps ==
    ASSUME Remembered, WindowInv, NEW k \in Keys, now \in Nat, SweepRequests
    PROVE  Ordered(k)' /\ Complete(k)' /\ Cardinality(InWindow(k)') <= Limit
<1>1. sweep \in Nat /\ sweep <= now /\ TTL \in Nat
  BY ClockAssumption DEF SweepRequests, SweepOver, WindowInv, WindowTypeOK, ClockType
<1>2. /\ admitted' = admitted /\ now' = now /\ Ordered(k) /\ Complete(k)
      /\ InWindow(k)' = InWindow(k)
  BY DEF SweepRequests, SweepOver, WindowInv, InWindow
<1>3. CASE Quiet(k)
  <2>1. called[k] < sweep - TTL /\ called[k] \in Nat /\ kept'[k] = {} /\ called'[k] = Absent
    BY <1>3 DEF Quiet, SweepRequests, WindowInv, WindowTypeOK
  <2>2. \A i \in 1..Len(admitted[k]) : admitted[k][i] <= now - Window
    <3>1. \A i \in 1..Len(admitted[k]) : admitted[k][i] <= called[k] /\ admitted[k][i] \in Nat
      BY <1>2, <1>3, FreshIsRecent DEF Ordered, Quiet
    <3> QED BY <1>1, <2>1, <3>1, LimiterAssumption DEF Remembered
  <2>3. InWindow(k) = {}
    BY <2>2, FreshIsRecent, WithinNothing, LimiterAssumption DEF InWindow
  <2> QED BY <1>2, <2>1, <2>3, FreshIsRecent DEF Ordered, Complete
<1>4. CASE ~Quiet(k)
  <2>1. kept'[k] = {i \in kept[k] : admitted[k][i] > sweep - Horizon} /\ called'[k] = called[k]
    BY <1>4 DEF SweepRequests, WindowInv, WindowTypeOK
  <2>2. ASSUME NEW i \in InWindow(k) PROVE admitted[k][i] > sweep - Horizon
    <3>1. i \in 1..Len(admitted[k]) /\ admitted[k][i] > now - Window
      BY DEF InWindow, Within
    <3>2. admitted[k][i] \in Nat
      BY <3>1, FreshIsRecent
    <3> QED BY <1>1, <3>1, <3>2, LimiterAssumption DEF Remembered
  <2> QED BY <1>2, <2>1, <2>2, FreshIsRecent DEF Ordered, Complete
<1> QED BY <1>3, <1>4

\* WindowInv is an inductive invariant.
THEOREM WindowInvariance == ASSUME Remembered PROVE WindowSpec => []WindowInv
<1>1. WindowInit => WindowInv
  <2> SUFFICES ASSUME WindowInit PROVE WindowInv
    OBVIOUS
  <2>1. WindowTypeOK
    BY EmptyTimes, ClockAssumption DEF WindowInit, ClockInit, WindowTypeOK, ClockType
  <2>2. ASSUME NEW k \in Keys
        PROVE  Ordered(k) /\ Complete(k) /\ Cardinality(InWindow(k)) <= Limit
    <3>1. admitted[k] = <<>> /\ kept[k] = {}
      BY DEF WindowInit
    <3> QED BY <3>1, EmptyTimes, LimiterAssumption DEF Ordered, Complete, InWindow
  <2> QED BY <2>1, <2>2 DEF WindowInv, CapHolds
<1>2. WindowInv /\ [WindowNext]_limiter => WindowInv'
  <2> SUFFICES ASSUME WindowInv, [WindowNext]_limiter PROVE WindowInv'
    OBVIOUS
  <2>1. WindowTypeOK' /\ now \in Nat /\ now' \in Nat /\ now' >= now
    BY WindowTypesStep, WindowClock DEF WindowInv, WindowTypeOK
  <2>2. ASSUME NEW k \in Keys
        PROVE  Ordered(k)' /\ Complete(k)' /\ Cardinality(InWindow(k)') <= Limit
    <3>1. CASE Admit(k)
      BY <2>1, <3>1, AdmitKeeps
    <3>2. CASE Refuse(k)
      <4>1. /\ admitted' = admitted /\ kept'[k] = InWindow(k) /\ called'[k] = now /\ now' = now
            /\ InWindow(k)' = InWindow(k) /\ Ordered(k)
        BY <3>2, FreshIsRecent DEF Refuse, WindowInv, WindowTypeOK, InWindow
      <4> QED BY <4>1, FreshIsRecent DEF Ordered, Complete, InWindow, Within
    <3>3. CASE SweepRequests
      BY <2>1, <3>3, SweepKeeps
    <3>4. ASSUME NEW j \in Keys, j # k, Admit(j) \/ Refuse(j)
          PROVE  Ordered(k)' /\ Complete(k)' /\ Cardinality(InWindow(k)') <= Limit
      <4>1. admitted'[k] = admitted[k] /\ kept'[k] = kept[k] /\ called'[k] = called[k]
        BY <3>4 DEF Admit, Refuse, WindowInv, WindowTypeOK
      <4> QED BY <2>1, <4>1, RequestsKept
    <3>5. CASE UNCHANGED requests
      BY <2>1, <3>5, RequestsKept DEF requests
    <3> QED BY <3>1, <3>2, <3>3, <3>4, <3>5 DEF WindowNext, limiter
  <2> QED BY <2>1, <2>2 DEF WindowInv, CapHolds
<1> QED BY <1>1, <1>2, PTL DEF WindowSpec

\* CapHolds: no window of a key ever has more than Limit admitted requests,
\* provided the cleanup remembers as long as a window lasts.
THEOREM WindowCap == ASSUME Remembered PROVE WindowSpec => []CapHolds
BY WindowInvariance, PTL DEF WindowInv

\* NoneRefusedEarly: a refused request really is one too many.
THEOREM RefusalsJustified == ASSUME Remembered PROVE WindowSpec => NoneRefusedEarly
<1>1. WindowInv => \A k \in Keys : Refuse(k) => Cardinality(InWindow(k)) >= Limit
  BY FreshIsRecent DEF Refuse
<1> QED BY <1>1, WindowInvariance, PTL DEF NoneRefusedEarly

-----------------------------------------------------------------------------
(* The failure tracker                                                     *)

\* Failures do not lie ahead and have all been counted or fallen out of Block.
Counted(k) ==
    /\ \A i \in 1..Len(wrong[k]) : wrong[k][i] <= now
    /\ seen[k] # Absent => \A i \in 1..Len(wrong[k]) : wrong[k][i] <= seen[k]
    /\ until[k] # Absent => \A i \in 1..Len(wrong[k]) : wrong[k][i] <= until[k] - Block
    /\ until[k] = Absent => fails[k] < MaxFailures /\ Cardinality(Recent(k)) <= fails[k]
    /\ fails[k] <= Len(wrong[k])
    /\ until[k] # Absent => Len(wrong[k]) >= MaxFailures
    /\ attempt = k => until[k] = Absent

TrackerInv == TrackerTypeOK /\ GuessCap /\ \A k \in Keys : Counted(k)

LEMMA TrackerClock ==
    ASSUME ClockType, [TrackerNext]_tracker
    PROVE  ClockType' /\ now \in Nat /\ now' \in Nat /\ now' >= now
<1>1. SweepStart \/ SweepOver \/ Tick \/ UNCHANGED <<now, sweep>>
  BY DEF TrackerNext, tracker, Ask, Fail, Succeed, Dismiss, SweepEntries
<1> QED BY <1>1, ClockKept

LEMMA TrackerTypesStep == TrackerTypeOK /\ [TrackerNext]_tracker => TrackerTypeOK'
<1> SUFFICES ASSUME TrackerTypeOK, [TrackerNext]_tracker PROVE TrackerTypeOK'
  OBVIOUS
<1>0. ClockType' /\ now \in Nat
  BY TrackerClock DEF TrackerTypeOK
<1>1. ASSUME NEW K \in SUBSET Keys, Forget(K)
      PROVE  /\ fails' \in [Keys -> Nat]
             /\ until' \in [Keys -> {Absent} \cup Nat]
             /\ seen' \in [Keys -> {Absent} \cup Nat]
  BY <1>1 DEF Forget, TrackerTypeOK
<1>2. ASSUME NEW k \in Keys, Ask(k) PROVE TrackerTypeOK'
  BY <1>0, <1>1, <1>2 DEF Ask, TrackerTypeOK
<1>3. ASSUME NEW k \in Keys, Fail(k) PROVE TrackerTypeOK'
  <2>1. wrong[k] \in Seq(Nat)
    BY DEF TrackerTypeOK
  <2>2. Append(wrong[k], now) \in Seq(Nat)
    BY <1>0, <2>1, AppendProperties
  <2>3. wrong' \in [Keys -> Seq(Nat)]
    BY <1>3, <2>2 DEF Fail, TrackerTypeOK
  <2>4. CASE Blocked(k)
    BY <1>0, <1>3, <2>3, <2>4 DEF Fail, entries, TrackerTypeOK
  <2>5. CASE ~Blocked(k)
    <3> DEFINE n == IF Expired(k) THEN 1 ELSE fails[k] + 1
    <3>1. n \in Nat /\ now + Block \in Nat
      BY <1>0, TrackerAssumption DEF TrackerTypeOK
    <3>2. /\ fails' = [fails EXCEPT ![k] = n]
          /\ until' = [until EXCEPT ![k] = IF n >= MaxFailures THEN now + Block ELSE Absent]
          /\ seen' = [seen EXCEPT ![k] = now]
      BY <1>3, <2>5 DEF Fail
    <3> HIDE DEF n
    <3> QED BY <1>0, <1>3, <2>3, <3>1, <3>2 DEF Fail, TrackerTypeOK
  <2> QED BY <2>4, <2>5
<1>4. ASSUME NEW k \in Keys, Succeed(k) PROVE TrackerTypeOK'
  <2>1. wrong' \in [Keys -> Seq(Nat)]
    BY <1>4, EmptyTimes DEF Succeed, TrackerTypeOK
  <2> QED BY <1>0, <1>1, <1>4, <2>1 DEF Succeed, TrackerTypeOK
<1>5. ASSUME NEW k \in Keys, Dismiss(k) PROVE TrackerTypeOK'
  BY <1>0, <1>5 DEF Dismiss, entries, TrackerTypeOK
<1>6. CASE SweepEntries
  BY <1>0, <1>1, <1>6 DEF SweepEntries, TrackerTypeOK
<1>7. CASE UNCHANGED <<entries, attempt, wrong>>
  BY <1>0, <1>7 DEF entries, TrackerTypeOK
<1> QED BY <1>2, <1>3, <1>4, <1>5, <1>6, <1>7 DEF TrackerNext, tracker

\* TrackerTypeOK: every variable of AuthFailures keeps its type.
THEOREM TrackerTypes == TrackerSpec => []TrackerTypeOK
<1>1. TrackerInit => TrackerTypeOK
  BY EmptyTimes, ClockAssumption DEF TrackerInit, ClockInit, TrackerTypeOK, ClockType
<1> QED BY <1>1, TrackerTypesStep, PTL DEF TrackerSpec

LEMMA TrackerFacts ==
    ASSUME TrackerInv, NEW k \in Keys
    PROVE  /\ now \in Nat /\ sweep \in {Absent} \cup Nat /\ sweep <= now
           /\ TTL \in Nat /\ Block \in Nat /\ MaxFailures \in Nat \ {0} /\ TTL >= Block
           /\ wrong[k] \in Seq(Nat) /\ Len(wrong[k]) \in Nat
           /\ \A i \in 1..Len(wrong[k]) : wrong[k][i] \in Nat
           /\ fails[k] \in Nat /\ until[k] \in {Absent} \cup Nat /\ seen[k] \in {Absent} \cup Nat
           /\ Counted(k)
           /\ Cardinality(Recent(k)) \in Nat /\ Cardinality(Recent(k)) <= MaxFailures
<1>1. now \in Nat /\ sweep \in {Absent} \cup Nat /\ sweep <= now
  BY ClockAssumption DEF TrackerInv, TrackerTypeOK, ClockType, Absent
<1>2. /\ wrong[k] \in Seq(Nat)
      /\ fails[k] \in Nat /\ until[k] \in {Absent} \cup Nat /\ seen[k] \in {Absent} \cup Nat
  BY DEF TrackerInv, TrackerTypeOK
<1>3. /\ Len(wrong[k]) \in Nat /\ \A i \in 1..Len(wrong[k]) : wrong[k][i] \in Nat
      /\ Cardinality(Recent(k)) \in Nat
  BY <1>1, <1>2, WithinFinite, TrackerAssumption DEF Recent
<1> QED BY <1>1, <1>2, <1>3, ClockAssumption, TrackerAssumption DEF TrackerInv, GuessCap

\* A key whose entry and history a step leaves alone.
LEMMA KeyKept ==
    ASSUME TrackerInv, NEW k \in Keys, now' \in Nat, now' >= now, wrong'[k] = wrong[k],
           fails'[k] = fails[k], until'[k] = until[k], seen'[k] = seen[k],
           attempt' = k => until[k] = Absent
    PROVE  Counted(k)' /\ Cardinality(Recent(k)') <= MaxFailures
<1>1. Cardinality(Recent(k)') <= Cardinality(Recent(k)) /\ Cardinality(Recent(k)') \in Nat
  BY TrackerFacts, WithinShrinks, WithinFinite DEF Recent
<1>2. /\ Counted(k) /\ Cardinality(Recent(k)) <= MaxFailures
      /\ Cardinality(Recent(k)) \in Nat /\ MaxFailures \in Nat /\ fails[k] \in Nat
  BY TrackerFacts
<1>3. \A i \in 1..Len(wrong'[k]) : wrong'[k][i] <= now'
  <2>1. now \in Nat /\ \A i \in 1..Len(wrong[k]) : wrong[k][i] \in Nat
    BY TrackerFacts
  <2>2. \A i \in 1..Len(wrong[k]) : wrong[k][i] <= now
    BY <1>2 DEF Counted
  <2> QED BY <2>1, <2>2
<1>4. until[k] = Absent =>
          fails[k] < MaxFailures /\ Cardinality(Recent(k)) <= fails[k]
  BY <1>2 DEF Counted
<1>5. until'[k] = Absent =>
          fails'[k] < MaxFailures /\ Cardinality(Recent(k)') <= fails'[k]
  BY <1>1, <1>2, <1>4
<1>6. /\ seen'[k] # Absent => \A i \in 1..Len(wrong'[k]) : wrong'[k][i] <= seen'[k]
      /\ until'[k] # Absent => \A i \in 1..Len(wrong'[k]) : wrong'[k][i] <= until'[k] - Block
      /\ fails'[k] <= Len(wrong'[k])
      /\ until'[k] # Absent => Len(wrong'[k]) >= MaxFailures
      /\ attempt' = k => until'[k] = Absent
  BY <1>2 DEF Counted
<1>7. Cardinality(Recent(k)') <= MaxFailures
  BY <1>1, <1>2
<1> QED BY <1>3, <1>5, <1>6, <1>7, Zenon DEF Counted

\* A key whose entry is dropped when all its failures are old.
LEMMA KeyForgotten ==
    ASSUME TrackerInv, NEW k \in Keys, wrong'[k] = wrong[k], now' = now,
           fails'[k] = 0, until'[k] = Absent, seen'[k] = Absent,
           \A i \in 1..Len(wrong[k]) : wrong[k][i] <= now - Block
    PROVE  Counted(k)' /\ Cardinality(Recent(k)') <= MaxFailures
<1>1. Recent(k)' = Recent(k) /\ Cardinality(Recent(k)) = 0
  BY TrackerFacts, WithinNothing DEF Recent
<1> QED BY <1>1, TrackerFacts DEF Counted

\* A wrong password: counted, and blocked when it is the last allowed.
LEMMA FailKeeps ==
    ASSUME TrackerInv, NEW k \in Keys, Fail(k)
    PROVE  Counted(k)' /\ Cardinality(Recent(k)') <= MaxFailures
<1> DEFINE n == Len(wrong[k])
           f == fails[k] + 1
<1>1. /\ n \in Nat /\ now \in Nat /\ fails[k] \in Nat /\ f \in Nat
      /\ MaxFailures \in Nat \ {0} /\ Block \in Nat
      /\ \A i \in 1..n : wrong[k][i] \in Nat
      /\ until[k] = Absent /\ fails[k] < MaxFailures /\ fails[k] <= n
      /\ Cardinality(Recent(k)) <= fails[k] /\ Cardinality(Recent(k)) \in Nat
      /\ \A i \in 1..n : wrong[k][i] <= now
  <2>1. /\ n \in Nat /\ now \in Nat /\ fails[k] \in Nat /\ MaxFailures \in Nat \ {0}
        /\ Block \in Nat /\ \A i \in 1..n : wrong[k][i] \in Nat
        /\ Cardinality(Recent(k)) \in Nat
    BY TrackerFacts
  <2>2. Counted(k)
    BY TrackerFacts
  <2>3. attempt = k
    BY DEF Fail
  <2> QED BY <2>1, <2>2, <2>3 DEF Counted
<1>2. /\ fails'[k] = f /\ seen'[k] = now /\ now' = now /\ attempt' # k
      /\ until'[k] = IF f >= MaxFailures THEN now + Block ELSE Absent
  BY <1>1, TrackerAssumption DEF Fail, Blocked, Expired, TrackerInv, TrackerTypeOK
<1>3. wrong[k] \in Seq(Nat) /\ wrong'[k] = Append(wrong[k], now)
  BY DEF Fail, TrackerInv, TrackerTypeOK
<1>4. /\ Len(wrong'[k]) = n + 1 /\ wrong'[k][n + 1] = now
      /\ \A i \in 1..n : wrong'[k][i] = wrong[k][i]
      /\ 1..(n + 1) = 1..n \cup {n + 1}
      /\ Cardinality(Recent(k)') <= Cardinality(Recent(k)) + 1
      /\ wrong'[k] \in Seq(Nat)
  <2>1. /\ Recent(k)' = Within(wrong'[k], Block, now)
        /\ Recent(k) = Within(wrong[k], Block, now)
    BY <1>2 DEF Recent
  <2> QED BY <1>1, <1>3, <2>1, WithinAppend
<1>5. Cardinality(Recent(k)') <= f
  <2>1. Cardinality(Recent(k)') \in Nat
    BY <1>1, <1>2, <1>4, WithinFinite DEF Recent
  <2> QED BY <1>1, <1>4, <2>1
<1>6. Cardinality(Recent(k)') \in Nat
  BY <1>1, <1>2, <1>4, WithinFinite DEF Recent
<1> HIDE DEF f, n
<1>7. \A i \in 1..(n + 1) : wrong'[k][i] <= now
  <2> SUFFICES ASSUME NEW i \in 1..(n + 1) PROVE wrong'[k][i] <= now
    OBVIOUS
  <2>1. CASE i \in 1..n
    BY <2>1, <1>1, <1>4
  <2>2. CASE i = n + 1
    BY <2>2, <1>1, <1>4
  <2> QED BY <2>1, <2>2, <1>4
<1>8. until'[k] # Absent => until'[k] - Block = now
  BY <1>1, <1>2
<1>9. f <= MaxFailures /\ f <= Len(wrong'[k])
  BY <1>1, <1>4 DEF f
<1>10. /\ until'[k] = Absent => f < MaxFailures
       /\ until'[k] # Absent => Len(wrong'[k]) >= MaxFailures
  BY <1>1, <1>2, <1>4, <1>9 DEF Absent
<1>11. /\ \A i \in 1..Len(wrong'[k]) : wrong'[k][i] <= now'
       /\ seen'[k] # Absent => \A i \in 1..Len(wrong'[k]) : wrong'[k][i] <= seen'[k]
       /\ until'[k] # Absent => \A i \in 1..Len(wrong'[k]) : wrong'[k][i] <= until'[k] - Block
  BY <1>2, <1>4, <1>7, <1>8
<1>12. /\ fails'[k] < MaxFailures \/ until'[k] # Absent
       /\ Cardinality(Recent(k)') <= fails'[k]
       /\ fails'[k] <= Len(wrong'[k])
  BY <1>2, <1>5, <1>9, <1>10
<1>13. Cardinality(Recent(k)') <= MaxFailures
  BY <1>1, <1>5, <1>6, <1>9
<1> QED BY <1>2, <1>10, <1>11, <1>12, <1>13, Zenon DEF Counted

\* A right password: entry and history are both emptied.
LEMMA SucceedKeeps ==
    ASSUME TrackerInv, NEW k \in Keys, Succeed(k)
    PROVE  Counted(k)' /\ Cardinality(Recent(k)') <= MaxFailures
<1>1. wrong'[k] = <<>> /\ fails'[k] = 0 /\ until'[k] = Absent /\ seen'[k] = Absent
  BY DEF Succeed, Forget, TrackerInv, TrackerTypeOK
<1>2. Cardinality(Recent(k)') = 0 /\ Len(wrong'[k]) = 0
  BY <1>1, EmptyTimes DEF Recent
<1> QED BY <1>1, <1>2, TrackerAssumption DEF Counted

\* A pass of the cleanup drops an entry TTL seconds after its last failure.
LEMMA StaleKeeps ==
    ASSUME TrackerInv, NEW k \in Keys, SweepEntries
    PROVE  Counted(k)' /\ Cardinality(Recent(k)') <= MaxFailures
<1>1. wrong' = wrong /\ now' = now /\ attempt' = attempt /\ sweep # Absent
  BY DEF SweepEntries, SweepOver
<1>2. CASE Stale(k)
  <2>1. fails'[k] = 0 /\ until'[k] = Absent /\ seen'[k] = Absent
    BY <1>2 DEF SweepEntries, Forget
  <2>2. seen[k] \in Nat /\ seen[k] < sweep - TTL /\ sweep \in Nat
    BY <1>1, <1>2, TrackerFacts DEF Stale
  <2>3. \A i \in 1..Len(wrong[k]) : wrong[k][i] <= now - Block
    <3>1. \A i \in 1..Len(wrong[k]) : wrong[k][i] <= seen[k]
      BY <1>2, TrackerFacts DEF Stale, Counted
    <3>2. /\ now \in Nat /\ sweep <= now /\ TTL \in Nat /\ Block \in Nat /\ TTL >= Block
          /\ \A i \in 1..Len(wrong[k]) : wrong[k][i] \in Nat
      BY TrackerFacts
    <3> QED BY <2>2, <3>1, <3>2
  <2> QED BY <1>1, <2>1, <2>3, KeyForgotten
<1>3. CASE ~Stale(k)
  <2>1. fails'[k] = fails[k] /\ until'[k] = until[k] /\ seen'[k] = seen[k]
    BY <1>3 DEF SweepEntries, Forget
  <2> QED BY <1>1, <2>1, TrackerFacts, KeyKept DEF Counted
<1> QED BY <1>2, <1>3

\* TrackerInv: the invariant behind both properties is inductive.
THEOREM TrackerInvariance == TrackerSpec => []TrackerInv
<1>1. TrackerInit => TrackerInv
  <2> SUFFICES ASSUME TrackerInit PROVE TrackerInv
    OBVIOUS
  <2>1. TrackerTypeOK
    BY EmptyTimes, ClockAssumption DEF TrackerInit, ClockInit, TrackerTypeOK, ClockType
  <2>2. ASSUME NEW k \in Keys PROVE Counted(k) /\ Cardinality(Recent(k)) <= MaxFailures
    <3>1. wrong[k] = <<>> /\ fails[k] = 0 /\ until[k] = Absent /\ seen[k] = Absent /\ attempt # k
      BY TrackerAssumption DEF TrackerInit
    <3>2. Cardinality(Recent(k)) = 0 /\ Len(wrong[k]) = 0
      BY <3>1, EmptyTimes DEF Recent
    <3> QED BY <3>1, <3>2, TrackerAssumption DEF Counted
  <2> QED BY <2>1, <2>2 DEF TrackerInv, GuessCap
<1>2. TrackerInv /\ [TrackerNext]_tracker => TrackerInv'
  <2> SUFFICES ASSUME TrackerInv, [TrackerNext]_tracker PROVE TrackerInv'
    OBVIOUS
  <2>1. TrackerTypeOK' /\ now \in Nat /\ now' \in Nat /\ now' >= now
    BY TrackerTypesStep, TrackerClock DEF TrackerInv, TrackerTypeOK
  <2>2. ASSUME NEW k \in Keys PROVE Counted(k)' /\ Cardinality(Recent(k)') <= MaxFailures
    <3>1. ASSUME NEW j \in Keys, Ask(j)
          PROVE  Counted(k)' /\ Cardinality(Recent(k)') <= MaxFailures
      <4>1. wrong' = wrong /\ now' = now /\ attempt' = j
        BY <3>1 DEF Ask
      <4>2. CASE k = j /\ Expired(k)
        <5>1. fails'[k] = 0 /\ until'[k] = Absent /\ seen'[k] = Absent
          BY <3>1, <4>2 DEF Ask, Forget
        <5>2. \A i \in 1..Len(wrong[k]) : wrong[k][i] <= now - Block
          <6>1. until[k] # Absent /\ now >= until[k]
            BY <4>2 DEF Expired
          <6>2. Counted(k)
            BY TrackerFacts
          <6>3. now \in Nat /\ until[k] \in Nat /\ Block \in Nat
                /\ \A i \in 1..Len(wrong[k]) : wrong[k][i] \in Nat
            BY <6>1, TrackerFacts
          <6> QED BY <6>1, <6>2, <6>3 DEF Counted
        <5> QED BY <4>1, <5>1, <5>2, KeyForgotten
      <4>3. CASE k # j \/ ~Expired(k)
        <5>1. fails'[k] = fails[k] /\ until'[k] = until[k] /\ seen'[k] = seen[k]
          BY <3>1, <4>3 DEF Ask, Forget
        <5>2. k = j => until[k] = Absent
          BY <3>1, <4>3, TrackerFacts DEF Ask, Blocked, Expired
        <5> QED BY <2>1, <4>1, <5>1, <5>2, KeyKept
      <4> QED BY <4>2, <4>3
    <3>2. CASE Fail(k)
      BY <3>2, FailKeeps
    <3>3. CASE Succeed(k)
      BY <3>3, SucceedKeeps
    <3>4. ASSUME NEW j \in Keys, (j # k /\ (Fail(j) \/ Succeed(j))) \/ Dismiss(j)
          PROVE  Counted(k)' /\ Cardinality(Recent(k)') <= MaxFailures
      <4>1. /\ fails'[k] = fails[k] /\ until'[k] = until[k] /\ seen'[k] = seen[k]
            /\ wrong'[k] = wrong[k] /\ attempt' # k
        BY <3>4, TrackerAssumption
           DEF Fail, Succeed, Dismiss, Forget, entries, TrackerInv, TrackerTypeOK
      <4> QED BY <2>1, <4>1, KeyKept
    <3>5. CASE SweepEntries
      BY <3>5, StaleKeeps
    <3>6. CASE UNCHANGED <<entries, attempt, wrong>>
      BY <2>1, <3>6, TrackerFacts, KeyKept DEF entries, Counted
    <3> QED BY <3>1, <3>2, <3>3, <3>4, <3>5, <3>6 DEF TrackerNext, tracker
  <2> QED BY <2>1, <2>2 DEF TrackerInv, GuessCap
<1> QED BY <1>1, <1>2, PTL DEF TrackerSpec

\* GuessCap: in no Block seconds are more than MaxFailures wrong passwords of
\* a key accepted for checking without a right one among them.
THEOREM GuessesCapped == TrackerSpec => []GuessCap
<1>1. TrackerInv => GuessCap
  BY DEF TrackerInv
<1> QED BY <1>1, TrackerInvariance, PTL

\* NoUnearnedBlock: who is blocked has given MaxFailures wrong passwords.
THEOREM BlocksEarned == TrackerSpec => []NoUnearnedBlock
<1>1. TrackerInv => NoUnearnedBlock
  BY DEF TrackerInv, NoUnearnedBlock, Blocked, Counted
<1> QED BY <1>1, TrackerInvariance, PTL

-----------------------------------------------------------------------------
(* Refresh tokens: what a task is about                                    *)

States == {"unused", "live", "expired", "rotated", "loggedout", "revoked"}
Ops == {"none", "login", "refresh", "logout", "password", "delete", "sweep"}
Steps == {"idle", "user", "revoke", "issue", "out", "write", "purge", "rows", "reset"}

\* Which steps belong to which operation.
Shape(t) == /\ task[t].op = "none" => task[t].step = "idle"
            /\ task[t].op = "refresh" => task[t].token \in Tokens
            /\ task[t].step \in {"user", "revoke"} => task[t].op = "refresh"
            /\ task[t].step = "issue" => task[t].op \in {"login", "refresh"}
            /\ task[t].step = "out" => task[t].op = "logout" /\ task[t].token \in Tokens
            /\ task[t].step = "reset" => task[t].op = "sweep"

Typed == TypeOK /\ \A t \in Tasks : Shape(t)

-----------------------------------------------------------------------------
(* What a step does to its task                                            *)

LEMMA TaskFields ==
    ASSUME TypeOK, NEW t \in Tasks
    PROVE  /\ task[t] \in Task /\ task[t].op \in Ops /\ task[t].step \in Steps
           /\ task[t].token \in Tokens \cup {Nobody} /\ task[t].todo \in SUBSET Tokens
           /\ task[t].waits \in Rows \cup {Nobody}
BY DEF TypeOK, Task, Ops, Steps

LEMMA OpenStep ==
    ASSUME TypeOK, NEW t \in Tasks, NEW op \in Ops, NEW step \in Steps,
           NEW k \in Tokens \cup {Nobody}, Open(t, op, step, k)
    PROVE  /\ task' \in [Tasks -> Task]
           /\ task'[t].op = op /\ task'[t].step = step /\ task'[t].token = k
           /\ \A s \in Tasks \ {t} : task'[s] = task[s]
<1> DEFINE new == [Idle EXCEPT !.op = op, !.step = step, !.token = k]
<1>1. new \in Task /\ new.op = op /\ new.step = step /\ new.token = k
  BY DEF Idle, Task, Ops, Steps
<1>2. task' = [task EXCEPT ![t] = new]
  BY DEF Open
<1> HIDE DEF new
<1> QED BY <1>1, <1>2 DEF TypeOK

LEMMA GoStep ==
    ASSUME TypeOK, NEW t \in Tasks, NEW step \in Steps, Go(t, step)
    PROVE  /\ task' \in [Tasks -> Task]
           /\ task'[t].op = task[t].op /\ task'[t].step = step
           /\ task'[t].token = task[t].token
           /\ \A s \in Tasks \ {t} : task'[s] = task[s]
<1> DEFINE new == [task[t] EXCEPT !.step = step, !.todo = {}, !.waits = Nobody]
<1>1. new \in Task /\ new.op = task[t].op /\ new.step = step /\ new.token = task[t].token
  BY TaskFields DEF Task, Steps
<1>2. task' = [task EXCEPT ![t] = new]
  BY DEF Go, TypeOK
<1> HIDE DEF new
<1> QED BY <1>1, <1>2 DEF TypeOK

LEMMA CloseStep ==
    ASSUME TypeOK, NEW t \in Tasks, Close(t)
    PROVE  /\ task' \in [Tasks -> Task]
           /\ task'[t].op = "none" /\ task'[t].step = "idle" /\ task'[t].token = Nobody
           /\ \A s \in Tasks \ {t} : task'[s] = task[s]
           /\ lock' \in [Rows -> Tasks \cup {Nobody}]
           /\ \A x \in Rows : lock'[x] = IF lock[x] = t THEN Nobody ELSE lock[x]
<1>1. Idle \in Task /\ Idle.op = "none" /\ Idle.step = "idle" /\ Idle.token = Nobody
  BY DEF Idle, Task
<1> QED BY <1>1 DEF Close, TypeOK

\* A row that is waited for, read or locked belongs to a statement of the task.
LEMMA WaitStep ==
    ASSUME TypeOK, NEW t \in Tasks, NEW x \in Rows, Wait(t, x)
    PROVE  /\ task' \in [Tasks -> Task]
           /\ task'[t].op = task[t].op /\ task'[t].step = task[t].step
           /\ task'[t].token = task[t].token /\ task'[t].todo = task[t].todo
           /\ \A s \in Tasks \ {t} : task'[s] = task[s]
<1> DEFINE new == [task[t] EXCEPT !.waits = x]
<1>1. /\ new \in Task /\ new.op = task[t].op /\ new.step = task[t].step
      /\ new.token = task[t].token /\ new.todo = task[t].todo
  BY TaskFields DEF Task
<1>2. task' = [task EXCEPT ![t] = new]
  BY DEF Wait, TypeOK
<1> HIDE DEF new
<1> QED BY <1>1, <1>2 DEF TypeOK

LEMMA PurgeStep ==
    ASSUME TypeOK, NEW t \in Tasks, Purge(t)
    PROVE  /\ task' \in [Tasks -> Task]
           /\ task'[t].op = task[t].op /\ task'[t].step = "rows"
           /\ task'[t].token = task[t].token
           /\ task[t].op # "sweep" => task'[t].todo = {k \in Tokens : Present(k)}
           /\ \A s \in Tasks \ {t} : task'[s] = task[s]
<1> DEFINE rows == {k \in Tokens : Present(k) /\ (task[t].op = "sweep" => ~Live(k))}
           new == [task[t] EXCEPT !.step = "rows", !.todo = rows]
<1>1. rows \in SUBSET Tokens /\ (task[t].op # "sweep" => rows = {k \in Tokens : Present(k)})
  OBVIOUS
<1>2. task' = [task EXCEPT ![t] = new]
  BY DEF Purge, TypeOK
<1> HIDE DEF rows
<1>3. /\ new \in Task /\ new.op = task[t].op /\ new.step = "rows"
      /\ new.token = task[t].token /\ new.todo = rows
  BY <1>1, TaskFields DEF Task
<1> HIDE DEF new
<1>4. task' \in [Tasks -> Task] /\ task'[t] = new /\ \A s \in Tasks \ {t} : task'[s] = task[s]
  BY <1>2, <1>3 DEF TypeOK
<1> QED BY <1>1, <1>3, <1>4 DEF rows

LEMMA PurgeRowStep ==
    ASSUME TypeOK, NEW t \in Tasks, NEW k \in Tokens, PurgeRow(t, k)
    PROVE  /\ task' \in [Tasks -> Task]
           /\ task'[t].op = task[t].op /\ task'[t].step = "rows"
           /\ task'[t].token = task[t].token /\ task'[t].todo = task[t].todo \ {k}
           /\ \A s \in Tasks \ {t} : task'[s] = task[s]
<1> DEFINE new == [task[t] EXCEPT !.todo = task[t].todo \ {k}, !.waits = Nobody]
<1>1. /\ new \in Task /\ new.op = task[t].op /\ new.step = task[t].step
      /\ new.token = task[t].token /\ new.todo = task[t].todo \ {k}
  BY TaskFields DEF Task
<1>2. task' = [task EXCEPT ![t] = new] /\ task[t].step = "rows"
  BY DEF PurgeRow, TypeOK
<1> HIDE DEF new
<1> QED BY <1>1, <1>2 DEF TypeOK

-----------------------------------------------------------------------------
(* What a step does to the rows                                            *)

LEMMA RowFields ==
    ASSUME TypeOK, NEW k \in Tokens
    PROVE  /\ token[k] \in Token /\ token[k].state \in States
           /\ token[k].session \in Tokens \cup {Nobody} /\ lock[k] \in Tasks \cup {Nobody}
BY DEF TypeOK, Token, States, Rows

LEMMA RowStates ==
    ASSUME TypeOK, NEW k \in Tokens, NEW state \in States
    PROVE  LET new == [token[k] EXCEPT !.state = state]
           IN  new \in Token /\ new.state = state /\ new.session = token[k].session
BY RowFields DEF Token, States

LEMMA DoneStep ==
    ASSUME TypeOK, NEW w \in Tasks, Done(w)
    PROVE  /\ token' \in [Tokens -> Token]
           /\ \A k \in Tokens : /\ token'[k].session = token[k].session
                                /\ token'[k].state = IF lock[k] = w THEN "revoked"
                                                     ELSE token[k].state
           /\ account' = IF task[w].op = "delete" THEN "absent" ELSE account
           /\ Close(w)
<1>1. "revoked" \in States
  BY DEF States
<1> DEFINE new(k) == [token[k] EXCEPT !.state = "revoked"]
<1>2. \A k \in Tokens : /\ new(k) \in Token /\ new(k).state = "revoked"
                        /\ new(k).session = token[k].session /\ token[k] \in Token
  BY <1>1, RowStates, RowFields
<1>3. token' = [k \in Tokens |-> IF lock[k] = w THEN new(k) ELSE token[k]]
  BY DEF Done
<1> HIDE DEF new
<1> QED BY <1>2, <1>3 DEF Done

\* Issue of a task with an account, and without.
LEMMA IssueStep ==
    ASSUME Typed, NEW c \in Tasks, NEW new \in Tokens, Issue(c, new)
    PROVE  /\ token' \in [Tokens -> Token]
           /\ account = "absent" => token' = token
           /\ account # "absent" =>
                 /\ token'[new].state = "live"
                 /\ token'[new].session = IF task[c].op = "login" THEN new
                                          ELSE token[task[c].token].session
                 /\ \A k \in Tokens \ {new} :
                       /\ token'[k].session = token[k].session
                       /\ token'[k].state = IF lock[k] = c THEN "rotated" ELSE token[k].state
           /\ token[new].state = "unused" /\ task[c].step = "issue" /\ Close(c)
           /\ account' = account /\ Reaches(c, UserRow)
<1>1. "rotated" \in States /\ "live" \in States
  BY DEF States
<1> DEFINE old(k) == [token[k] EXCEPT !.state = "rotated"]
           session == IF task[c].op = "login" THEN new ELSE token[task[c].token].session
           row == [state |-> "live", session |-> session]
<1>2. \A k \in Tokens : /\ old(k) \in Token /\ old(k).state = "rotated"
                        /\ old(k).session = token[k].session /\ token[k] \in Token
  BY <1>1, RowStates, RowFields DEF Typed
<1>3. session \in Tokens \cup {Nobody}
  BY RowFields DEF Typed, Shape, Issue
<1>4. row \in Token /\ row.state = "live" /\ row.session = session
  BY <1>3 DEF Token
<1>5. token' = [k \in Tokens |->
                  IF k = new /\ account # "absent" THEN row
                  ELSE IF account # "absent" THEN (IF lock[k] = c THEN old(k) ELSE token[k])
                       ELSE token[k]]
  BY DEF Issue, Rotated
<1>6. token \in [Tokens -> Token]
  BY DEF Typed, TypeOK
<1> HIDE DEF old, row
<1> QED BY <1>2, <1>4, <1>5, <1>6 DEF Issue

LEMMA LogoutStep ==
    ASSUME Typed, NEW c \in Tasks, Logout(c)
    PROVE  LET k == task[c].token IN
           /\ k \in Tokens /\ token' \in [Tokens -> Token]
           /\ \A j \in Tokens : /\ token'[j].session = token[j].session
                                /\ token'[j].state = IF j = k /\ Present(k) THEN "loggedout"
                                                     ELSE token[j].state
           /\ task[c].step = "out" /\ account' = account /\ Close(c)
<1> DEFINE k == task[c].token
           new == [token[k] EXCEPT !.state = IF Present(k) THEN "loggedout" ELSE token[k].state]
<1>1. k \in Tokens /\ task[c].step = "out" /\ account' = account /\ Close(c)
  BY DEF Typed, Shape, Logout
<1>2. (IF Present(k) THEN "loggedout" ELSE token[k].state) \in States
  BY <1>1, RowFields DEF States, Typed
<1>3. /\ new \in Token /\ new.session = token[k].session
      /\ new.state = IF Present(k) THEN "loggedout" ELSE token[k].state
  BY <1>1, <1>2, RowStates DEF Typed
<1>4. token' = [token EXCEPT ![k] = new] /\ token \in [Tokens -> Token]
  BY <1>1 DEF Logout, Typed, TypeOK
<1> HIDE DEF new
<1> QED BY <1>1, <1>3, <1>4

LEMMA LapseStep ==
    ASSUME TypeOK, NEW k \in Tokens, Lapse(k)
    PROVE  /\ token' \in [Tokens -> Token]
           /\ token[k].state = "live" /\ token'[k].state = "expired"
           /\ \A j \in Tokens : /\ token'[j].session = token[j].session
                                /\ j # k => token'[j].state = token[j].state
<1> DEFINE new == [token[k] EXCEPT !.state = "expired"]
<1>1. new \in Token /\ new.state = "expired" /\ new.session = token[k].session
  BY RowStates DEF States
<1>2. token' = [token EXCEPT ![k] = new] /\ token \in [Tokens -> Token]
  BY DEF Lapse, TypeOK
<1> HIDE DEF new
<1> QED BY <1>1, <1>2 DEF Lapse, Live

-----------------------------------------------------------------------------
(* Types                                                                   *)

\* Shape looks at one task: the others keep theirs.
LEMMA ShapeStep ==
    ASSUME Typed, NEW t \in Tasks, \A s \in Tasks \ {t} : task'[s] = task[s], Shape(t)'
    PROVE  \A s \in Tasks : Shape(s)'
<1> SUFFICES ASSUME NEW s \in Tasks PROVE Shape(s)'
  OBVIOUS
<1>1. CASE s = t
  BY <1>1
<1>2. CASE s # t
  <2>1. Shape(s) /\ task'[s] = task[s]
    BY <1>2 DEF Typed
  <2> QED BY <2>1 DEF Shape
<1> QED BY <1>1, <1>2

LEMMA ClosedTyped ==
    ASSUME Typed, NEW t \in Tasks, Close(t), token' \in [Tokens -> Token],
           account' \in {"absent", "allowed", "banned"}
    PROVE  Typed'
<1>0. TypeOK BY DEF Typed
<1>1. Shape(t)' BY <1>0, CloseStep, RefreshAssumption DEF Shape
<1>2. \A s \in Tasks : Shape(s)' BY <1>0, <1>1, CloseStep, ShapeStep
<1> QED BY <1>0, <1>2, CloseStep DEF Typed, TypeOK

LEMMA BeginTyped == ASSUME Typed, NEW t \in Tasks, Begin(t) PROVE Typed'
<1>0. TypeOK /\ Nobody \in Tokens \cup {Nobody} BY DEF Typed
<1>1. CASE LoginRead(t)
  <2>1. Shape(t)' BY <1>0, <1>1, OpenStep DEF LoginRead, Shape, Ops, Steps
  <2>2. \A s \in Tasks : Shape(s)'
    BY <1>0, <1>1, <2>1, OpenStep, ShapeStep DEF LoginRead, Ops, Steps
  <2>3. task' \in [Tasks -> Task] BY <1>0, <1>1, OpenStep DEF LoginRead, Ops, Steps
  <2> QED BY <1>1, <2>2, <2>3 DEF LoginRead, Typed, TypeOK
<1>2. ASSUME NEW k \in Tokens, RefreshRead(t, k) PROVE Typed'
  <2>1. Shape(t)' BY <1>0, <1>2, OpenStep DEF RefreshRead, Shape, Ops, Steps
  <2>2. \A s \in Tasks : Shape(s)'
    BY <1>0, <1>2, <2>1, OpenStep, ShapeStep DEF RefreshRead, Ops, Steps
  <2>3. task' \in [Tasks -> Task] BY <1>0, <1>2, OpenStep DEF RefreshRead, Ops, Steps
  <2> QED BY <1>2, <2>2, <2>3 DEF RefreshRead, Typed, TypeOK
<1>3. ASSUME NEW k \in Tokens, RefreshExpired(t, k) PROVE Typed'
  BY <1>3 DEF RefreshExpired, vars, Typed, TypeOK, Shape
<1>4. ASSUME NEW k \in Tokens, LogoutStart(t, k) PROVE Typed'
  <2>1. Shape(t)' BY <1>0, <1>4, OpenStep DEF LogoutStart, Shape, Ops, Steps
  <2>2. \A s \in Tasks : Shape(s)'
    BY <1>0, <1>4, <2>1, OpenStep, ShapeStep DEF LogoutStart, Ops, Steps
  <2>3. task' \in [Tasks -> Task] BY <1>0, <1>4, OpenStep DEF LogoutStart, Ops, Steps
  <2> QED BY <1>4, <2>2, <2>3 DEF LogoutStart, Typed, TypeOK
<1>5. ASSUME NEW op \in {"password", "delete", "sweep"}, ThreadStart(t, op) PROVE Typed'
  <2> DEFINE step == IF op = "sweep" THEN "purge" ELSE "write"
  <2>1. step \in Steps /\ op \in Ops /\ Open(t, op, step, Nobody) /\ step \in {"purge", "write"}
    BY <1>5 DEF ThreadStart, Steps, Ops
  <2> HIDE DEF step
  <2>2. Shape(t)' BY <1>0, <2>1, OpenStep, <1>5 DEF Shape
  <2>3. \A s \in Tasks : Shape(s)' BY <1>0, <2>1, <2>2, OpenStep, ShapeStep
  <2>4. task' \in [Tasks -> Task] BY <1>0, <2>1, OpenStep
  <2> QED BY <1>5, <2>3, <2>4 DEF ThreadStart, Typed, TypeOK
<1> QED BY <1>1, <1>2, <1>3, <1>4, <1>5 DEF Begin

LEMMA RunTyped == ASSUME Typed, NEW t \in Tasks, Run(t) PROVE Typed'
<1>0. TypeOK /\ Shape(t) BY DEF Typed
<1>1. CASE RefreshUser(t)
  <2>1. CASE account = "allowed"
    <3>1. Go(t, "revoke") /\ "revoke" \in Steps /\ UNCHANGED <<account, token, lock>>
      BY <1>1, <2>1 DEF RefreshUser, Steps
    <3>2. Shape(t)' BY <1>0, <1>1, <3>1, GoStep DEF Shape, RefreshUser
    <3>3. \A s \in Tasks : Shape(s)' BY <1>0, <3>1, <3>2, GoStep, ShapeStep
    <3> QED BY <1>0, <3>1, <3>3, GoStep DEF Typed, TypeOK
  <2>2. CASE account # "allowed"
    BY <1>0, <1>1, <2>2, ClosedTyped DEF RefreshUser, TypeOK
  <2> QED BY <2>1, <2>2
<1>2. CASE RefreshRevoke(t)
  <2>1. task[t].token \in Tokens /\ Go(t, "issue") /\ "issue" \in Steps
    BY <1>0, <1>2 DEF Shape, RefreshRevoke, Steps
  <2>2. Shape(t)' BY <1>0, <1>2, <2>1, GoStep DEF Shape, RefreshRevoke
  <2>3. \A s \in Tasks : Shape(s)' BY <1>0, <2>1, <2>2, GoStep, ShapeStep
  <2>4. lock' \in [Rows -> Tasks \cup {Nobody}]
    BY <1>0, <1>2, <2>1 DEF RefreshRevoke, TypeOK, Rows
  <2> QED BY <1>0, <1>2, <2>1, <2>3, <2>4, GoStep DEF RefreshRevoke, Typed, TypeOK
<1>3. CASE Logout(t) BY <1>0, <1>3, LogoutStep, ClosedTyped DEF TypeOK
<1>4. ASSUME NEW new \in Tokens, Issue(t, new) PROVE Typed'
  BY <1>0, <1>4, IssueStep, ClosedTyped DEF TypeOK
<1>5. CASE LockUser(t)
  <2>1. CASE account = "absent" BY <1>0, <1>5, <2>1, ClosedTyped DEF LockUser, TypeOK
  <2>2. CASE account # "absent"
    <3>1. Go(t, "purge") /\ "purge" \in Steps /\ lock' = [lock EXCEPT ![UserRow] = t]
      BY <1>5, <2>2 DEF LockUser, Steps
    <3>2. Shape(t)' BY <1>0, <1>5, <3>1, GoStep DEF Shape, LockUser
    <3>3. \A s \in Tasks : Shape(s)' BY <1>0, <3>1, <3>2, GoStep, ShapeStep
    <3>4. lock' \in [Rows -> Tasks \cup {Nobody}] BY <1>0, <3>1 DEF TypeOK
    <3> QED BY <1>0, <1>5, <3>1, <3>3, <3>4, GoStep DEF LockUser, Typed, TypeOK
  <2> QED BY <2>1, <2>2
<1>6. CASE Purge(t)
  <2>1. Shape(t)' BY <1>0, <1>6, PurgeStep DEF Shape, Purge
  <2>2. \A s \in Tasks : Shape(s)' BY <1>0, <1>6, <2>1, PurgeStep, ShapeStep
  <2> QED BY <1>0, <1>6, <2>2, PurgeStep DEF Purge, Typed, TypeOK
<1>7. ASSUME Done(t) PROVE Typed' BY <1>0, <1>7, DoneStep, ClosedTyped DEF TypeOK
<1>8. CASE ResetTraffic(t)
  <2>1. Go(t, "reset") /\ "reset" \in Steps /\ UNCHANGED <<account, token, lock>>
    BY <1>8 DEF ResetTraffic, Steps
  <2>2. Shape(t)' BY <1>0, <1>8, <2>1, GoStep DEF Shape, ResetTraffic
  <2>3. \A s \in Tasks : Shape(s)' BY <1>0, <2>1, <2>2, GoStep, ShapeStep
  <2> QED BY <1>0, <2>1, <2>3, GoStep DEF Typed, TypeOK
<1>9. ASSUME NEW k \in Tokens, PurgeRow(t, k) PROVE Typed'
  <2>1. Shape(t)' BY <1>0, <1>9, PurgeRowStep DEF Shape, PurgeRow
  <2>2. \A s \in Tasks : Shape(s)' BY <1>0, <1>9, <2>1, PurgeRowStep, ShapeStep
  <2>3. lock' \in [Rows -> Tasks \cup {Nobody}] BY <1>0, <1>9 DEF PurgeRow, TypeOK, Rows
  <2> QED BY <1>0, <1>9, <2>2, <2>3, PurgeRowStep DEF PurgeRow, Typed, TypeOK
<1>10. CASE DeadlockVictim(t) BY <1>0, <1>10, ClosedTyped DEF DeadlockVictim, TypeOK
<1>11. ASSUME NEW x \in Rows, Wait(t, x) PROVE Typed'
  <2>1. Shape(t)' BY <1>0, <1>11, WaitStep DEF Shape
  <2>2. \A s \in Tasks : Shape(s)' BY <1>0, <1>11, <2>1, WaitStep, ShapeStep
  <2> QED BY <1>0, <1>11, <2>2, WaitStep DEF Wait, Typed, TypeOK
<1> QED
  BY <1>1, <1>2, <1>3, <1>4, <1>5, <1>6, <1>7, <1>8, <1>9, <1>10, <1>11
  DEF Run, Commit, ResetUser

LEMMA TypedStep == Typed /\ [Next]_vars => Typed'
<1> SUFFICES ASSUME Typed, [Next]_vars PROVE Typed'
  OBVIOUS
<1>1. ASSUME NEW state \in {"allowed", "banned"}, SetAllowed(state) PROVE Typed'
  BY <1>1 DEF SetAllowed, Typed, TypeOK, Shape
<1>2. CASE Register BY <1>2 DEF Register, Typed, TypeOK, Shape
<1>3. CASE Restart
  <2>1. Idle \in Task /\ Idle.op = "none" /\ Idle.step = "idle" BY DEF Idle, Task
  <2> QED BY <1>3, <2>1 DEF Restart, Typed, TypeOK, Shape
<1>4. ASSUME NEW k \in Tokens, Lapse(k) PROVE Typed'
  BY <1>4, LapseStep DEF Lapse, Typed, TypeOK, Shape
<1>5. CASE UNCHANGED vars BY <1>5 DEF vars, Typed, TypeOK, Shape
<1> QED BY <1>1, <1>2, <1>3, <1>4, <1>5, BeginTyped, RunTyped DEF Next

\* TypeOK: every variable keeps its type in every behaviour.
THEOREM TypeCorrect == Spec => []TypeOK
<1>1. Init => Typed
  BY RefreshAssumption DEF Init, Typed, TypeOK, Shape, Idle, Unused, Token, Task
<1>2. Typed /\ [Next]_vars => Typed' BY TypedStep
<1>3. Typed => TypeOK BY DEF Typed
<1> QED BY <1>1, <1>2, <1>3, PTL DEF Spec

-----------------------------------------------------------------------------
(* The inductive invariant                                                 *)

\* A session is named after the first of its tokens.
Sessions == \A k \in Tokens : IF token[k].state = "unused" THEN token[k].session = Nobody
                              ELSE /\ token[k].session \in Tokens
                                   /\ token[token[k].session].state # "unused"

LockedRows == \A k \in Tokens : lock[k] # Nobody => token[k].state # "unused"

\* OneLivePerSession, the rows that have expired included.
OnePresent == \A j, k \in Tokens :
    Present(j) /\ Present(k) /\ token[j].session = token[k].session => j = k

Alone == \A c, d \in Coroutines : task[c].op # "none" /\ task[d].op # "none" => c = d

\* What a refresh knows of the token it has found: only a thread can have
\* deleted it, its session has no other row, and before the new one is inserted
\* the row is gone or locked.
Refreshing(c) == task[c].op = "refresh" =>
    LET k == task[c].token IN
    /\ token[k].state \notin {"unused", "rotated", "loggedout"}
    /\ \A j \in Tokens \ {k} : token[j].session = token[k].session => ~Present(j)
    /\ task[c].step = "issue" /\ Present(k) => lock[k] = c

\* delete_user keeps the users row and leaves no token out.
Deleting(w) == task[w].op = "delete" =>
    /\ task[w].step \in {"purge", "rows"} => lock[UserRow] = w
    /\ task[w].step = "rows" =>
          \A k \in Tokens : Present(k) => k \in task[w].todo \/ lock[k] = w

Safe == /\ Sessions /\ LockedRows /\ OnePresent /\ Alone /\ NoOrphans
        /\ \A c \in Coroutines : Refreshing(c)
        /\ \A w \in Workers : Deleting(w)

IInv == Typed /\ Safe

\* A step of t that inserts no row: rows may expire or vanish, exchanged or
\* logged out only by a coroutine; nobody else's locks are touched.
Fades(t) ==
    /\ \A s \in Tasks \ {t} : task'[s] = task[s]
    /\ \A k \in Tokens : /\ token'[k].session = token[k].session
                         /\ (token'[k].state = "unused") <=> (token[k].state = "unused")
                         /\ Present(k)' => Present(k)
                         /\ lock'[k] # Nobody => lock[k] # Nobody \/ Present(k)
                         /\ \/ token'[k].state \in {token[k].state, "expired", "revoked"}
                            \/ t \in Coroutines /\ task[t].op # "none"
    /\ \A x \in Rows, s \in Tasks \ {t} : lock[x] = s => lock'[x] = s
    /\ account' = "absent" => account = "absent" \/ \A k \in Tokens : ~Present(k)'
    /\ \/ task'[t].op = "none" \/ task[t].op # "none"
       \/ t \notin Coroutines \/ \A d \in Coroutines : task[d].op = "none"

LEMMA FadeStep ==
    ASSUME IInv, NEW t \in Tasks, Fades(t), t \in Coroutines => Refreshing(t)',
           t \in Workers => Deleting(t)'
    PROVE  Safe'
<1>0. Typed /\ Safe BY DEF IInv
<1>1. Sessions' BY <1>0 DEF Sessions, Safe, Fades
<1>2. OnePresent' /\ LockedRows' BY <1>0 DEF OnePresent, LockedRows, Present, Safe, Fades
<1>3. Alone' BY <1>0 DEF Alone, Safe, Fades, Tasks
<1>4. NoOrphans' BY <1>0 DEF NoOrphans, Safe, Fades
<1>5. ASSUME NEW c \in Coroutines PROVE Refreshing(c)'
  <2>1. CASE c = t BY <2>1
  <2>2. CASE c # t /\ task[c].op = "refresh"
    <3>1. task'[c] = task[c] /\ task[c].token \in Tokens /\ Refreshing(c) /\ c \in Tasks
      BY <1>0, <2>2 DEF Fades, Typed, Shape, Safe, Tasks
    <3>2. ~(t \in Coroutines /\ task[t].op # "none")
      BY <1>0, <2>2 DEF Safe, Alone
    <3>3. \A k \in Tokens : lock[k] = c => lock'[k] = c
      BY <2>2, <3>1 DEF Fades, Rows
    <3> QED BY <2>2, <3>1, <3>2, <3>3 DEF Fades, Refreshing
  <2>3. CASE c # t /\ task[c].op # "refresh"
    BY <2>3 DEF Fades, Refreshing, Tasks
  <2> QED BY <2>1, <2>2, <2>3
<1>6. ASSUME NEW w \in Workers PROVE Deleting(w)'
  <2>1. CASE w = t BY <2>1
  <2>2. CASE w # t
    <3>1. task'[w] = task[w] /\ Deleting(w)
      BY <1>0, <2>2 DEF Fades, Safe, Tasks
    <3>2. \A x \in Rows : lock[x] = w => lock'[x] = w
      BY <2>2 DEF Fades, Tasks
    <3> QED BY <3>1, <3>2 DEF Deleting, Fades, Rows
  <2> QED BY <2>1, <2>2
<1> QED BY <1>1, <1>2, <1>3, <1>4, <1>5, <1>6 DEF Safe

\* Tokens, locks and the account are left alone.
LEMMA LookStep ==
    ASSUME IInv, NEW t \in Tasks, UNCHANGED <<account, token, lock>>,
           \A s \in Tasks \ {t} : task'[s] = task[s],
           \/ task[t].op # "none" \/ \A d \in Coroutines : task[d].op = "none"
           \/ task'[t].op = "none" \/ t \notin Coroutines,
           t \in Coroutines => Refreshing(t)', t \in Workers => Deleting(t)'
    PROVE  Safe'
<1>1. Fades(t) BY DEF Fades, IInv, Safe, NoOrphans, Present
<1> QED BY <1>1, FadeStep

\* A transaction that ends without an insertion.
LEMMA ClosedSafe ==
    ASSUME IInv, NEW t \in Tasks, Close(t),
           \A k \in Tokens : /\ token'[k].session = token[k].session
                             /\ (token'[k].state = "unused") <=> (token[k].state = "unused")
                             /\ Present(k)' => Present(k)
                             /\ \/ token'[k].state \in {token[k].state, "expired", "revoked"}
                                \/ t \in Coroutines /\ task[t].op # "none",
           account' = "absent" => account = "absent" \/ \A k \in Tokens : ~Present(k)'
    PROVE  Safe'
<1>0. TypeOK BY DEF IInv, Typed
<1>1. Fades(t)
  <2>1. /\ \A x \in Rows, s \in Tasks \ {t} : lock[x] = s => lock'[x] = s
        /\ \A k \in Tokens : lock'[k] # Nobody => lock[k] # Nobody
    BY <1>0, CloseStep DEF Rows
  <2> QED BY <1>0, <2>1, CloseStep DEF Fades
<1>2. Refreshing(t)' /\ Deleting(t)' BY <1>0, CloseStep DEF Refreshing, Deleting
<1> QED BY <1>1, <1>2, FadeStep

LEMMA Idles ==
    ASSUME NEW c \in Coroutines, MayRun(c)
    PROVE  \A d \in Coroutines : task[d].op = "none"
BY DEF MayRun, Idle

LEMMA Disjoint == \A t \in Tasks : ~(t \in Coroutines /\ t \in Workers) /\ t # Nobody
BY RefreshAssumption

LEMMA BeginSafe == ASSUME IInv, NEW t \in Tasks, Begin(t) PROVE Safe'
<1>0. TypeOK /\ Safe /\ Typed BY DEF IInv, Typed
<1>1. ASSUME t \in Coroutines, LoginRead(t) PROVE Safe'
  <2>1. task'[t].op = "login" /\ \A s \in Tasks \ {t} : task'[s] = task[s]
    BY <1>0, <1>1, OpenStep DEF LoginRead, Ops, Steps
  <2>2. Refreshing(t)' /\ Deleting(t)' BY <2>1 DEF Refreshing, Deleting
  <2>3. \A d \in Coroutines : task[d].op = "none" BY <1>1, Idles DEF LoginRead
  <2> QED BY <1>1, <2>1, <2>2, <2>3, LookStep DEF LoginRead
<1>2. ASSUME t \in Coroutines, NEW k \in Tokens, RefreshRead(t, k) PROVE Safe'
  <2>1. /\ task'[t].op = "refresh" /\ task'[t].step = "user" /\ task'[t].token = k
        /\ \A s \in Tasks \ {t} : task'[s] = task[s]
    BY <1>0, <1>2, OpenStep DEF RefreshRead, Ops, Steps
  <2>2. token' = token /\ token[k].state = "live" BY <1>2 DEF RefreshRead, Live
  <2>3. \A j \in Tokens \ {k} : token[j].session = token[k].session => ~Present(j)
    BY <1>0, <2>2 DEF Safe, OnePresent, Present
  <2>4. Refreshing(t)' BY <2>1, <2>2, <2>3 DEF Refreshing, Present
  <2>5. Deleting(t)' BY <2>1 DEF Deleting
  <2>6. \A d \in Coroutines : task[d].op = "none" BY <1>2, Idles DEF RefreshRead
  <2> QED BY <1>2, <2>1, <2>4, <2>5, <2>6, LookStep DEF RefreshRead
<1>3. ASSUME t \in Coroutines, NEW k \in Tokens, RefreshExpired(t, k) PROVE Safe'
  <2>1. task' = task /\ UNCHANGED <<account, token, lock>>
    BY <1>3 DEF RefreshExpired, vars
  <2>2. Refreshing(t)' BY <1>0, <1>3, <2>1 DEF Safe, Refreshing, Present
  <2>3. \A d \in Coroutines : task[d].op = "none" BY <1>3, Idles DEF RefreshExpired
  <2> QED BY <1>3, <2>1, <2>2, <2>3, Disjoint, LookStep
<1>4. ASSUME t \in Coroutines, NEW k \in Tokens, LogoutStart(t, k) PROVE Safe'
  <2>1. task'[t].op = "logout" /\ \A s \in Tasks \ {t} : task'[s] = task[s]
    BY <1>0, <1>4, OpenStep DEF LogoutStart, Ops, Steps
  <2>2. Refreshing(t)' /\ Deleting(t)' BY <2>1 DEF Refreshing, Deleting
  <2>3. \A d \in Coroutines : task[d].op = "none" BY <1>4, Idles DEF LogoutStart
  <2> QED BY <1>4, <2>1, <2>2, <2>3, LookStep DEF LogoutStart
<1>5. ASSUME t \in Workers, NEW op \in {"password", "delete", "sweep"}, ThreadStart(t, op)
      PROVE Safe'
  <2> DEFINE step == IF op = "sweep" THEN "purge" ELSE "write"
  <2>1. step \in Steps /\ op \in Ops /\ Open(t, op, step, Nobody)
    BY <1>5 DEF ThreadStart, Steps, Ops
  <2>2. op = "delete" => step = "write" OBVIOUS
  <2> HIDE DEF step
  <2>3. /\ task'[t].op = op /\ task'[t].step = step
        /\ \A s \in Tasks \ {t} : task'[s] = task[s]
    BY <1>0, <2>1, OpenStep
  <2>4. Deleting(t)' BY <2>2, <2>3 DEF Deleting
  <2>5. UNCHANGED <<account, token, lock>> BY <1>5 DEF ThreadStart
  <2> QED BY <1>5, <2>3, <2>4, <2>5, Disjoint, LookStep
<1> QED BY <1>1, <1>2, <1>3, <1>4, <1>5 DEF Begin

LEMMA CoroutineSafe ==
    ASSUME IInv, NEW c \in Coroutines,
           RefreshUser(c) \/ RefreshRevoke(c) \/ Logout(c)
    PROVE  Safe'
<1>0. TypeOK /\ Safe /\ Typed /\ Shape(c) /\ c \in Tasks /\ c \notin Workers
  BY Disjoint DEF IInv, Typed, Tasks
<1>1. CASE RefreshUser(c)
  <2>1. CASE account = "allowed"
    <3>1. Go(c, "revoke") /\ "revoke" \in Steps /\ UNCHANGED <<account, token, lock>>
      BY <1>1, <2>1 DEF RefreshUser, Steps
    <3>2. /\ task'[c].op = task[c].op /\ task'[c].step = "revoke"
          /\ task'[c].token = task[c].token /\ \A s \in Tasks \ {c} : task'[s] = task[s]
      BY <1>0, <3>1, GoStep
    <3>3. Refreshing(c)' BY <1>0, <3>1, <3>2 DEF Refreshing, Safe, Present
    <3>4. task[c].op # "none" BY <1>0, <1>1 DEF Shape, RefreshUser
    <3> QED BY <1>0, <3>1, <3>2, <3>3, <3>4, LookStep
  <2>2. CASE account # "allowed"
    <3>1. Close(c) /\ UNCHANGED <<account, token>> BY <1>1, <2>2 DEF RefreshUser
    <3> QED BY <1>0, <3>1, ClosedSafe DEF Present
  <2> QED BY <2>1, <2>2
<1>2. CASE RefreshRevoke(c)
  <2> DEFINE k == task[c].token
  <2>1. /\ k \in Tokens /\ task[c].op = "refresh" /\ Go(c, "issue") /\ "issue" \in Steps
        /\ UNCHANGED <<account, token>>
    BY <1>0, <1>2 DEF Shape, RefreshRevoke, Steps
  <2>2. /\ task'[c].op = "refresh" /\ task'[c].step = "issue"
        /\ task'[c].token = k /\ \A s \in Tasks \ {c} : task'[s] = task[s]
    BY <1>0, <2>1, GoStep
  <2>3. /\ lock[k] \in {Nobody, c} /\ k \in Rows
        /\ lock' = [lock EXCEPT ![k] = IF Present(k) THEN c ELSE lock[k]]
    BY <1>2, <2>1 DEF RefreshRevoke, Reaches, Conflict, Rows
  <2>4. lock'[k] = (IF Present(k) THEN c ELSE lock[k]) /\ \A x \in Rows \ {k} : lock'[x] = lock[x]
    BY <1>0, <2>3 DEF TypeOK
  <2> HIDE DEF k
  <2>5. Refreshing(c)'
    BY <1>0, <2>1, <2>2, <2>4 DEF Refreshing, Safe, Present, k
  <2>6. Fades(c)
    BY <1>0, <2>1, <2>2, <2>3, <2>4, Disjoint DEF Fades, Present
  <2> QED BY <1>0, <2>5, <2>6, FadeStep
<1>3. CASE Logout(c)
  <2>1. task[c].op # "none" BY <1>0, <1>3, LogoutStep DEF Shape
  <2> QED BY <1>0, <1>3, <2>1, LogoutStep, ClosedSafe DEF Present
<1> QED BY <1>1, <1>2, <1>3

\* The new row: its session has no other one, and its account is not being
\* deleted.
LEMMA IssueSafe ==
    ASSUME IInv, NEW c \in Coroutines, NEW new \in Tokens, Issue(c, new)
    PROVE  Safe'
<1>0. /\ TypeOK /\ Safe /\ Typed /\ Shape(c) /\ c \in Tasks /\ c \notin Workers
      /\ Refreshing(c) /\ task[c].op # "none" /\ task[c].op \in {"login", "refresh"}
  BY Disjoint, IssueStep DEF IInv, Typed, Tasks, Safe, Shape
<1>1. CASE account = "absent"
  <2>1. Close(c) /\ UNCHANGED <<account, token>> BY <1>0, <1>1, IssueStep
  <2> QED BY <1>0, <2>1, ClosedSafe DEF Present
<1>2. CASE account # "absent"
  <2> DEFINE session == IF task[c].op = "login" THEN new ELSE token[task[c].token].session
  <2>1. /\ token[new].state = "unused" /\ token'[new].state = "live"
        /\ token'[new].session = session
        /\ \A k \in Tokens \ {new} :
              /\ token'[k].session = token[k].session
              /\ token'[k].state = IF lock[k] = c THEN "rotated" ELSE token[k].state
        /\ account' = account /\ Close(c)
    BY <1>0, <1>2, IssueStep
  <2>2. task'[c].op = "none" /\ \A s \in Tasks \ {c} : task'[s] = task[s]
    BY <1>0, <2>1, CloseStep
  <2>3. \A x \in Rows, s \in Tasks \ {c} : lock[x] = s => lock'[x] = s
    BY <1>0, <2>1, CloseStep
  <2>4. \/ session = new
        \/ /\ session \in Tokens /\ token[session].state # "unused"
           /\ task[c].op = "refresh" /\ task[c].token \in Tokens
           /\ session = token[task[c].token].session
    BY <1>0 DEF Refreshing, Safe, Sessions, Shape
  <2> HIDE DEF session
  <2>5. \A j \in Tokens \ {new} : token[j].session = session => ~Present(j)'
    <3> SUFFICES ASSUME NEW j \in Tokens \ {new}, token[j].session = session PROVE ~Present(j)'
      OBVIOUS
    <3>1. CASE session = new
      <4>1. token[j].state = "unused"
        BY <1>0, <2>1, <3>1, RefreshAssumption DEF Safe, Sessions, Rows
      <4> QED BY <2>1, <4>1 DEF Present
    <3>2. CASE session # new
      <4>1. CASE j = task[c].token
        <5>1. task[c].step = "issue" BY DEF Issue
        <5>2. Present(j) => lock[j] = c BY <1>0, <2>4, <3>2, <4>1, <5>1 DEF Refreshing
        <5> QED BY <2>1, <5>2 DEF Present
      <4>2. CASE j # task[c].token
        <5>1. ~Present(j) BY <1>0, <2>4, <3>2, <4>2 DEF Refreshing
        <5> QED BY <2>1, <5>1 DEF Present
      <4> QED BY <4>1, <4>2
    <3> QED BY <3>1, <3>2
  <2>6. Sessions'
    <3> SUFFICES ASSUME NEW k \in Tokens
                 PROVE  IF token'[k].state = "unused" THEN token'[k].session = Nobody
                        ELSE /\ token'[k].session \in Tokens
                             /\ token'[token'[k].session].state # "unused"
      BY DEF Sessions
    <3>1. CASE k = new BY <2>1, <2>4, <3>1
    <3>2. CASE k # new
      <4>1. lock[k] = c => token[k].state # "unused"
        BY <1>0, Disjoint DEF Safe, LockedRows
      <4>2. (token[k].state = "unused") <=> (token'[k].state = "unused")
        BY <2>1, <3>2, <4>1
      <4>3. \A j \in Tokens : token[j].state # "unused" => token'[j].state # "unused"
        BY <2>1
      <4> QED BY <1>0, <2>1, <3>2, <4>2, <4>3 DEF Safe, Sessions
    <3> QED BY <3>1, <3>2
  <2>7. OnePresent' /\ LockedRows'
    <3>1. \A k \in Tokens \ {new} : Present(k)' => Present(k) BY <2>1 DEF Present
    <3>2. \A k \in Tokens : lock'[k] # Nobody => lock[k] # Nobody
      BY <1>0, <2>1, CloseStep DEF Rows
    <3>3. OnePresent' BY <1>0, <2>1, <2>5, <3>1 DEF Safe, OnePresent
    <3> QED BY <1>0, <2>1, <3>2, <3>3 DEF Safe, LockedRows
  <2>8. Alone' BY <1>0, <2>2 DEF Safe, Alone, Tasks
  <2>9. NoOrphans' BY <1>2, <2>1 DEF NoOrphans
  <2>10. ASSUME NEW d \in Coroutines PROVE Refreshing(d)'
    <3>1. task'[d].op = "none" BY <1>0, <2>2 DEF Safe, Alone, Tasks
    <3> QED BY <3>1 DEF Refreshing
  <2>11. ASSUME NEW w \in Workers PROVE Deleting(w)'
    <3>1. task'[w] = task[w] /\ Deleting(w) /\ w \in Tasks /\ w # c
      BY <1>0, <2>2 DEF Safe, Tasks
    <3>2. \A x \in Rows : lock[x] = w => lock'[x] = w BY <2>3, <3>1
    <3>3. ~(task[w].op = "delete" /\ lock[UserRow] = w)
      <4>1. ~Conflict(c, UserRow) BY <1>0, IssueStep DEF Reaches
      <4> QED BY <3>1, <4>1, Disjoint DEF Conflict
    <3>4. task[w].op = "delete" => task[w].step \notin {"purge", "rows"}
      BY <3>1, <3>3 DEF Deleting
    <3> QED BY <3>1, <3>4 DEF Deleting
  <2> QED BY <2>6, <2>7, <2>8, <2>9, <2>10, <2>11 DEF Safe
<1> QED BY <1>1, <1>2

LEMMA ThreadSafe ==
    ASSUME IInv, NEW w \in Workers,
           \/ LockUser(w) \/ Purge(w) \/ Commit(w) \/ ResetTraffic(w) \/ ResetUser(w)
           \/ \E k \in Tokens : PurgeRow(w, k)
    PROVE  Safe'
<1>0. /\ TypeOK /\ Safe /\ Typed /\ Shape(w) /\ w \in Tasks /\ w \notin Coroutines
      /\ w # Nobody /\ Deleting(w)
  BY Disjoint DEF IInv, Typed, Tasks, Safe
<1>1. CASE LockUser(w)
  <2>1. CASE account = "absent"
    <3>1. Close(w) /\ UNCHANGED <<account, token>> BY <1>1, <2>1 DEF LockUser
    <3> QED BY <1>0, <3>1, ClosedSafe DEF Present
  <2>2. CASE account # "absent"
    <3>1. /\ Go(w, "purge") /\ "purge" \in Steps /\ lock' = [lock EXCEPT ![UserRow] = w]
          /\ UNCHANGED <<account, token>>
      BY <1>1, <2>2 DEF LockUser, Steps
    <3>2. task'[w].step = "purge" /\ \A s \in Tasks \ {w} : task'[s] = task[s]
      BY <1>0, <3>1, GoStep
    <3>3. lock[UserRow] \in {Nobody, w} /\ UserRow \in Rows /\ UserRow \notin Tokens
      BY <1>1 DEF LockUser, Reaches, Conflict, Rows, UserRow, Tokens
    <3>4. lock'[UserRow] = w /\ \A x \in Rows \ {UserRow} : lock'[x] = lock[x]
      BY <1>0, <3>1, <3>3 DEF TypeOK
    <3>5. Deleting(w)' BY <3>2, <3>4 DEF Deleting
    <3>6. \A x \in Rows, s \in Tasks \ {w} : lock[x] = s => lock'[x] = s
      BY <3>3, <3>4, Disjoint
    <3>7. \A k \in Tokens : lock'[k] = lock[k] BY <3>3, <3>4 DEF Rows
    <3>8. Fades(w) BY <1>0, <3>1, <3>2, <3>6, <3>7 DEF Fades, Present
    <3> QED BY <1>0, <3>5, <3>8, FadeStep
  <2> QED BY <2>1, <2>2
<1>2. CASE Purge(w)
  <2>1. /\ task'[w].op = task[w].op /\ task'[w].step = "rows"
        /\ task[w].op # "sweep" => task'[w].todo = {k \in Tokens : Present(k)}
        /\ \A s \in Tasks \ {w} : task'[s] = task[s]
    BY <1>0, <1>2, PurgeStep
  <2>2. UNCHANGED <<account, token, lock>> /\ task[w].step = "purge" BY <1>2 DEF Purge
  <2>3. Deleting(w)' BY <1>0, <2>1, <2>2 DEF Deleting, Present
  <2> QED BY <1>0, <2>1, <2>2, <2>3, LookStep
<1>3. ASSUME Done(w), task[w].op = "delete" => task[w].step = "rows" /\ task[w].todo = {}
      PROVE Safe'
  <2>1. /\ \A k \in Tokens : /\ token'[k].session = token[k].session
                             /\ token'[k].state = IF lock[k] = w THEN "revoked"
                                                  ELSE token[k].state
        /\ account' = IF task[w].op = "delete" THEN "absent" ELSE account
        /\ Close(w)
    BY <1>0, <1>3, DoneStep
  <2>2. \A k \in Tokens : lock[k] = w => token[k].state # "unused"
    BY <1>0 DEF Safe, LockedRows
  <2>3. \A k \in Tokens : /\ (token'[k].state = "unused") <=> (token[k].state = "unused")
                          /\ Present(k)' => Present(k) /\ lock[k] # w
                          /\ token'[k].state \in {token[k].state, "expired", "revoked"}
    BY <2>1, <2>2 DEF Present
  <2>4. account' = "absent" => account = "absent" \/ \A k \in Tokens : ~Present(k)'
    BY <1>0, <1>3, <2>1, <2>3 DEF Deleting
  <2> QED BY <1>0, <2>1, <2>3, <2>4, ClosedSafe
<1>4. CASE ResetTraffic(w)
  <2>1. Go(w, "reset") /\ "reset" \in Steps /\ UNCHANGED <<account, token, lock>>
    BY <1>4 DEF ResetTraffic, Steps
  <2>2. task'[w].op = "sweep" /\ \A s \in Tasks \ {w} : task'[s] = task[s]
    BY <1>0, <1>4, <2>1, GoStep DEF ResetTraffic
  <2>3. Deleting(w)' BY <2>2 DEF Deleting
  <2> QED BY <1>0, <2>1, <2>2, <2>3, LookStep
<1>5. ASSUME NEW k \in Tokens, PurgeRow(w, k) PROVE Safe'
  <2>1. /\ task'[w].op = task[w].op /\ task'[w].step = "rows"
        /\ task'[w].todo = task[w].todo \ {k}
        /\ \A s \in Tasks \ {w} : task'[s] = task[s]
    BY <1>0, <1>5, PurgeRowStep
  <2>2. /\ lock[k] \in {Nobody, w} /\ k \in Rows /\ k # UserRow /\ task[w].step = "rows"
        /\ lock' = [lock EXCEPT ![k] = IF Present(k) THEN w ELSE lock[k]]
        /\ UNCHANGED <<account, token>>
    <3>1. /\ Reaches(w, k) /\ task[w].step = "rows" /\ UNCHANGED <<account, token>>
          /\ lock' = [lock EXCEPT ![k] = IF Present(k) THEN w ELSE lock[k]]
      BY <1>5 DEF PurgeRow
    <3>2. k \in Rows /\ k # UserRow BY DEF Rows, Tokens, UserRow
    <3>3. lock[k] \in {Nobody, w} BY <3>1 DEF Reaches, Conflict
    <3> QED BY <3>1, <3>2, <3>3
  <2>3. lock'[k] = (IF Present(k) THEN w ELSE lock[k]) /\ \A x \in Rows \ {k} : lock'[x] = lock[x]
    BY <1>0, <2>2 DEF TypeOK
  <2>4. \A j \in Tokens : Present(j)' <=> Present(j) BY <2>2 DEF Present
  <2>5. Deleting(w)' BY <1>0, <2>1, <2>2, <2>3, <2>4 DEF Deleting, Rows
  <2>6. Fades(w) BY <1>0, <2>1, <2>2, <2>3, <2>4, Disjoint DEF Fades, Rows
  <2> QED BY <1>0, <2>5, <2>6, FadeStep
<1> QED
  BY <1>0, <1>1, <1>2, <1>3, <1>4, <1>5 DEF Commit, ResetUser, Shape

LEMMA RunSafe == ASSUME IInv, NEW t \in Tasks, Run(t) PROVE Safe'
<1>0. TypeOK BY DEF IInv, Typed
<1>1. CASE DeadlockVictim(t)
  <2>1. Close(t) /\ UNCHANGED <<account, token>> BY <1>1 DEF DeadlockVictim
  <2> QED BY <2>1, ClosedSafe DEF Present
<1>2. ASSUME NEW x \in Rows, Wait(t, x) PROVE Safe'
  <2>1. /\ task'[t].op = task[t].op /\ task'[t].step = task[t].step
        /\ task'[t].token = task[t].token /\ task'[t].todo = task[t].todo
        /\ \A s \in Tasks \ {t} : task'[s] = task[s]
    BY <1>0, <1>2, WaitStep
  <2>2. UNCHANGED <<account, token, lock>> BY <1>2 DEF Wait
  <2>3. t \in Coroutines => Refreshing(t)'
    BY <2>1, <2>2 DEF IInv, Safe, Refreshing, Present
  <2>4. t \in Workers => Deleting(t)' BY <2>1, <2>2 DEF IInv, Safe, Deleting, Present
  <2>5. task'[t].op = "none" \/ task[t].op # "none" BY <2>1
  <2> QED BY <2>1, <2>2, <2>3, <2>4, <2>5, LookStep
<1> QED BY <1>1, <1>2, CoroutineSafe, IssueSafe, ThreadSafe DEF Run

\* IInv is inductive.
THEOREM Invariance == Spec => []IInv
<1>1. Init => IInv
  <2> SUFFICES ASSUME Init PROVE IInv
    OBVIOUS
  <2>1. Typed
    BY RefreshAssumption DEF Init, Typed, TypeOK, Shape, Idle, Unused, Token, Task
  <2>2. /\ \A t \in Tasks : task[t].op = "none"
        /\ \A k \in Tokens : token[k].state = "unused" /\ token[k].session = Nobody
        /\ \A x \in Rows : lock[x] = Nobody
        /\ account = "allowed"
    BY DEF Init, Idle, Unused
  <2> QED BY <2>1, <2>2 DEF IInv, Safe, Sessions, LockedRows, OnePresent, Alone, NoOrphans,
                            Refreshing, Deleting, Present, Tasks, Workers, Rows
<1>2. IInv /\ [Next]_vars => IInv'
  <2> SUFFICES ASSUME IInv, [Next]_vars PROVE IInv'
    OBVIOUS
  <2>0. Typed /\ TypeOK /\ Safe /\ Worker \in Tasks /\ Worker \in Workers /\ Worker \notin Coroutines
    BY RefreshAssumption DEF IInv, Typed, Tasks, Workers
  <2>1. Typed' BY <2>0, TypedStep
  <2>2. CASE UNCHANGED <<token, lock, task>> /\ (account' = "absent" => account = "absent")
    <3>1. Deleting(Worker)' BY <2>0, <2>2 DEF Safe, Deleting, Present
    <3>2. Fades(Worker) BY <2>0, <2>2 DEF Fades, Present, Safe, NoOrphans
    <3> QED BY <2>0, <2>1, <3>1, <3>2, FadeStep DEF IInv
  <2>3. ASSUME NEW k \in Tokens, Lapse(k) PROVE IInv'
    <3>1. UNCHANGED <<account, lock, task>> BY <2>3 DEF Lapse
    <3>2. \A j \in Tokens : Present(j)' => Present(j)
      BY <2>0, <2>3, LapseStep DEF Present
    <3>3. Deleting(Worker)' BY <2>0, <3>1, <3>2 DEF Safe, Deleting
    <3>4. Fades(Worker)
      BY <2>0, <2>3, <3>1, <3>2, LapseStep DEF Fades, Safe, NoOrphans
    <3> QED BY <2>0, <2>1, <3>3, <3>4, FadeStep DEF IInv
  <2>4. CASE Restart
    <3>1. /\ \A t \in Tasks : task'[t].op = "none"
          /\ \A x \in Rows : lock'[x] = Nobody
          /\ UNCHANGED <<account, token>>
      BY <2>4 DEF Restart, Idle
    <3>2. Sessions' /\ OnePresent' /\ NoOrphans'
      BY <2>0, <3>1 DEF Safe, Sessions, OnePresent, NoOrphans, Present
    <3>3. LockedRows' /\ Alone' BY <3>1 DEF LockedRows, Alone, Rows, Tasks
    <3>4. \A t \in Tasks : Refreshing(t)' /\ Deleting(t)' BY <3>1 DEF Refreshing, Deleting
    <3> QED BY <2>1, <3>2, <3>3, <3>4 DEF IInv, Safe, Tasks
  <2>5. CASE \E state \in {"allowed", "banned"} : SetAllowed(state)
    BY <2>2, <2>5 DEF SetAllowed
  <2>6. CASE Register BY <2>2, <2>6 DEF Register
  <2>7. CASE UNCHANGED vars BY <2>2, <2>7 DEF vars
  <2>8. CASE \E t \in Tasks : Begin(t) \/ Run(t)
    BY <2>1, <2>8, BeginSafe, RunSafe DEF IInv
  <2> QED BY <2>3, <2>4, <2>5, <2>6, <2>7, <2>8 DEF Next
<1> QED BY <1>1, <1>2, PTL DEF Spec

\* OneLivePerSession: for any number of requests, a login never has two tokens
\* that work.
THEOREM OneTokenPerLogin == Spec => []OneLivePerSession
<1>1. IInv => OneLivePerSession
  BY DEF IInv, Safe, OnePresent, OneLivePerSession, Present, Live
<1> QED BY <1>1, Invariance, PTL

\* NoOrphans: a deleted account has no token that works.
THEOREM DeletedMeansRevoked == Spec => []NoOrphans
<1>1. IInv => NoOrphans
  BY DEF IInv, Safe
<1> QED BY <1>1, Invariance, PTL

\* NoReplay: no step exchanges a token that was exchanged or logged out.
THEOREM NeverExchangedTwice == Spec => NoReplay
<1>1. IInv /\ [Next]_vars => [\A c \in Coroutines, new \in Tokens :
        Issue(c, new) /\ task[c].op = "refresh" /\ account # "absent" =>
            token[task[c].token].state \notin {"rotated", "loggedout"}]_vars
  BY DEF IInv, Safe, Refreshing
<1> QED BY <1>1, Invariance, PTL DEF Spec, NoReplay
=============================================================================
