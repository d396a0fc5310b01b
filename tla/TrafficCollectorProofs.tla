----------------------- MODULE TrafficCollectorProofs -----------------------
(***************************************************************************)
(* No byte is counted twice, for any number of accounts, servers, polls,   *)
(* restarts and resets.  The inductive invariant places every remembered   *)
(* counter value on the one line of bytes that were ever carried: it was   *)
(* read in the run of Hysteria that is going on, or before that run began. *)
(*                                                                         *)
(* And the account's counter is the sum over its servers of what has been  *)
(* recorded since its last reset: what is committed balances, and so does  *)
(* what the open transaction of a poll adds to it.  The facts about sums   *)
(* are by induction over the subsets of a finite set.                      *)
(***************************************************************************)
EXTENDS TrafficCollector, Arithmetic

\* What nothing is counted with.
LEMMA ZeroTypes == Zero \in [Users -> Nat] /\ ZeroEach \in Map(Nat) /\ Nothing \in Map({None})
BY DEF Zero, ZeroEach, Nothing, Map

-----------------------------------------------------------------------------
\* A row the poll has written has no less on it than the committed one.
Grows == \A s \in Servers, u \in Users :
    mine[s][u] # None /\ row[s][u] # None => mine[s][u].sum >= row[s][u].sum

\* One row is recorded anew: it stays a row, and grows.
LEMMA RecordedType ==
    ASSUME NEW old \in Row, NEW new \in Mark
    PROVE  LET d == Delta(new.total, old.last.total) IN
           d \in Nat /\ Recorded(old, new, d) \in Row /\ Recorded(old, new, d).sum = old.sum + d
<1> DEFINE d == Delta(new.total, old.last.total)
<1>1. new.total \in Nat /\ old.last.total \in Nat /\ old.sum \in Nat
  BY DEF Mark, Row
<1>2. d \in Nat
  BY <1>1 DEF Delta, Growth
<1> HIDE DEF d
<1>3. Recorded(old, new, d) \in Row /\ Recorded(old, new, d).sum = old.sum + d
  BY <1>1, <1>2 DEF Recorded, Row
<1> QED BY <1>2, <1>3 DEF d

\* The types, with Grows, are inductive.
LEMMA TypesStep == TypeOK /\ Grows /\ [Next]_vars => TypeOK' /\ Grows'
<1> SUFFICES ASSUME TypeOK, Grows, [Next]_vars PROVE TypeOK' /\ Grows'
    OBVIOUS
<1> USE DEF world, polling, upkeep
<1>1. ASSUME NEW s \in Servers, NEW u \in Users, Carry(s, u) PROVE TypeOK' /\ Grows'
  BY <1>1 DEF Carry, TypeOK, Map, Grows
<1>2. ASSUME NEW s \in Servers, RestartHysteria(s) PROVE TypeOK' /\ Grows'
  BY <1>2 DEF RestartHysteria, Event, Zero, TypeOK, Map, Grows
<1>3. CASE Wake
  BY <1>3 DEF Wake, TypeOK, Map, Grows
<1>4. ASSUME NEW s \in Servers, Fetch(s) PROVE TypeOK' /\ Grows'
  <2>1. Answer(s) \in [Users -> Mark \cup {None}]
    BY DEF Answer, TypeOK, Map, Mark
  <2>2. data' \in Map(Mark \cup {None})
    BY <1>4, <2>1 DEF Fetch, TypeOK, Map
  <2> QED BY <1>4, <2>2 DEF Fetch, TypeOK, Grows
<1>5. ASSUME NEW s \in Servers, NEW u \in Users, Baseline(s, u) PROVE TypeOK' /\ Grows'
  <2>1. data[s][u] \in Mark /\ data[s][u].at \in Nat
    BY <1>5 DEF Baseline, TypeOK, Map, Mark
  <2>2. [last |-> data[s][u], from |-> data[s][u].at, sum |-> 0, exact |-> TRUE] \in Row
    BY <2>1 DEF Row
  <2>3. mine' \in Map(Row \cup {None})
    BY <1>5, <2>2 DEF Baseline, TypeOK, Map
  <2>4. data' \in Map(Mark \cup {None})
    BY <1>5 DEF Baseline, Handled, TypeOK, Map
  <2>5. Grows'
    BY <1>5 DEF Baseline, Grows, TypeOK, Map
  <2> QED BY <1>5, <2>3, <2>4, <2>5 DEF Baseline, TypeOK
<1>6. ASSUME NEW s \in Servers, NEW u \in Users, Count(s, u) PROVE TypeOK' /\ Grows'
  <2> DEFINE d == Delta(data[s][u].total, row[s][u].last.total)
             new == Recorded(row[s][u], data[s][u], d)
  <2>1. data[s][u] \in Mark /\ row[s][u] \in Row
    BY <1>6 DEF Count, TypeOK, Map
  <2>2. d \in Nat /\ new \in Row /\ new.sum = row[s][u].sum + d /\ row[s][u].sum \in Nat
    BY <2>1, RecordedType DEF Row
  <2>3. /\ mine' = [mine EXCEPT ![s][u] = new] /\ added' = [added EXCEPT ![u] = @ + d]
        /\ row' = row
    BY <1>6 DEF Count
  <2> HIDE DEF d, new
  <2>4. mine' \in Map(Row \cup {None}) /\ Grows'
    BY <2>2, <2>3 DEF TypeOK, Map, Grows
  <2>5. added' \in [Users -> Nat]
    BY <2>2, <2>3 DEF TypeOK
  <2>6. data' \in Map(Mark \cup {None})
    BY <1>6 DEF Count, Handled, TypeOK, Map
  <2> QED BY <1>6, <2>4, <2>5, <2>6 DEF Count, TypeOK
<1>7. ASSUME NEW s \in Servers, NEW u \in Users, RowFails(s, u) PROVE TypeOK' /\ Grows'
  BY <1>7 DEF RowFails, Handled, TypeOK, Map, Grows
<1>8. CASE CommitPoll
  <2>1. row' \in Map(Row \cup {None})
    BY <1>8 DEF CommitPoll, TypeOK, Map
  <2>2. used' \in [Users -> Nat]
    BY <1>8 DEF CommitPoll, TypeOK
  <2>3. since' \in Map(Nat)
    <3>1. ASSUME NEW s \in Servers, NEW u \in Users
          PROVE  (IF mine[s][u] = None \/ row[s][u] = None THEN since[s][u]
                  ELSE since[s][u] + (mine[s][u].sum - row[s][u].sum)) \in Nat
      <4>1. since[s][u] \in Nat /\ mine[s][u] \in Row \cup {None} /\ row[s][u] \in Row \cup {None}
        BY DEF TypeOK, Map
      <4>2. CASE mine[s][u] # None /\ row[s][u] # None
        BY <4>1, <4>2 DEF Row, Grows
      <4> QED BY <4>1, <4>2
    <3> QED BY <1>8, <3>1 DEF CommitPoll, Map
  <2>4. /\ awake' \in BOOLEAN /\ ask' \subseteq Servers /\ data' \in Map(Mark \cup {None})
        /\ mine' \in Map(Row \cup {None}) /\ added' \in [Users -> Nat] /\ Grows'
    BY <1>8, ZeroTypes DEF CommitPoll, Asleep, Map, Nothing, Grows
  <2> QED BY <1>8, <2>1, <2>2, <2>3, <2>4 DEF CommitPoll, TypeOK
<1>9. CASE PollFails
  <2>1. /\ awake' \in BOOLEAN /\ ask' \subseteq Servers /\ data' \in Map(Mark \cup {None})
        /\ mine' \in Map(Row \cup {None}) /\ added' \in [Users -> Nat] /\ Grows'
    BY <1>9, ZeroTypes DEF PollFails, Asleep, Map, Nothing, Grows
  <2> QED BY <1>9, <2>1 DEF PollFails, TypeOK
<1>10. CASE FirstMonth
  BY <1>10 DEF FirstMonth, TypeOK, Grows
<1>11. CASE ResetBegins
  BY <1>11 DEF ResetBegins, TypeOK, Grows
<1>12. ASSUME NEW u \in Users, ResetLocks(u) PROVE TypeOK' /\ Grows'
  BY <1>12 DEF ResetLocks, TypeOK, Grows
<1>13. CASE CommitReset
  <2>1. used' \in [Users -> Nat] /\ since' \in Map(Nat)
    BY <1>13 DEF CommitReset, TypeOK, Map
  <2>2. holder' \in [Users \cup Servers -> {"free", "reset", "delete"}]
    BY <1>13 DEF CommitReset, Unlocked, TypeOK
  <2> QED BY <1>13, <2>1, <2>2 DEF CommitReset, TypeOK, Grows
<1>14. CASE ResetFails
  BY <1>14 DEF ResetFails, Unlocked, TypeOK, Grows
<1>15. CASE NextMonth
  BY <1>15 DEF NextMonth, TypeOK, Grows
<1>16. ASSUME NEW u \in Users, Register(u) \/ ResetTraffic(u) PROVE TypeOK' /\ Grows'
  <2>1. /\ used' = [used EXCEPT ![u] = 0]
        /\ since' = [s \in Servers |-> [since[s] EXCEPT ![u] = 0]]
    BY <1>16 DEF Register, ResetTraffic
  <2>2. \A s \in Servers : [since[s] EXCEPT ![u] = 0] \in [Users -> Nat]
    BY DEF TypeOK, Map
  <2>3. used' \in [Users -> Nat] /\ since' \in Map(Nat)
    BY <2>1, <2>2 DEF TypeOK, Map
  <2> QED BY <1>16, <2>3 DEF Register, ResetTraffic, Event, TypeOK, Grows
<1>17. ASSUME NEW s \in Servers, CreateServer(s) \/ SwitchServer(s) PROVE TypeOK' /\ Grows'
  BY <1>17 DEF CreateServer, SwitchServer, Event, TypeOK, Grows
<1>18. ASSUME NEW s \in Servers, MoveServer(s) PROVE TypeOK' /\ Grows'
  <2>1. counter' \in Map(Nat)
    BY <1>18, CollectorAssumption DEF MoveServer, TypeOK, Map
  <2> QED BY <1>18, <2>1 DEF MoveServer, Event, TypeOK, Grows
<1>19. ASSUME NEW x \in Users \cup Servers, DeleteLocks(x) PROVE TypeOK' /\ Grows'
  BY <1>19 DEF DeleteLocks, Event, TypeOK, Grows
<1>20. ASSUME NEW x \in Users \cup Servers, CommitDelete(x) PROVE TypeOK' /\ Grows'
  <2>1. row' \in Map(Row \cup {None}) /\ Grows'
    BY <1>20 DEF CommitDelete, Without, TypeOK, Map, Grows
  <2> QED BY <1>20, <2>1 DEF CommitDelete, TypeOK
<1>21. ASSUME NEW x \in Users \cup Servers, DeleteFails(x) PROVE TypeOK' /\ Grows'
  BY <1>21 DEF DeleteFails, TypeOK, Grows
<1>22. CASE Restart
  <2>1. /\ awake' \in BOOLEAN /\ ask' \subseteq Servers /\ data' \in Map(Mark \cup {None})
        /\ mine' \in Map(Row \cup {None}) /\ added' \in [Users -> Nat] /\ Grows'
    BY <1>22, ZeroTypes DEF Restart, Asleep, Map, Nothing, Grows
  <2> QED BY <1>22, <2>1 DEF Restart, TypeOK
<1>23. CASE UNCHANGED vars
  BY <1>23 DEF vars, TypeOK, Grows
<1> QED
  BY <1>1, <1>2, <1>3, <1>4, <1>5, <1>6, <1>7, <1>8, <1>9, <1>10, <1>11, <1>12,
     <1>13, <1>14, <1>15, <1>16, <1>17, <1>18, <1>19, <1>20, <1>21, <1>22, <1>23
  DEF Next, Poll, WriteRow, Upkeep, Deletion

\* Both hold in every behaviour.
LEMMA TypesAndGrowth == Spec => [](TypeOK /\ Grows)
<1>1. Init => TypeOK /\ Grows
  <2> SUFFICES ASSUME Init PROVE TypeOK /\ Grows
    OBVIOUS
  <2>1. server \in [Servers -> {"none", "on", "off", "gone"}]
    BY DEF Init
  <2>2. Grows
    BY DEF Init, Grows, Nothing
  <2>3. Nothing \in Map(Row \cup {None}) /\ Nothing \in Map(Mark \cup {None})
    BY ZeroTypes DEF Map
  <2>4. holder \in [Users \cup Servers -> {"free", "reset", "delete"}]
    BY DEF Init
  <2>5. moved \in [Servers -> BOOLEAN]
    BY DEF Init
  <2> QED BY <2>1, <2>2, <2>3, <2>4, <2>5, ZeroTypes DEF Init, TypeOK
<1>2. TypeOK /\ Grows /\ [Next]_vars => (TypeOK /\ Grows)'
  BY TypesStep
<1> QED BY <1>1, <1>2, PTL DEF Spec

\* TypeOK: every variable keeps its type in every behaviour.
THEOREM TypeCorrect == Spec => []TypeOK
BY TypesAndGrowth, PTL

-----------------------------------------------------------------------------
\* A mark (a counter value, and what had been sent by then) is of the run of
\* Hysteria that now stands at c of o bytes, or of an earlier one.
Placed(m, o, c) == /\ m.total <= m.at /\ m.at <= o
                   /\ m.at - m.total = o - c \/ m.at <= o - c

\* The same of two marks: the older one is of the run of the newer, or earlier.
Before(m, n) == /\ m.at <= n.at
                /\ m.at - m.total = n.at - n.total \/ m.at <= n.at - n.total

\* What a row says of the bytes between its first baseline and its last mark.
Sound(r) == /\ r.from <= r.last.at /\ r.sum <= r.last.at - r.from
            /\ r.exact => r.sum = r.last.at - r.from

\* All of it, for one account on one server.
InPlace(s, u) ==
    /\ counter[s][u] <= sent[s][u]
    /\ data[s][u] # None => Placed(data[s][u], sent[s][u], counter[s][u])
    /\ row[s][u] # None => Placed(row[s][u].last, sent[s][u], counter[s][u]) /\ Sound(row[s][u])
    /\ mine[s][u] # None => Placed(mine[s][u].last, sent[s][u], counter[s][u]) /\ Sound(mine[s][u])
    /\ row[s][u] # None /\ data[s][u] # None => Before(row[s][u].last, data[s][u])

AllInPlace == \A s \in Servers, u \in Users : ~moved[s] => InPlace(s, u)

\* The rule of _collect_server: the difference never exceeds what was carried
\* between the two marks, and is all of it when neither a restart nor the cap
\* came in between.
LEMMA RecordedSound ==
    ASSUME NEW old \in Row, NEW new \in Mark, Sound(old), Before(old.last, new),
           new.total <= new.at, old.last.total <= old.last.at
    PROVE  Sound(Recorded(old, new, Delta(new.total, old.last.total)))
<1> DEFINE d == Delta(new.total, old.last.total)
           r == Recorded(old, new, d)
<1>1. /\ new.total \in Nat /\ new.at \in Nat
      /\ old.last.total \in Nat /\ old.last.at \in Nat
      /\ old.sum \in Nat /\ old.from \in Nat
  BY DEF Mark, Row
<1>2. d \in Nat /\ d <= new.at - old.last.at
  BY <1>1, CollectorAssumption DEF Delta, Growth, Before
<1>3. ASSUME new.at - new.total = old.last.at - old.last.total,
             Growth(new.total, old.last.total) <= Cap
      PROVE  d = new.at - old.last.at
  BY <1>1, <1>3, CollectorAssumption DEF Delta, Growth, Before
<1> HIDE DEF d
<1>4. /\ r.last = new /\ r.from = old.from /\ r.sum = old.sum + d
      /\ r.exact => /\ old.exact /\ new.at - new.total = old.last.at - old.last.total
                    /\ Growth(new.total, old.last.total) <= Cap
  BY DEF Recorded
<1> HIDE DEF r
<1>5. r.from <= r.last.at /\ r.sum <= r.last.at - r.from
  BY <1>1, <1>2, <1>4 DEF Sound, Before
<1>6. r.exact => r.sum = r.last.at - r.from
  BY <1>1, <1>3, <1>4 DEF Sound
<1> QED BY <1>5, <1>6 DEF Sound, r, d

\* The marks stay in their places.
LEMMA PlacesStep == TypeOK /\ AllInPlace /\ [Next]_vars => AllInPlace'
<1> SUFFICES ASSUME TypeOK, AllInPlace, [Next]_vars,
                    NEW s \in Servers, NEW u \in Users, ~moved'[s]
             PROVE  InPlace(s, u)'
  BY DEF AllInPlace
<1> USE DEF world, polling, upkeep
<1>0. /\ counter[s][u] \in Nat /\ sent[s][u] \in Nat
      /\ data[s][u] \in Mark \cup {None}
      /\ row[s][u] \in Row \cup {None} /\ mine[s][u] \in Row \cup {None}
  BY DEF TypeOK, Map
<1>a. ASSUME ~moved[s] PROVE InPlace(s, u)
  BY <1>a DEF AllInPlace
<1>b. ASSUME ~moved[s], UNCHANGED <<counter, sent, data, row, mine>> PROVE InPlace(s, u)'
  BY <1>a, <1>b DEF InPlace
<1>c. ASSUME ~moved[s], UNCHANGED <<counter, sent>>, data' = Nothing, mine' = Nothing,
             row'[s][u] \in {row[s][u], None}
      PROVE  InPlace(s, u)'
  BY <1>0, <1>a, <1>c DEF InPlace, Nothing
<1>1. ASSUME NEW z \in Servers, NEW v \in Users, Carry(z, v) PROVE InPlace(s, u)'
  <2>1. ~moved[s] /\ UNCHANGED <<data, row, mine>>
    BY <1>1 DEF Carry
  <2>2. CASE s = z /\ u = v
    <3>1. counter'[s][u] = counter[s][u] + 1 /\ sent'[s][u] = sent[s][u] + 1
      BY <1>1, <2>2 DEF Carry, TypeOK, Map
    <3>2. ASSUME NEW m \in Mark, Placed(m, sent[s][u], counter[s][u])
          PROVE  Placed(m, sent'[s][u], counter'[s][u])
      BY <1>0, <3>1, <3>2 DEF Placed, Mark
    <3> QED BY <1>0, <1>a, <2>1, <3>1, <3>2 DEF InPlace, Row
  <2>3. CASE ~(s = z /\ u = v)
    <3>1. counter'[s][u] = counter[s][u] /\ sent'[s][u] = sent[s][u]
      BY <1>1, <2>3 DEF Carry, TypeOK, Map
    <3> QED BY <1>a, <2>1, <3>1 DEF InPlace
  <2> QED BY <2>2, <2>3
<1>2. ASSUME NEW z \in Servers, RestartHysteria(z) PROVE InPlace(s, u)'
  <2>1. ~moved[s] /\ UNCHANGED <<sent, data, row, mine>>
    BY <1>2 DEF RestartHysteria
  <2>2. counter'[s][u] \in {0, counter[s][u]}
    BY <1>2 DEF RestartHysteria, TypeOK, Map, Zero
  <2>3. ASSUME NEW m \in Mark, Placed(m, sent[s][u], counter[s][u])
        PROVE  Placed(m, sent'[s][u], counter'[s][u])
    BY <1>0, <2>1, <2>2, <2>3 DEF Placed, Mark
  <2> QED BY <1>0, <1>a, <2>1, <2>2, <2>3 DEF InPlace, Row
<1>3. CASE Wake
  BY <1>3, <1>b DEF Wake
<1>4. ASSUME NEW z \in Servers, Fetch(z) PROVE InPlace(s, u)'
  <2>1. ~moved[s] /\ UNCHANGED <<counter, sent, row, mine>>
    BY <1>4 DEF Fetch
  <2>2. data'[s][u] \in {data[s][u], Answer(s)[u]}
    <3>1. data' = data \/ data' = [data EXCEPT ![z] = Answer(z)]
      BY <1>4 DEF Fetch
    <3>2. ASSUME data' = [data EXCEPT ![z] = Answer(z)]
          PROVE  data'[s] = IF s = z THEN Answer(s) ELSE data[s]
      BY <3>2 DEF TypeOK, Map
    <3> QED BY <3>1, <3>2
  <2>3. CASE data'[s][u] = data[s][u]
    BY <1>a, <2>1, <2>3 DEF InPlace
  <2>4. CASE data'[s][u] = Answer(s)[u] /\ data'[s][u] # None
    <3>1. data'[s][u] = [total |-> counter[s][u], at |-> sent[s][u]]
      BY <2>4 DEF Answer
    <3>2. Placed(data'[s][u], sent[s][u], counter[s][u])
      BY <1>0, <1>a, <2>1, <3>1 DEF Placed, InPlace
    <3>3. row[s][u] # None => Before(row[s][u].last, data'[s][u])
      BY <1>0, <1>a, <2>1, <3>1 DEF Placed, Before, InPlace
    <3> QED BY <1>a, <2>1, <3>2, <3>3 DEF InPlace
  <2>5. CASE data'[s][u] = None
    BY <1>a, <2>1, <2>5 DEF InPlace
  <2> QED BY <2>2, <2>3, <2>4, <2>5
<1>5. ASSUME NEW z \in Servers, NEW v \in Users, Baseline(z, v) PROVE InPlace(s, u)'
  <2>1. ~moved[s] /\ UNCHANGED <<counter, sent, row>>
    BY <1>5 DEF Baseline
  <2>2. CASE s = z /\ u = v
    <3>1. data[s][u] # None /\ data'[s][u] = None
      BY <1>5, <2>2 DEF Baseline, Handled, TypeOK, Map
    <3>2. mine'[s][u] = [last |-> data[s][u], from |-> data[s][u].at, sum |-> 0, exact |-> TRUE]
      BY <1>5, <2>2 DEF Baseline, TypeOK, Map
    <3>3. Sound(mine'[s][u])
      BY <1>0, <3>1, <3>2 DEF Sound, Mark
    <3> QED BY <1>a, <2>1, <3>1, <3>2, <3>3 DEF InPlace
  <2>3. CASE ~(s = z /\ u = v)
    <3>1. data'[s][u] = data[s][u] /\ mine'[s][u] = mine[s][u]
      BY <1>5, <2>3 DEF Baseline, Handled, TypeOK, Map
    <3> QED BY <1>a, <2>1, <3>1 DEF InPlace
  <2> QED BY <2>2, <2>3
<1>6. ASSUME NEW z \in Servers, NEW v \in Users, Count(z, v) PROVE InPlace(s, u)'
  <2>1. ~moved[s] /\ UNCHANGED <<counter, sent, row>>
    BY <1>6 DEF Count
  <2>2. CASE s = z /\ u = v
    <3>1. data[s][u] # None /\ row[s][u] # None /\ data'[s][u] = None
      BY <1>6, <2>2 DEF Count, Handled, TypeOK, Map
    <3>2. mine'[s][u] = Recorded(row[s][u], data[s][u], Delta(data[s][u].total, row[s][u].last.total))
      BY <1>6, <2>2 DEF Count, TypeOK, Map
    <3>3. /\ Placed(data[s][u], sent[s][u], counter[s][u])
          /\ Placed(row[s][u].last, sent[s][u], counter[s][u])
          /\ Sound(row[s][u]) /\ Before(row[s][u].last, data[s][u])
      BY <1>a, <2>1, <3>1 DEF InPlace
    <3>4. Sound(mine'[s][u])
      BY <1>0, <3>1, <3>2, <3>3, RecordedSound DEF Placed
    <3>5. mine'[s][u].last = data[s][u]
      BY <3>2 DEF Recorded
    <3> QED BY <1>a, <2>1, <3>1, <3>3, <3>4, <3>5 DEF InPlace
  <2>3. CASE ~(s = z /\ u = v)
    <3>1. data'[s][u] = data[s][u] /\ mine'[s][u] = mine[s][u]
      BY <1>6, <2>3 DEF Count, Handled, TypeOK, Map
    <3> QED BY <1>a, <2>1, <3>1 DEF InPlace
  <2> QED BY <2>2, <2>3
<1>7. ASSUME NEW z \in Servers, NEW v \in Users, RowFails(z, v) PROVE InPlace(s, u)'
  <2>1. ~moved[s] /\ UNCHANGED <<counter, sent, row, mine>>
    BY <1>7 DEF RowFails
  <2>2. data'[s][u] \in {data[s][u], None}
    BY <1>7 DEF RowFails, Handled, TypeOK, Map
  <2> QED BY <1>a, <2>1, <2>2 DEF InPlace
<1>8. CASE CommitPoll
  <2>1. ~moved[s] /\ UNCHANGED <<counter, sent>> /\ data'[s][u] = None /\ mine'[s][u] = None
    BY <1>8 DEF CommitPoll, Asleep, Nothing
  <2>2. row'[s][u] = IF mine[s][u] = None THEN row[s][u] ELSE mine[s][u]
    BY <1>8 DEF CommitPoll
  <2> QED BY <1>a, <2>1, <2>2 DEF InPlace
<1>9. CASE PollFails
  BY <1>9, <1>c DEF PollFails, Asleep
<1>10. CASE FirstMonth \/ ResetBegins \/ CommitReset \/ ResetFails \/ NextMonth
  BY <1>10, <1>b DEF FirstMonth, ResetBegins, CommitReset, ResetFails, NextMonth
<1>11. ASSUME NEW v \in Users, ResetLocks(v) \/ Register(v) \/ ResetTraffic(v)
       PROVE  InPlace(s, u)'
  BY <1>11, <1>b DEF ResetLocks, Register, ResetTraffic
<1>12. ASSUME NEW z \in Servers, CreateServer(z) \/ SwitchServer(z) PROVE InPlace(s, u)'
  BY <1>12, <1>b DEF CreateServer, SwitchServer
<1>13. ASSUME NEW z \in Servers, MoveServer(z) PROVE InPlace(s, u)'
  <2>1. z # s /\ ~moved[s]
    BY <1>13 DEF MoveServer, TypeOK
  <2>2. counter'[s][u] = counter[s][u]
    BY <1>13, <2>1 DEF MoveServer, TypeOK, Map
  <2> QED BY <1>13, <1>a, <2>1, <2>2 DEF MoveServer, InPlace
<1>14. ASSUME NEW x \in Users \cup Servers, DeleteLocks(x) \/ DeleteFails(x) PROVE InPlace(s, u)'
  BY <1>14, <1>b DEF DeleteLocks, DeleteFails
<1>15. ASSUME NEW x \in Users \cup Servers, CommitDelete(x) PROVE InPlace(s, u)'
  <2>1. ~moved[s] /\ UNCHANGED <<counter, sent, data, mine>>
    BY <1>15 DEF CommitDelete
  <2>2. row'[s][u] \in {row[s][u], None}
    BY <1>15 DEF CommitDelete, Without
  <2> QED BY <1>a, <2>1, <2>2 DEF InPlace
<1>16. CASE Restart
  BY <1>16, <1>c DEF Restart, Asleep
<1>17. CASE UNCHANGED vars
  BY <1>17, <1>b DEF vars
<1> QED
  BY <1>1, <1>2, <1>3, <1>4, <1>5, <1>6, <1>7, <1>8, <1>9, <1>10, <1>11, <1>12,
     <1>13, <1>14, <1>15, <1>16, <1>17
  DEF Next, Poll, WriteRow, Upkeep, Deletion

\* EachByteOnce: whatever restarts, failures, deletions and resets a poll meets,
\* the rule of _collect_server records no byte twice, and loses one only to a
\* restart of Hysteria, the cap or a change of the server's address.
THEOREM NoByteTwice == Spec => []EachByteOnce
<1>1. Init => AllInPlace
  BY DEF Init, AllInPlace, InPlace, ZeroEach, Zero, Nothing
<1>2. TypeOK /\ AllInPlace /\ [Next]_vars => AllInPlace'
  BY PlacesStep
<1>3. AllInPlace => EachByteOnce
  BY DEF AllInPlace, InPlace, Sound, EachByteOnce
<1> QED BY <1>1, <1>2, <1>3, TypeCorrect, PTL DEF Spec


-----------------------------------------------------------------------------
\* What the poll will add to traffic_5m of one account on one server.
Adding(s, u) == IF mine[s][u] = None \/ row[s][u] = None THEN 0
                ELSE mine[s][u].sum - row[s][u].sum

AddingOf(u) == [s \in Servers |-> Adding(s, u)]
SinceOf(u) == [s \in Servers |-> since[s][u]]

\* What is committed balances, and so does what the open transaction adds; it
\* has written a row only of an answer that is handled, and none before the
\* last server has answered.
Balanced ==
    /\ \A u \in Users : used[u] = SumFunction(SinceOf(u))
    /\ \A u \in Users : added[u] = SumFunction(AddingOf(u))
    /\ \A s \in Servers, u \in Users : data[s][u] # None => mine[s][u] = None
    /\ ~awake \/ ask # {} => mine = Nothing /\ added = Zero
    /\ ~awake => ask = {}

LEMMA SumTypes ==
    ASSUME TypeOK, Grows, NEW u \in Users
    PROVE  SinceOf(u) \in [Servers -> Nat] /\ AddingOf(u) \in [Servers -> Nat]
<1>1. ASSUME NEW s \in Servers PROVE Adding(s, u) \in Nat
  <2>1. mine[s][u] \in Row \cup {None} /\ row[s][u] \in Row \cup {None}
    BY DEF TypeOK, Map
  <2>2. CASE mine[s][u] # None /\ row[s][u] # None
    BY <2>1, <2>2 DEF Adding, Grows, Row
  <2> QED BY <2>2 DEF Adding
<1>2. \A s \in Servers : since[s][u] \in Nat
  BY DEF TypeOK, Map
<1> QED BY <1>1, <1>2 DEF SinceOf, AddingOf

\* A rolled back or finished transaction adds nothing.
LEMMA AsleepBalanced ==
    ASSUME Asleep, \A u \in Users : used'[u] = SumFunction(SinceOf(u)')
    PROVE  Balanced'
<1>1. ASSUME NEW u \in Users PROVE added'[u] = SumFunction(AddingOf(u)')
  <2>1. AddingOf(u)' = [s \in Servers |-> 0] /\ added'[u] = 0
    BY DEF Asleep, AddingOf, Adding, Nothing, Zero
  <2> QED BY <2>1, SumZero, CollectorAssumption
<1> QED BY <1>1 DEF Asleep, Balanced, Nothing, Zero

\* The books stay balanced.
LEMMA BalanceStep == TypeOK /\ Grows /\ Balanced /\ [Next]_vars => Balanced'
<1> SUFFICES ASSUME TypeOK, Grows, Balanced, [Next]_vars PROVE Balanced'
  OBVIOUS
<1> USE DEF world, polling, upkeep
<1>a. ASSUME UNCHANGED <<used, row, since, awake, ask, data, mine, added>> PROVE Balanced'
  BY <1>a DEF Balanced, SinceOf, AddingOf, Adding
<1>b. ASSUME UNCHANGED <<used, since>>, Asleep PROVE Balanced'
  <2>1. \A u \in Users : used'[u] = SumFunction(SinceOf(u)')
    BY <1>b DEF Balanced, SinceOf
  <2> QED BY <1>b, <2>1, AsleepBalanced
<1>1. CASE Wake
  BY <1>1 DEF Wake, Balanced, SinceOf, AddingOf, Adding
<1>2. ASSUME NEW z \in Servers, Fetch(z) PROVE Balanced'
  <2>1. mine = Nothing /\ added = Zero /\ awake
    BY <1>2 DEF Fetch, Balanced
  <2>2. UNCHANGED <<used, row, since, awake, mine, added>>
    BY <1>2 DEF Fetch
  <2>3. \A u \in Users : SinceOf(u)' = SinceOf(u) /\ AddingOf(u)' = AddingOf(u)
    BY <2>2 DEF SinceOf, AddingOf, Adding
  <2> QED BY <2>1, <2>2, <2>3 DEF Balanced, Nothing
<1>3. ASSUME NEW z \in Servers, NEW v \in Users, Baseline(z, v) PROVE Balanced'
  <2>1. /\ UNCHANGED <<used, row, since, awake, ask, added>> /\ awake /\ ask = {}
        /\ row[z][v] = None
    BY <1>3 DEF Baseline, Writing
  <2>2. ASSUME NEW s \in Servers, NEW u \in Users
        PROVE  /\ Adding(s, u)' = Adding(s, u)
               /\ data'[s][u] # None => mine'[s][u] = None
    <3>1. CASE s = z /\ u = v
      BY <1>3, <2>1, <3>1 DEF Baseline, Handled, Adding, TypeOK, Map
    <3>2. CASE ~(s = z /\ u = v)
      <4>1. data'[s][u] = data[s][u] /\ mine'[s][u] = mine[s][u]
        BY <1>3, <3>2 DEF Baseline, Handled, TypeOK, Map
      <4> QED BY <2>1, <4>1 DEF Adding, Balanced
    <3> QED BY <3>1, <3>2
  <2>3. \A u \in Users : SinceOf(u)' = SinceOf(u) /\ AddingOf(u)' = AddingOf(u)
    BY <2>1, <2>2 DEF SinceOf, AddingOf
  <2> QED BY <2>1, <2>2, <2>3 DEF Balanced
<1>4. ASSUME NEW z \in Servers, NEW v \in Users, Count(z, v) PROVE Balanced'
  <2> DEFINE d == Delta(data[z][v].total, row[z][v].last.total)
             new == Recorded(row[z][v], data[z][v], d)
  <2>1. /\ UNCHANGED <<used, row, since, awake, ask>> /\ awake /\ ask = {}
        /\ data[z][v] # None /\ row[z][v] # None /\ mine[z][v] = None
    BY <1>4 DEF Count, Writing, Balanced
  <2>2. data[z][v] \in Mark /\ row[z][v] \in Row
    BY <2>1 DEF TypeOK, Map
  <2>3. d \in Nat /\ new \in Row /\ new.sum = row[z][v].sum + d /\ row[z][v].sum \in Nat
    BY <2>2, RecordedType DEF Row
  <2>4. mine' = [mine EXCEPT ![z][v] = new] /\ added' = [added EXCEPT ![v] = @ + d]
    BY <1>4 DEF Count
  <2> HIDE DEF d, new
  <2>5. Adding(z, v) = 0 /\ Adding(z, v)' = d
    <3>1. mine'[z][v] = new /\ new # None
      BY <2>3, <2>4, CollectorAssumption DEF TypeOK, Map, Row, Mark
    <3> QED BY <2>1, <2>3, <3>1 DEF Adding
  <2>6. ASSUME NEW s \in Servers, NEW u \in Users, ~(s = z /\ u = v)
        PROVE  mine'[s][u] = mine[s][u] /\ Adding(s, u)' = Adding(s, u)
    <3>1. mine'[s][u] = mine[s][u]
      BY <2>4, <2>6 DEF TypeOK, Map
    <3> QED BY <2>1, <3>1 DEF Adding
  <2>7. added'[v] = SumFunction(AddingOf(v)')
    <3>1. AddingOf(v)' = [AddingOf(v) EXCEPT ![z] = @ + d]
      <4>1. \A s \in Servers : Adding(s, v)' = IF s = z THEN Adding(s, v) + d ELSE Adding(s, v)
        BY <2>3, <2>5, <2>6
      <4> QED BY <4>1 DEF AddingOf
    <3>2. SumFunction([AddingOf(v) EXCEPT ![z] = @ + d]) = SumFunction(AddingOf(v)) + d
      BY <2>3, SumTypes, SumUpdate, CollectorAssumption
    <3>3. added'[v] = added[v] + d
      BY <2>4 DEF TypeOK
    <3> QED BY <3>1, <3>2, <3>3 DEF Balanced
  <2>8. ASSUME NEW u \in Users, u # v PROVE added'[u] = SumFunction(AddingOf(u)')
    <3>1. AddingOf(u)' = AddingOf(u)
      BY <2>6, <2>8 DEF AddingOf
    <3>2. added'[u] = added[u]
      BY <2>4, <2>8 DEF TypeOK
    <3> QED BY <3>1, <3>2 DEF Balanced
  <2>9. \A s \in Servers, u \in Users : data'[s][u] # None => mine'[s][u] = None
    BY <1>4, <2>6 DEF Count, Handled, TypeOK, Map, Balanced
  <2>10. \A u \in Users : SinceOf(u)' = SinceOf(u)
    BY <2>1 DEF SinceOf
  <2> QED BY <2>1, <2>7, <2>8, <2>9, <2>10 DEF Balanced
<1>5. ASSUME NEW z \in Servers, NEW v \in Users, RowFails(z, v) PROVE Balanced'
  <2>1. UNCHANGED <<used, row, since, awake, ask, mine, added>>
    BY <1>5 DEF RowFails
  <2>2. \A s \in Servers, u \in Users : data'[s][u] \in {data[s][u], None}
    BY <1>5 DEF RowFails, Handled, TypeOK, Map
  <2> QED BY <2>1, <2>2 DEF Balanced, SinceOf, AddingOf, Adding
<1>6. CASE CommitPoll
  <2>1. ASSUME NEW u \in Users PROVE used'[u] = SumFunction(SinceOf(u)')
    <3> DEFINE f == SinceOf(u)
               g == AddingOf(u)
    <3>1. f \in [Servers -> Nat] /\ g \in [Servers -> Nat]
      BY SumTypes
    <3>2. SinceOf(u)' = [s \in Servers |-> f[s] + g[s]]
      <4>1. ASSUME NEW s \in Servers PROVE since'[s][u] = since[s][u] + Adding(s, u)
        <5>1. since'[s][u] = IF mine[s][u] = None \/ row[s][u] = None THEN since[s][u]
                             ELSE since[s][u] + (mine[s][u].sum - row[s][u].sum)
          BY <1>6 DEF CommitPoll
        <5>2. since[s][u] \in Nat
          BY DEF TypeOK, Map
        <5> QED BY <5>1, <5>2 DEF Adding
      <4> QED BY <4>1 DEF SinceOf, AddingOf
    <3>3. used'[u] = used[u] + added[u]
      BY <1>6 DEF CommitPoll
    <3>4. used[u] = SumFunction(f) /\ added[u] = SumFunction(g)
      BY DEF Balanced
    <3> HIDE DEF f, g
    <3> QED BY <3>1, <3>2, <3>3, <3>4, SumAdd, CollectorAssumption
  <2> QED BY <1>6, <2>1, AsleepBalanced DEF CommitPoll
<1>7. CASE PollFails \/ Restart
  BY <1>7, <1>b DEF PollFails, Restart
<1>8. CASE CommitReset
  <2>1. ASSUME NEW u \in Users PROVE used'[u] = SumFunction(SinceOf(u)')
    <3>1. CASE holder[u] = "reset"
      <4>1. used'[u] = 0 /\ SinceOf(u)' = [s \in Servers |-> 0]
        BY <1>8, <3>1 DEF CommitReset, SinceOf
      <4> QED BY <4>1, SumZero, CollectorAssumption
    <3>2. CASE holder[u] # "reset"
      <4>1. used'[u] = used[u] /\ SinceOf(u)' = SinceOf(u)
        BY <1>8, <3>2 DEF CommitReset, SinceOf
      <4> QED BY <4>1 DEF Balanced
    <3> QED BY <3>1, <3>2
  <2> QED BY <1>8, <2>1 DEF CommitReset, Balanced, AddingOf, Adding
<1>9. ASSUME NEW v \in Users, Register(v) \/ ResetTraffic(v) PROVE Balanced'
  <2>1. /\ used' = [used EXCEPT ![v] = 0]
        /\ since' = [s \in Servers |-> [since[s] EXCEPT ![v] = 0]]
        /\ UNCHANGED <<row, awake, ask, data, mine, added>>
    BY <1>9 DEF Register, ResetTraffic
  <2>2. ASSUME NEW u \in Users PROVE used'[u] = SumFunction(SinceOf(u)')
    <3>1. CASE u = v
      <4>1. used'[u] = 0
        BY <2>1, <3>1 DEF TypeOK
      <4>2. SinceOf(u)' = [s \in Servers |-> 0]
        BY <2>1, <3>1 DEF SinceOf, TypeOK, Map
      <4> QED BY <4>1, <4>2, SumZero, CollectorAssumption
    <3>2. CASE u # v
      <4>1. used'[u] = used[u] /\ SinceOf(u)' = SinceOf(u)
        BY <2>1, <3>2 DEF SinceOf, TypeOK, Map
      <4> QED BY <4>1 DEF Balanced
    <3> QED BY <3>1, <3>2
  <2> QED BY <2>1, <2>2 DEF Balanced, AddingOf, Adding
<1>10. ASSUME NEW x \in Users \cup Servers, CommitDelete(x) PROVE Balanced'
  <2>1. UNCHANGED <<used, since, awake, ask, data, mine, added>>
    BY <1>10 DEF CommitDelete
  <2>2. ASSUME NEW s \in Servers, NEW u \in Users PROVE Adding(s, u)' = Adding(s, u)
    <3>1. mine[s][u] # None => row'[s][u] = row[s][u]
      BY <1>10 DEF CommitDelete, Touched, Without
    <3> QED BY <2>1, <3>1 DEF Adding
  <2> QED BY <2>1, <2>2 DEF Balanced, SinceOf, AddingOf
<1>11. CASE FirstMonth \/ ResetBegins \/ ResetFails \/ NextMonth
  BY <1>11, <1>a DEF FirstMonth, ResetBegins, ResetFails, NextMonth
<1>12. ASSUME NEW s \in Servers,
              RestartHysteria(s) \/ CreateServer(s) \/ SwitchServer(s) \/ MoveServer(s)
       PROVE  Balanced'
  BY <1>12, <1>a DEF RestartHysteria, CreateServer, SwitchServer, MoveServer
<1>13. ASSUME NEW s \in Servers, NEW u \in Users, Carry(s, u) PROVE Balanced'
  BY <1>13, <1>a DEF Carry
<1>14. ASSUME NEW u \in Users, ResetLocks(u) PROVE Balanced'
  BY <1>14, <1>a DEF ResetLocks
<1>15. ASSUME NEW x \in Users \cup Servers, DeleteLocks(x) \/ DeleteFails(x) PROVE Balanced'
  BY <1>15, <1>a DEF DeleteLocks, DeleteFails
<1>16. CASE UNCHANGED vars
  BY <1>16, <1>a DEF vars
<1> QED
  BY <1>1, <1>2, <1>3, <1>4, <1>5, <1>6, <1>7, <1>8, <1>9, <1>10, <1>11, <1>12,
     <1>13, <1>14, <1>15, <1>16
  DEF Next, Poll, WriteRow, Upkeep, Deletion

\* UsedIsSum: usedTraffic is what was added to traffic_5m since its last reset,
\* summed over all servers, whatever polls, resets, deletions and restarts run
\* into one another.
THEOREM UsedTrafficIsSum == Spec => []UsedIsSum
<1>1. Init => Balanced
  <2> SUFFICES ASSUME Init PROVE Balanced
    OBVIOUS
  <2>1. ASSUME NEW u \in Users
        PROVE  used[u] = SumFunction(SinceOf(u)) /\ added[u] = SumFunction(AddingOf(u))
    <3>1. SinceOf(u) = [s \in Servers |-> 0] /\ AddingOf(u) = [s \in Servers |-> 0]
      BY DEF Init, SinceOf, AddingOf, Adding, ZeroEach, Zero, Nothing
    <3> QED BY <3>1, SumZero, CollectorAssumption DEF Init, Zero
  <2> QED BY <2>1 DEF Init, Balanced, Nothing, Zero
<1>2. TypeOK /\ Grows /\ Balanced /\ [Next]_vars => Balanced'
  BY BalanceStep
<1>3. TypeOK /\ Balanced => UsedIsSum
  BY DEF TypeOK, Balanced, SinceOf, UsedIsSum
<1> QED BY <1>1, <1>2, <1>3, TypesAndGrowth, PTL DEF Spec
=============================================================================
