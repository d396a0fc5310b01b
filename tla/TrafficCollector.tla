-------------------------- MODULE TrafficCollector --------------------------
(***************************************************************************)
(* How traffic is counted: the counters of the Hysteria servers, the poll  *)
(* that fetches them and then writes differences in one transaction, the   *)
(* monthly reset of maintenance.py, and the administration of users and    *)
(* servers meanwhile.                                                      *)
(*                                                                         *)
(* A poll writes account by account under a savepoint, so a block of       *)
(* statements is one step that is done or not done.  What it has written   *)
(* is its own until it commits, and the rows it has touched are locked.    *)
(***************************************************************************)
EXTENDS Naturals, FiniteSets, Functions

CONSTANTS Users, Servers,
          Bytes,        \* bound: Bytes[s][u], what an account sends over a server
          Cap,          \* _MAX_REASONABLE_DELTA_GB
          MaxEvents,    \* bound: restarts of Hysteria, changes, deletions, resets by hand
          MaxMonth,     \* bound: months
          None          \* no row, no entry

ASSUME CollectorAssumption ==
    /\ Users \cap Servers = {} /\ IsFiniteSet(Servers)
    /\ Bytes \in [Servers -> [Users -> Nat]]
    /\ Cap \in Nat /\ MaxEvents \in Nat /\ MaxMonth \in Nat \ {0}
    /\ None \notin [total : Nat, at : Nat]
    /\ None \notin [last : [total : Nat, at : Nat], from : Nat, sum : Nat, exact : BOOLEAN]

VARIABLES account,      \* users: the accounts there are
          used,         \* users.usedTraffic
          server,       \* servers: is there a row, is it active
          moved,        \* the row's hysteria_url was changed
          counter,      \* Hysteria: bytes since it was started
          sent,         \* bytes ever carried
          events,       \* how many of these so far
          row,          \* traffic_last and the rows of traffic_5m with it
          since,        \* deltas added since usedTraffic was 0
          awake,        \* a poll is under way
          ask,          \* the servers it has yet to ask
          data,         \* what the others have answered and is not written yet
          mine,         \* its transaction: rows it has written
          added,        \* ... and what it has added to usedTraffic
          holder,       \* who else has locked a row of users or servers
          month,        \* the calendar
          done,         \* maintenance_state, 0 for no row
          target,       \* the month the reset under way is for, or 0
          todo          \* users it has still to lock

world == <<counter, sent, events, moved>>
polling == <<awake, ask, data, mine, added>>
upkeep == <<month, done, target, todo>>
vars == <<account, used, server, row, since, holder, world, polling, upkeep>>

\* at: all that had been carried when the counter stood at total.
Mark == [total : Nat, at : Nat]
\* from: where the first baseline was; sum: of all deltas written to traffic_5m;
\* exact: no restart and no discarded delta lies between from and last.  (Old
\* buckets are deleted after a week; sum is of all there were.)
Row == [last : Mark, from : Nat, sum : Nat, exact : BOOLEAN]

Nothing == [s \in Servers |-> [u \in Users |-> None]]
Zero == [u \in Users |-> 0]
ZeroEach == [s \in Servers |-> Zero]

\* Nobody is registered, and the maintenance has not run yet.
Init == /\ account = {} /\ used = Zero
        /\ server \in [Servers -> {"none", "on"}] /\ moved = [s \in Servers |-> FALSE]
        /\ counter = ZeroEach /\ sent = ZeroEach /\ events = 0
        /\ row = Nothing /\ since = ZeroEach
        /\ awake = FALSE /\ ask = {} /\ data = Nothing /\ mine = Nothing /\ added = Zero
        /\ holder = [x \in Users \cup Servers |-> "free"]
        /\ month = 1 /\ done = 0 /\ target = 0 /\ todo = {}

\* The bound on what is not everyday traffic.
Event == events < MaxEvents /\ events' = events + 1

-----------------------------------------------------------------------------
(* Hysteria                                                                *)

\* An account that was deleted may be connected still; one that never was there is not.
Carry(s, u) ==
    /\ sent[s][u] < Bytes[s][u] /\ (u \in account \/ sent[s][u] > 0)
    /\ counter' = [counter EXCEPT ![s][u] = @ + 1]
    /\ sent' = [sent EXCEPT ![s][u] = @ + 1]
    /\ UNCHANGED <<account, used, server, row, since, holder, events, moved, polling, upkeep>>

RestartHysteria(s) ==
    /\ Event
    /\ counter' = [counter EXCEPT ![s] = Zero]
    /\ UNCHANGED <<account, used, server, row, since, holder, sent, moved, polling, upkeep>>

-----------------------------------------------------------------------------
(* The poll: _collect_once                                                 *)

Wake == /\ ~awake
        /\ ask' = {s \in Servers : server[s] = "on"}
        /\ ask' # {} /\ awake' = TRUE
        /\ UNCHANGED <<account, used, server, row, since, holder, world, data, mine, added, upkeep>>

\* The server lists who has sent something since it was started.
Answer(s) == [u \in Users |->
    IF counter[s][u] = 0 THEN None ELSE [total |-> counter[s][u], at |-> sent[s][u]]]

\* An error or a time-out is an answer with nobody in it.
Fetch(s) ==
    /\ s \in ask /\ ask' = ask \ {s}
    /\ data' \in {data, [data EXCEPT ![s] = Answer(s)]}
    /\ UNCHANGED <<account, used, server, row, since, holder, world, awake, mine, added, upkeep>>

Writing == awake /\ ask = {}
Handled(s, u) == data' = [data EXCEPT ![s][u] = None]

\* A counter that has shrunk has been started again.
Growth(new, old) == IF new >= old THEN new - old ELSE new

Delta(new, old) == IF Growth(new, old) > Cap THEN 0 ELSE Growth(new, old)

\* Rows of the transaction that a deletion of x would have to remove.
Touched(x) == \E s \in Servers, u \in Users : x \in {s, u} /\ mine[s][u] # None

\* The INSERT of a first row or of a bucket looks at both parents, which a
\* deletion may have.
Blocked(s, u) == holder[s] = "delete" \/ holder[u] = "delete"

\* First seen: a baseline, and no delta.
Baseline(s, u) ==
    /\ Writing /\ data[s][u] # None /\ row[s][u] = None
    /\ u \in account /\ server[s] \in {"on", "off"} /\ ~Blocked(s, u)
    /\ mine' = [mine EXCEPT ![s][u] =
          [last |-> data[s][u], from |-> data[s][u].at, sum |-> 0, exact |-> TRUE]]
    /\ Handled(s, u)
    /\ UNCHANGED <<account, used, server, row, since, holder, world, awake, ask, added, upkeep>>

Recorded(old, new, d) ==
    [last |-> new, from |-> old.from, sum |-> old.sum + d,
     exact |-> /\ old.exact /\ new.at - new.total = old.last.at - old.last.total
               /\ Growth(new.total, old.last.total) <= Cap]

\* The bucket, usedTraffic and the new baseline.  A delta also needs the row of
\* the user, which a reset may have; without one only the baseline is updated,
\* whose parents nobody looks at.
Count(s, u) ==
    /\ Writing /\ data[s][u] # None /\ row[s][u] # None
    /\ LET d == Delta(data[s][u].total, row[s][u].last.total) IN
       /\ d > 0 => ~Blocked(s, u) /\ holder[u] # "reset"
       /\ mine' = [mine EXCEPT ![s][u] = Recorded(row[s][u], data[s][u], d)]
       /\ added' = [added EXCEPT ![u] = @ + d]
    /\ Handled(s, u)
    /\ UNCHANGED <<account, used, server, row, since, holder, world, awake, ask, upkeep>>

\* A deletion or a reset that waits for what this transaction has touched.
DeleteWaits(x) == holder[x] = "delete" /\ Touched(x)
ResetWaits == \E v \in todo : added[v] > 0 \/ DeleteWaits(v)
Deadlock(s, u) == DeleteWaits(s) \/ DeleteWaits(u) \/ (holder[u] = "reset" /\ ResetWaits)

Gone(s, u) == row[s][u] = None /\ (u \notin account \/ server[s] = "gone")
MayFail(s, u) == Writing /\ data[s][u] # None /\ (Gone(s, u) \/ Deadlock(s, u))

\* Mutant of RowFails: nothing takes back the bucket written before the error.
RowFailsHalf(s, u) ==
    /\ MayFail(s, u)
    /\ mine' = IF row[s][u] = None THEN mine
               ELSE [mine EXCEPT ![s][u] = [row[s][u] EXCEPT !.sum = @ +
                        Delta(data[s][u].total, row[s][u].last.total)]]
    /\ Handled(s, u)
    /\ UNCHANGED <<account, used, server, row, since, holder, world, awake, ask, added, upkeep>>

\* ROLLBACK TO SAVEPOINT: a parent is missing, or PostgreSQL breaks a deadlock;
\* the others are counted all the same.
RowFails(s, u) ==
    /\ MayFail(s, u)
    /\ Handled(s, u)
    /\ UNCHANGED <<account, used, server, row, since, holder, world, awake, ask, mine, added, upkeep>>

Asleep == /\ awake' = FALSE /\ ask' = {} /\ data' = Nothing
          /\ mine' = Nothing /\ added' = Zero

\* Mutant of CommitPoll: usedTraffic is set from what the pages last showed.
CommitPollOver ==
    /\ Writing /\ data = Nothing
    /\ row' = [s \in Servers |-> [u \in Users |->
          IF mine[s][u] = None THEN row[s][u] ELSE mine[s][u]]]
    /\ used' = [u \in Users |-> IF added[u] > 0 THEN added[u] ELSE used[u]]
    /\ since' = [s \in Servers |-> [u \in Users |->
          IF mine[s][u] = None \/ row[s][u] = None THEN since[s][u]
          ELSE since[s][u] + (mine[s][u].sum - row[s][u].sum)]]
    /\ Asleep
    /\ UNCHANGED <<account, server, holder, world, upkeep>>

CommitPoll ==
    /\ Writing /\ data = Nothing
    /\ row' = [s \in Servers |-> [u \in Users |->
          IF mine[s][u] = None THEN row[s][u] ELSE mine[s][u]]]
    /\ used' = [u \in Users |-> used[u] + added[u]]
    /\ since' = [s \in Servers |-> [u \in Users |->
          IF mine[s][u] = None \/ row[s][u] = None THEN since[s][u]
          ELSE since[s][u] + (mine[s][u].sum - row[s][u].sum)]]
    /\ Asleep
    /\ UNCHANGED <<account, server, holder, world, upkeep>>

\* An error that no savepoint holds: the transaction is rolled back.
PollFails ==
    /\ awake /\ Asleep
    /\ UNCHANGED <<account, used, server, row, since, holder, world, upkeep>>

-----------------------------------------------------------------------------
(* The monthly reset                                                       *)

\* A database without the state is not reset, only marked.
FirstMonth ==
    /\ target = 0 /\ done = 0 /\ done' = month
    /\ UNCHANGED <<account, used, server, row, since, holder, world, polling, month, target, todo>>

\* UPDATE users SET "usedTraffic" = 0 WHERE "usedTraffic" <> 0
ResetBegins ==
    /\ target = 0 /\ done \notin {0, month}
    /\ target' = month /\ todo' = {u \in account : used[u] # 0}
    /\ UNCHANGED <<account, used, server, row, since, holder, world, polling, month, done>>

\* No one else has changed the row or is about to.
Lockable(u) == holder[u] = "free" /\ added[u] = 0

ResetLocks(u) ==
    /\ u \in todo /\ Lockable(u)
    /\ holder' = [holder EXCEPT ![u] = "reset"] /\ todo' = todo \ {u}
    /\ UNCHANGED <<account, used, server, row, since, world, polling, month, done, target>>

Unlocked(who) == [x \in Users \cup Servers |-> IF holder[x] = who THEN "free" ELSE holder[x]]

CommitReset ==
    /\ target # 0 /\ todo = {}
    /\ used' = [u \in Users |-> IF holder[u] = "reset" THEN 0 ELSE used[u]]
    /\ since' = [s \in Servers |-> [u \in Users |->
          IF holder[u] = "reset" THEN 0 ELSE since[s][u]]]
    /\ done' = target /\ target' = 0 /\ holder' = Unlocked("reset")
    /\ UNCHANGED <<account, server, row, world, polling, month, todo>>

\* Mutant of ResetFails: the connection goes back to the pool as it is.
ResetFailsHeld ==
    /\ target # 0
    /\ target' = 0 /\ todo' = {}
    /\ UNCHANGED <<account, used, server, row, since, holder, world, polling, month, done>>

\* A deadlock or another error: rolled back, and tried again ten minutes later.
ResetFails ==
    /\ target # 0
    /\ target' = 0 /\ todo' = {} /\ holder' = Unlocked("reset")
    /\ UNCHANGED <<account, used, server, row, since, world, polling, month, done>>

NextMonth == /\ month < MaxMonth /\ month' = month + 1
             /\ UNCHANGED <<account, used, server, row, since, holder, world, polling,
                            done, target, todo>>

-----------------------------------------------------------------------------
(* Administration                                                          *)

Register(u) ==
    /\ u \notin account /\ account' = account \cup {u}
    /\ used' = [used EXCEPT ![u] = 0]
    /\ since' = [s \in Servers |-> [since[s] EXCEPT ![u] = 0]]
    /\ UNCHANGED <<server, row, holder, world, polling, upkeep>>

\* POST /traffic/reset/{username}
ResetTraffic(u) ==
    /\ u \in account /\ Lockable(u)
    /\ Event
    /\ used' = [used EXCEPT ![u] = 0]
    /\ since' = [s \in Servers |-> [since[s] EXCEPT ![u] = 0]]
    /\ UNCHANGED <<account, server, row, holder, counter, sent, moved, polling, upkeep>>

CreateServer(s) ==
    /\ server[s] = "none" /\ server' = [server EXCEPT ![s] = "on"]
    /\ UNCHANGED <<account, used, row, since, holder, world, polling, upkeep>>

\* update_server: the switch, or no hysteria_url.
SwitchServer(s) ==
    /\ server[s] \in {"on", "off"} /\ holder[s] = "free"
    /\ Event
    /\ server' = [server EXCEPT ![s] = IF @ = "on" THEN "off" ELSE "on"]
    /\ UNCHANGED <<account, used, row, since, holder, counter, sent, moved, polling, upkeep>>

\* update_server: another hysteria_url, of a machine with counters of its own.
MoveServer(s) ==
    /\ server[s] \in {"on", "off"} /\ holder[s] = "free"
    /\ Event
    /\ moved' = [moved EXCEPT ![s] = TRUE]
    /\ \E n \in 0..Cap : counter' = [counter EXCEPT ![s] = [u \in Users |-> n]]
    /\ UNCHANGED <<account, used, server, row, since, holder, sent, polling, upkeep>>

\* Rows of the poll that refer to x keep it from being locked for deletion:
\* a baseline and a delta have looked at both parents.
Referred(x) == \E s \in Servers, u \in Users :
    x \in {s, u} /\ mine[s][u] # None /\ (row[s][u] = None \/ mine[s][u].sum > row[s][u].sum)

\* delete_user, delete_server: first the row itself ...
DeleteLocks(x) ==
    /\ holder[x] = "free" /\ ~Referred(x)
    /\ Event
    /\ x \in account \/ (x \in Servers /\ server[x] \in {"on", "off"})
    /\ holder' = [holder EXCEPT ![x] = "delete"]
    /\ UNCHANGED <<account, used, server, row, since, counter, sent, moved, polling, upkeep>>

Without(f, x) == [s \in Servers |-> [u \in Users |-> IF x \in {s, u} THEN None ELSE f[s][u]]]

\* ... then what ON DELETE CASCADE finds, once the poll is done with it.
CommitDelete(x) ==
    /\ holder[x] = "delete" /\ ~Touched(x)
    /\ holder' = [holder EXCEPT ![x] = "free"]
    /\ row' = Without(row, x)
    /\ account' = account \ {x} /\ todo' = todo \ {x}
    /\ server' = [s \in Servers |-> IF s = x THEN "gone" ELSE server[s]]
    /\ UNCHANGED <<used, since, world, polling, month, done, target>>

\* Refused (another admin's row, a deadlock) or broken off.
DeleteFails(x) ==
    /\ holder[x] = "delete" /\ holder' = [holder EXCEPT ![x] = "free"]
    /\ UNCHANGED <<account, used, server, row, since, world, polling, upkeep>>

\* The process dies: three transactions are rolled back.
Restart == /\ Asleep
           /\ holder' = [x \in Users \cup Servers |-> "free"] /\ target' = 0 /\ todo' = {}
           /\ UNCHANGED <<account, used, server, row, since, world, month, done>>

-----------------------------------------------------------------------------
(* Behaviour                                                               *)

WriteRow == \E s \in Servers, u \in Users : Baseline(s, u) \/ Count(s, u) \/ RowFails(s, u)
Poll == WriteRow \/ CommitPoll \/ \E s \in Servers : Fetch(s)
Upkeep == FirstMonth \/ CommitReset \/ ResetFails \/ \E u \in Users : ResetLocks(u)
Deletion(x) == CommitDelete(x) \/ DeleteFails(x)

Next == \/ Wake \/ Poll \/ PollFails \/ Upkeep \/ ResetBegins \/ NextMonth \/ Restart
        \/ \E s \in Servers : \/ RestartHysteria(s) \/ CreateServer(s) \/ SwitchServer(s)
                              \/ MoveServer(s)
                              \/ \E u \in Users : Carry(s, u)
        \/ \E u \in Users : Register(u) \/ ResetTraffic(u)
        \/ \E x \in Users \cup Servers : DeleteLocks(x) \/ Deletion(x)

Spec == Init /\ [][Next]_vars

\* The threads run and a request that got its lock ends.  PostgreSQL queues for a
\* row and breaks deadlocks: whoever waits for one that is let go of, gets it.
FairSpec == /\ Spec /\ SF_vars(Poll)
            /\ WF_vars(CommitReset \/ (ResetWaits /\ ResetFails))
            /\ \A u \in Users : WF_vars(ResetLocks(u))
            /\ \A x \in Users \cup Servers : WF_vars(CommitDelete(x))

-----------------------------------------------------------------------------
(* Properties *)

Map(S) == [Servers -> [Users -> S]]

TypeOK ==
    /\ account \subseteq Users /\ used \in [Users -> Nat]
    /\ server \in [Servers -> {"none", "on", "off", "gone"}] /\ moved \in [Servers -> BOOLEAN]
    /\ counter \in Map(Nat) /\ sent \in Map(Nat) /\ events \in Nat
    /\ row \in Map(Row \cup {None}) /\ since \in Map(Nat)
    /\ awake \in BOOLEAN /\ ask \subseteq Servers
    /\ data \in Map(Mark \cup {None}) /\ mine \in Map(Row \cup {None}) /\ added \in [Users -> Nat]
    /\ holder \in [Users \cup Servers -> {"free", "reset", "delete"}]
    /\ month \in Nat /\ done \in Nat /\ target \in Nat /\ todo \subseteq Users

\* The rule for growth, reset and first sight counts no byte twice, and every
\* byte between the first baseline and the last poll once, unless Hysteria was
\* restarted or a delta was discarded: polls that fail half-way, deletions and
\* resets in between make no difference.  (A row whose hysteria_url was pointed
\* at another machine is excepted: the baseline of the first stays.)
EachByteOnce == \A s \in Servers, u \in Users :
    ~moved[s] /\ row[s][u] # None =>
        LET r == row[s][u] IN
        /\ r.sum <= r.last.at - r.from
        /\ r.exact => r.sum = r.last.at - r.from

\* usedTraffic is what was added to traffic_5m since the last reset, of the month
\* or by an administrator, on all servers there ever were.
UsedIsSum == \A u \in account : used[u] = SumFunction([s \in Servers |-> since[s][u]])

\* A poll comes to an end, whoever holds or wants the rows it needs.
PollsEnd == awake ~> ~awake
=============================================================================
