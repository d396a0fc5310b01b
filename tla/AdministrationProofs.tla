------------------------ MODULE AdministrationProofs ------------------------
(***************************************************************************)
(* Theorems about the administration of accounts, on both sides.  First    *)
(* the endpoints (AdminGuard), for any set of accounts and requests: the   *)
(* inductive invariant IInv says what a request knows when it writes: its  *)
(* target is locked, and unless it promotes, the target is no admin or at  *)
(* least two admins were counted.                                          *)
(*                                                                         *)
(* Then the list of an administrator's browser (AdminPanel), for any       *)
(* number of rows, of mutations in flight and of changes: a list that      *)
(* differs from the server's always has something to come that will bring  *)
(* it there, or nobody has told this tab.                                  *)
(***************************************************************************)
EXTENDS AdminGuard, AdminPanel, TLAPS, FiniteSetTheorems

\* The request has counted more than one admin.
Enough(r) == ~(Cardinality(req[r].counted) <= 1)

\* One target, locked once the first statement is over; the count of the
\* second one taken into account before the row is written.
TargetKnown(r) ==
    /\ req[r].step \in {"target", "count", "admins", "write"} =>
          req[r].op \in RoleOps /\ \E t \in Users : req[r].targets = {t}
    /\ req[r].step = "target" => req[r].todo = req[r].targets
    /\ req[r].step \in {"count", "admins", "write"} =>
          \A t \in req[r].targets : lock[t] = r /\ role[t] # "none"
    /\ req[r].step = "write" =>
          \/ req[r].op = "promote"
          \/ \A t \in req[r].targets : role[t] = "user"
          \/ Enough(r)

GuardInv == \A r \in Requests : TargetKnown(r)

IInv == TypeOK /\ CountIsCurrent /\ GuardInv /\ SomeAdmin

-----------------------------------------------------------------------------
\* A request record is well formed when idle and when a transaction opens.
LEMMA IdleType == Idle \in Request
BY DEF Idle, Request, Steps

LEMMA CloseType ==
    ASSUME TypeOK, NEW r \in Requests, Close(r)
    PROVE  lock' \in [Users -> Requests \cup {Nobody}] /\ req' \in [Requests -> Request]
BY IdleType DEF TypeOK, Close

LEMMA OpenType ==
    ASSUME TypeOK, NEW r \in Requests, NEW step \in Steps,
           NEW op \in RoleOps \cup EditOps \cup {"kick", "none"}, NEW caller \in Users,
           NEW targets \in SUBSET Users, NEW rows \in SUBSET Users,
           Open(r, step, op, caller, targets, rows)
    PROVE  req' \in [Requests -> Request]
<1> DEFINE new == [Idle EXCEPT !.step = step, !.op = op, !.caller = caller,
                               !.targets = targets, !.todo = rows]
<1>1. new \in Request
  BY DEF Idle, Request
<1>2. req' = [req EXCEPT ![r] = new]
  BY DEF Open
<1> HIDE DEF new
<1> QED BY <1>1, <1>2 DEF TypeOK

\* The record of a request in flight.
LEMMA ReqType == ASSUME TypeOK, NEW r \in Requests PROVE req[r] \in Request
BY DEF TypeOK

\* TypeOK: every variable keeps its type in every behaviour.
THEOREM TypeCorrect == Spec => []TypeOK
<1>1. Init => TypeOK
  BY IdleType, GuardAssumption DEF Init, TypeOK, Roles
<1>2. TypeOK /\ [Next]_vars => TypeOK'
  <2> SUFFICES ASSUME TypeOK, [Next]_vars PROVE TypeOK'
    OBVIOUS
  <2>1. ASSUME NEW r \in Requests, Start(r) PROVE TypeOK'
    <3>1. ASSUME NEW caller \in Users, NEW u \in Users, NEW op \in RoleOps,
                 StartRoleOp(r, op, caller, u)
          PROVE TypeOK'
      <4>1. req' \in [Requests -> Request]
        BY <3>1, OpenType DEF StartRoleOp, Steps
      <4> QED BY <3>1, <4>1 DEF StartRoleOp, TypeOK
    <3>2. ASSUME NEW caller \in Users, NEW u \in Users, NEW op \in EditOps,
                 StartEdit(r, op, caller, u)
          PROVE TypeOK'
      <4>1. req' \in [Requests -> Request]
        BY <3>2, OpenType DEF StartEdit, Steps
      <4> QED BY <3>2, <4>1 DEF StartEdit, TypeOK
    <3>3. ASSUME NEW caller \in Users, NEW targets \in (SUBSET Users) \ {{}},
                 StartKick(r, caller, targets)
          PROVE TypeOK'
      <4>1. req' \in [Requests -> Request]
        <5>1. {u \in targets : Exists(u)} \in SUBSET Users /\ targets \in SUBSET Users
          BY <3>3
        <5> QED BY <3>3, <5>1, OpenType DEF StartKick, Steps
      <4> QED BY <3>3, <4>1 DEF StartKick, TypeOK
    <3> QED BY <2>1, <3>1, <3>2, <3>3 DEF Start
  <2>2. ASSUME NEW r \in Requests, NEW u \in Users, LockTarget(r, u) PROVE TypeOK'
    <3>1. CASE Exists(u)
      <4> DEFINE next == IF role[u] = "admin" /\ req[r].op # "promote"
                         THEN "count" ELSE "write"
                 new == [req[r] EXCEPT !.step = next, !.todo = {}, !.waits = Nobody]
      <4>1. new \in Request
        <5>1. next \in Steps
          BY DEF Steps
        <5> HIDE DEF next
        <5> QED BY <5>1, ReqType DEF Request
      <4>2. req' = [req EXCEPT ![r] = new]
        BY <2>2, <3>1 DEF LockTarget, TypeOK, Request
      <4> QED BY <2>2, <3>1, <4>1, <4>2 DEF LockTarget, Lock, TypeOK
    <3>2. CASE ~Exists(u)
      BY <2>2, <3>2, CloseType DEF LockTarget, TypeOK
    <3> QED BY <3>1, <3>2
  <2>3. ASSUME NEW r \in Requests, NEW u \in Users, LockAdminRow(r, u) PROVE TypeOK'
    <3> DEFINE seen == IF role[u] = "admin" THEN req[r].counted \cup {u} ELSE req[r].counted
               new == [req[r] EXCEPT !.todo = @ \ {u}, !.waits = Nobody, !.counted = seen]
    <3>1. new \in Request
      BY ReqType DEF Request
    <3>2. req' = [req EXCEPT ![r] = new]
      BY <2>3 DEF LockAdminRow, TypeOK, Request
    <3> QED BY <2>3, <3>1, <3>2 DEF LockAdminRow, Lock, TypeOK
  <2>4. ASSUME NEW r \in Requests, NEW u \in Users, EditRow(r, u) PROVE TypeOK'
    BY <2>4, CloseType DEF EditRow, TypeOK
  <2>5. ASSUME NEW r \in Requests, NEW u \in Users, KickRow(r, u) PROVE TypeOK'
    <3> DEFINE new == [req[r] EXCEPT !.todo = @ \ {u}, !.waits = Nobody]
    <3>1. new \in Request
      BY ReqType DEF Request
    <3>2. req' = [req EXCEPT ![r] = new]
      BY <2>5 DEF KickRow, TypeOK, Request
    <3> QED BY <2>5, <3>1, <3>2 DEF KickRow, Lock, TypeOK
  <2>6. ASSUME NEW r \in Requests, SnapshotAdmins(r) PROVE TypeOK'
    <3>1. [req[r] EXCEPT !.step = "admins", !.todo = Admins] \in Request
      BY DEF TypeOK, Request, Steps, Admins
    <3> QED BY <2>6, <3>1 DEF SnapshotAdmins, TypeOK
  <2>7. ASSUME NEW r \in Requests, Decide(r) PROVE TypeOK'
    <3>1. CASE Cardinality(req[r].counted) <= 1
      BY <2>7, <3>1, CloseType DEF Decide, TypeOK
    <3>2. CASE ~(Cardinality(req[r].counted) <= 1)
      <4>1. [req[r] EXCEPT !.step = "write"] \in Request
        BY DEF TypeOK, Request, Steps
      <4> QED BY <2>7, <3>2, <4>1 DEF Decide, TypeOK
    <3> QED BY <3>1, <3>2
  <2>8. ASSUME NEW r \in Requests, Write(r) PROVE TypeOK'
    BY <2>8, CloseType DEF Write, WrittenRole, TypeOK, Roles
  <2>9. ASSUME NEW r \in Requests, ReadRole(r) PROVE TypeOK'
    <3>1. CASE \A u \in req[r].targets : MayEdit(r, u)
      BY <2>9, <3>1 DEF ReadRole, TypeOK, Request, Steps
    <3>2. CASE ~\A u \in req[r].targets : MayEdit(r, u)
      BY <2>9, <3>2, CloseType DEF ReadRole, TypeOK
    <3> QED BY <3>1, <3>2
  <2>10. ASSUME NEW r \in Requests, CommitKick(r) PROVE TypeOK'
    BY <2>10, CloseType DEF CommitKick, TypeOK
  <2>11. ASSUME NEW r \in Requests, DeadlockVictim(r) PROVE TypeOK'
    BY <2>11, CloseType DEF DeadlockVictim, TypeOK
  <2>12. ASSUME NEW r \in Requests, NEW u \in Users, Wait(r, u) PROVE TypeOK'
    BY <2>12 DEF Wait, TypeOK, Request
  <2>13. ASSUME NEW u \in Users, NEW allow \in BOOLEAN, Insert(u, allow) PROVE TypeOK'
    BY <2>13 DEF Insert, TypeOK, Roles
  <2>14. CASE Restart
    BY <2>14, IdleType, GuardAssumption DEF Restart, TypeOK, Roles
  <2>15. CASE UNCHANGED vars
    BY <2>15 DEF vars, TypeOK
  <2> QED BY <2>1, <2>2, <2>3, <2>4, <2>5, <2>6, <2>7, <2>8, <2>9, <2>10, <2>11,
             <2>12, <2>13, <2>14, <2>15 DEF Next, Acquire, Proceed
<1> QED BY <1>1, <1>2, PTL DEF Spec

-----------------------------------------------------------------------------
\* A request that knows two admins knows one that is not its target.
LEMMA TwoAdmins ==
    ASSUME TypeOK, NEW r \in Requests, Enough(r), NEW t \in Users
    PROVE  \E a \in req[r].counted : a # t
<1> SUFFICES ASSUME req[r].counted \subseteq {t} PROVE FALSE
  OBVIOUS
<1>1. Cardinality({t}) = 1 /\ IsFiniteSet({t})
  BY FS_Singleton
<1>2. Cardinality(req[r].counted) <= 1 /\ Cardinality(req[r].counted) \in Nat
  BY <1>1, FS_Subset, FS_CardinalityType
<1> QED BY <1>2 DEF Enough

\* Only Write, Insert and Restart assign role.
LEMMA RoleWriters ==
    ASSUME Next
    PROVE  \/ \E s \in Requests : Write(s)
           \/ \E v \in Users, allow \in BOOLEAN : Insert(v, allow)
           \/ Restart \/ UNCHANGED role
<1>1. ASSUME NEW s \in Requests, Start(s) PROVE UNCHANGED role
  BY <1>1 DEF Start, StartRoleOp, StartEdit, StartKick
<1>2. ASSUME NEW s \in Requests, Acquire(s) PROVE UNCHANGED role
  BY <1>2 DEF Acquire, LockTarget, LockAdminRow, EditRow, KickRow
<1>3. ASSUME NEW s \in Requests, Proceed(s) PROVE Write(s) \/ UNCHANGED role
  BY <1>3 DEF Proceed, SnapshotAdmins, Decide, ReadRole, CommitKick
<1>4. ASSUME NEW s \in Requests, DeadlockVictim(s) PROVE UNCHANGED role
  BY <1>4 DEF DeadlockVictim
<1>5. ASSUME NEW s \in Requests, NEW v \in Users, Wait(s, v) PROVE UNCHANGED role
  BY <1>5 DEF Wait
<1> QED BY <1>1, <1>2, <1>3, <1>4, <1>5 DEF Next

\* No row held by a request changes its role but by that request's own Write.
LEMMA HeldRole ==
    ASSUME IInv, Next, NEW r \in Requests, NEW u \in Users, lock[u] = r, role[u] # "none",
           ~Write(r)
    PROVE  role'[u] = role[u]
<1>1. ASSUME NEW s \in Requests, Write(s), s # r PROVE role'[u] = role[u]
  <2>1. u \notin req[s].targets
    BY <1>1 DEF Write, IInv, GuardInv, TargetKnown
  <2> QED BY <1>1, <2>1 DEF Write, IInv, TypeOK
<1>2. ASSUME NEW v \in Users, NEW allow \in BOOLEAN, Insert(v, allow) PROVE role'[u] = role[u]
  BY <1>2 DEF Insert, Exists, IInv, TypeOK
<1>3. CASE Restart
  BY <1>3 DEF Restart, SeedNeeded, Exists, IInv, SomeAdmin
<1>4. CASE UNCHANGED role
  BY <1>4
<1>5. \/ \E s \in Requests : Write(s)
      \/ \E v \in Users, allow \in BOOLEAN : Insert(v, allow)
      \/ Restart \/ UNCHANGED role
  BY RoleWriters
<1> QED BY <1>1, <1>2, <1>3, <1>4, <1>5

\* No request loses a row lock before its transaction is over.
LEMMA HeldLock ==
    ASSUME TypeOK, Next, NEW r \in Requests, NEW u \in Users, lock[u] = r
    PROVE  lock'[u] = r \/ req'[r] = Idle
<1>1. ASSUME NEW s \in Requests, Close(s) PROVE lock'[u] = r \/ req'[r] = Idle
  BY <1>1 DEF Close, TypeOK
<1>2. ASSUME NEW s \in Requests, NEW v \in Users, Lock(s, v), lock[v] \in {Nobody, s}
      PROVE  lock'[u] = r
  BY <1>2, GuardAssumption DEF Lock, TypeOK
<1>3. CASE Restart
  BY <1>3 DEF Restart
<1>4. CASE UNCHANGED lock
  BY <1>4
<1>5. \/ \E s \in Requests : Close(s)
      \/ \E s \in Requests, v \in Users : Lock(s, v) /\ lock[v] \in {Nobody, s}
      \/ Restart \/ UNCHANGED lock
  <2>1. ASSUME NEW s \in Requests, Start(s) PROVE UNCHANGED lock
    BY <2>1 DEF Start, StartRoleOp, StartEdit, StartKick
  <2>2. ASSUME NEW s \in Requests, Proceed(s) PROVE Close(s) \/ UNCHANGED lock
    BY <2>2 DEF Proceed, SnapshotAdmins, Decide, Write, ReadRole, CommitKick
  <2>3. ASSUME NEW s \in Requests, NEW v \in Users,
               LockTarget(s, v) \/ LockAdminRow(s, v) \/ EditRow(s, v) \/ KickRow(s, v)
        PROVE  Close(s) \/ (Lock(s, v) /\ lock[v] \in {Nobody, s})
    BY <2>3 DEF LockTarget, LockAdminRow, EditRow, KickRow, Reaches
  <2>4. ASSUME NEW s \in Requests, NEW v \in Users, Wait(s, v) PROVE UNCHANGED lock
    BY <2>4 DEF Wait
  <2>5. ASSUME NEW v \in Users, NEW allow \in BOOLEAN, Insert(v, allow) PROVE UNCHANGED lock
    BY <2>5 DEF Insert
  <2> QED BY <2>1, <2>2, <2>3, <2>4, <2>5 DEF Next, Acquire, DeadlockVictim
<1> QED BY <1>1, <1>2, <1>3, <1>4, <1>5

\* The steps in which a request moves on inside its transaction.
Moves(r) == \/ Start(r) \/ SnapshotAdmins(r)
            \/ Decide(r) /\ Enough(r)
            \/ ReadRole(r) /\ (\A u \in req[r].targets : MayEdit(r, u))
            \/ \E u \in Users : \/ LockTarget(r, u) /\ Exists(u)
                                \/ LockAdminRow(r, u) \/ KickRow(r, u) \/ Wait(r, u)

\* A step leaves a request alone, ends it, or is a move of its own.
LEMMA RequestStep ==
    ASSUME TypeOK, Next, NEW r \in Requests
    PROVE  req'[r] = req[r] \/ req'[r] = Idle \/ Moves(r)
<1>1. ASSUME NEW s \in Requests, Close(s) PROVE req'[r] = req[r] \/ req'[r] = Idle
  BY <1>1 DEF Close, TypeOK
<1>2. ASSUME NEW s \in Requests, s # r,
             Start(s) \/ SnapshotAdmins(s)
             \/ (\E u \in Users : LockAdminRow(s, u) \/ KickRow(s, u) \/ Wait(s, u))
      PROVE  req'[r] = req[r]
  BY <1>2 DEF Start, StartRoleOp, StartEdit, StartKick, Open, SnapshotAdmins, LockAdminRow,
              KickRow, Wait, TypeOK
<1>3. ASSUME NEW s \in Requests, Decide(s) \/ ReadRole(s)
      PROVE  req'[r] = req[r] \/ req'[r] = Idle \/ Moves(r)
  <2>1. CASE s = r
    BY <1>1, <1>3, <2>1 DEF Decide, ReadRole, Moves, Enough
  <2>2. CASE s # r
    BY <1>1, <1>3, <2>2 DEF Decide, ReadRole, TypeOK
  <2> QED BY <2>1, <2>2
<1>4. ASSUME NEW s \in Requests, NEW u \in Users, LockTarget(s, u)
      PROVE  req'[r] = req[r] \/ req'[r] = Idle \/ Moves(r)
  <2>1. CASE ~Exists(u)
    BY <1>1, <1>4, <2>1 DEF LockTarget
  <2>2. CASE Exists(u) /\ s # r
    BY <1>4, <2>2 DEF LockTarget, TypeOK
  <2>3. CASE Exists(u) /\ s = r
    BY <1>4, <2>3 DEF Moves
  <2> QED BY <2>1, <2>2, <2>3
<1>5. ASSUME NEW s \in Requests,
             Write(s) \/ CommitKick(s) \/ DeadlockVictim(s) \/ (\E u \in Users : EditRow(s, u))
      PROVE  Close(s)
  BY <1>5 DEF Write, CommitKick, DeadlockVictim, EditRow
<1>6. CASE Restart
  BY <1>6 DEF Restart
<1>7. ASSUME NEW u \in Users, NEW allow \in BOOLEAN, Insert(u, allow) PROVE req'[r] = req[r]
  BY <1>7 DEF Insert
<1>8. ASSUME Start(r) \/ SnapshotAdmins(r)
             \/ (\E u \in Users : LockAdminRow(r, u) \/ KickRow(r, u) \/ Wait(r, u))
      PROVE  Moves(r)
  BY <1>8 DEF Moves
<1> QED BY <1>1, <1>2, <1>3, <1>4, <1>5, <1>6, <1>7, <1>8 DEF Next, Acquire, Proceed

-----------------------------------------------------------------------------
\* The part of the invariant about one request.
Known(r) == /\ TargetKnown(r)
            /\ \A u \in req[r].counted : lock[u] = r /\ role[u] = "admin"

LEMMA KnownIdle == ASSUME NEW r \in Requests, req'[r] = Idle PROVE Known(r)'
BY DEF Known, TargetKnown, Idle

\* What a request knows stays true while others move.
LEMMA KnownKept ==
    ASSUME IInv, Next, NEW r \in Requests, req'[r] = req[r], req[r] # Idle PROVE Known(r)'
<1>1. ~Write(r)
  BY DEF Write, Close, IInv, TypeOK
<1>2. ASSUME NEW u \in Users, lock[u] = r, role[u] # "none"
      PROVE  lock'[u] = r /\ role'[u] = role[u]
  BY <1>1, <1>2, HeldLock, HeldRole DEF IInv
<1>3. req[r].targets \subseteq Users /\ req[r].counted \subseteq Users
  BY DEF IInv, TypeOK, Request
<1>4. Known(r)
  BY DEF IInv, GuardInv, CountIsCurrent, Known
<1>5. TargetKnown(r)'
  <2>1. req[r].step \in {"count", "admins", "write"} =>
          \A t \in req[r].targets : lock'[t] = r /\ role'[t] # "none" /\ role'[t] = role[t]
    BY <1>2, <1>3, <1>4 DEF Known, TargetKnown
  <2> QED BY <1>4, <2>1 DEF Known, TargetKnown, Enough
<1>6. \A u \in req[r].counted : lock'[u] = r /\ role'[u] = "admin"
  BY <1>2, <1>3, <1>4 DEF Known
<1> QED BY <1>5, <1>6 DEF Known

\* What a request learns by its own move is true when it has moved.
LEMMA KnownMoves ==
    ASSUME IInv, NEW r \in Requests, Moves(r) PROVE Known(r)'
<1>1. Known(r) /\ TypeOK
  BY DEF IInv, GuardInv, CountIsCurrent, Known
<1>2. CASE Start(r)
  <2>1. ASSUME NEW caller \in Users, NEW u \in Users, NEW op \in RoleOps,
               StartRoleOp(r, op, caller, u)
        PROVE  Known(r)'
    <3>1. /\ req'[r].step = "target" /\ req'[r].op = op /\ req'[r].counted = {}
          /\ req'[r].targets = {u} /\ req'[r].todo = {u}
      BY <1>1, <2>1 DEF StartRoleOp, Open, Idle, TypeOK
    <3> QED BY <3>1 DEF Known, TargetKnown
  <2>2. ASSUME NEW caller \in Users, NEW u \in Users, NEW op \in EditOps,
               StartEdit(r, op, caller, u)
        PROVE  req'[r].step = "read" /\ req'[r].counted = {}
    BY <1>1, <2>2 DEF StartEdit, Open, Idle, TypeOK
  <2>3. ASSUME NEW caller \in Users, NEW targets \in (SUBSET Users) \ {{}},
               StartKick(r, caller, targets)
        PROVE  req'[r].step = "kick" /\ req'[r].counted = {}
    BY <1>1, <2>3 DEF StartKick, Open, Idle, TypeOK
  <2> QED BY <1>2, <2>1, <2>2, <2>3 DEF Start, Known, TargetKnown
<1>3. CASE SnapshotAdmins(r)
  BY <1>1, <1>3 DEF SnapshotAdmins, Known, TargetKnown, TypeOK, Request
<1>4. CASE Decide(r) /\ Enough(r)
  <2>1. req' = [req EXCEPT ![r] = [req[r] EXCEPT !.step = "write"]]
    BY <1>4 DEF Decide, Enough
  <2>2. /\ req'[r].step = "write" /\ req[r].step = "admins" /\ req'[r].op = req[r].op
        /\ req'[r].targets = req[r].targets /\ req'[r].counted = req[r].counted
    BY <1>1, <1>4, <2>1 DEF Decide, TypeOK, Request
  <2>3. lock' = lock /\ role' = role
    BY <1>4 DEF Decide, Enough
  <2> QED BY <1>1, <1>4, <2>2, <2>3 DEF Known, TargetKnown, Enough
<1>5. CASE ReadRole(r) /\ (\A u \in req[r].targets : MayEdit(r, u))
  BY <1>1, <1>5 DEF ReadRole, Known, TargetKnown, TypeOK, Request
<1>6. ASSUME NEW u \in Users, LockTarget(r, u), Exists(u) PROVE Known(r)'
  <2>1. req[r].step = "target" /\ req[r].targets = {u} /\ req[r].op \in RoleOps
    BY <1>1, <1>6 DEF LockTarget, Reaches, Known, TargetKnown
  <2>2. /\ req'[r].step \in {"count", "write"} /\ req'[r].targets = {u}
        /\ req'[r].op = req[r].op /\ req'[r].counted = req[r].counted
        /\ req'[r].step = "write" => role[u] # "admin" \/ req[r].op = "promote"
    BY <1>1, <1>6, <2>1 DEF LockTarget, TypeOK, Request
  <2>3. lock' = [lock EXCEPT ![u] = r] /\ role' = role /\ role[u] \in {"user", "admin"}
    BY <1>1, <1>6 DEF LockTarget, Lock, Exists, TypeOK, Roles
  <2>4. TargetKnown(r)'
    BY <1>1, <2>1, <2>2, <2>3 DEF TargetKnown, TypeOK
  <2>5. \A v \in req'[r].counted : lock'[v] = r /\ role'[v] = "admin"
    BY <1>1, <2>2, <2>3 DEF Known, TypeOK, Request
  <2> QED BY <2>4, <2>5 DEF Known
<1>7. ASSUME NEW u \in Users, LockAdminRow(r, u) PROVE Known(r)'
  BY <1>1, <1>7 DEF LockAdminRow, Lock, Exists, Reaches, Known, TargetKnown, TypeOK, Request, Roles
<1>8. ASSUME NEW u \in Users, KickRow(r, u) PROVE Known(r)'
  BY <1>1, <1>8 DEF KickRow, Lock, Reaches, Known, TargetKnown, TypeOK, Request
<1>9. ASSUME NEW u \in Users, Wait(r, u) PROVE Known(r)'
  BY <1>1, <1>9 DEF Wait, Known, TargetKnown, Enough, TypeOK, Request
<1> QED BY <1>2, <1>3, <1>4, <1>5, <1>6, <1>7, <1>8, <1>9 DEF Moves

\* The roles seen by themselves: every step is one guarded step of AdminRoster
\* or leaves them alone, and an admin is left.
LEMMA RosterStep ==
    ASSUME IInv, Next PROVE [Roster!Next]_role /\ SomeAdmin'
<1>1. ASSUME NEW r \in Requests, Write(r)
      PROVE  [Roster!Next]_role /\ SomeAdmin'
  <2>1. PICK t \in Users : req[r].targets = {t}
    BY <1>1 DEF Write, IInv, GuardInv, TargetKnown
  <2>2. role[t] # "none" /\ req[r].op \in RoleOps
    BY <1>1, <2>1 DEF Write, IInv, GuardInv, TargetKnown
  <2>3. role' = [role EXCEPT ![t] = WrittenRole(req[r].op)]
    BY <1>1, <2>1 DEF Write, IInv, TypeOK
  <2>4. CASE req[r].op = "promote"
    <3>1. Roster!Promote(t)
      BY <2>2, <2>3, <2>4 DEF Roster!Promote, WrittenRole
    <3>2. role'[t] = "admin"
      BY <2>3, <2>4 DEF WrittenRole, IInv, TypeOK
    <3> QED BY <3>1, <3>2 DEF Roster!Next, SomeAdmin, Admins
  <2>5. CASE req[r].op # "promote"
    <3>1. PICK a \in Users : role[a] = "admin" /\ a # t
      <4>1. CASE role[t] = "user"
        BY <4>1 DEF IInv, SomeAdmin, Admins
      <4>2. CASE Enough(r)
        BY <2>1, <4>2, TwoAdmins DEF IInv, CountIsCurrent, TypeOK, Request
      <4> QED BY <1>1, <2>1, <2>5, <4>1, <4>2 DEF Write, IInv, GuardInv, TargetKnown
    <3>2. Roster!MayGo(t)
      BY <2>2, <3>1 DEF Roster!MayGo, Roster!Admins
    <3>3. role'[a] = "admin"
      BY <2>3, <3>1 DEF IInv, TypeOK
    <3>4. Roster!Demote(t) \/ Roster!Delete(t)
      BY <2>2, <2>3, <2>5, <3>2 DEF Roster!Demote, Roster!Delete, WrittenRole, RoleOps
    <3> QED BY <3>1, <3>3, <3>4 DEF Roster!Next, SomeAdmin, Admins
  <2> QED BY <2>4, <2>5
<1>2. ASSUME NEW u \in Users, NEW allow \in BOOLEAN, Insert(u, allow)
      PROVE  [Roster!Next]_role /\ SomeAdmin'
  BY <1>2 DEF Insert, Exists, Roster!Next, Roster!Join, SomeAdmin, Admins, IInv, TypeOK
<1>3. CASE Restart \/ UNCHANGED role
  BY <1>3 DEF Restart, SeedNeeded, IInv, SomeAdmin, Admins
<1>4. \/ \E r \in Requests : Write(r)
      \/ \E u \in Users, allow \in BOOLEAN : Insert(u, allow)
      \/ Restart \/ UNCHANGED role
  BY RoleWriters
<1> QED BY <1>1, <1>2, <1>3, <1>4

-----------------------------------------------------------------------------
\* IInv is an inductive invariant.
THEOREM Invariance == Spec => []IInv
<1>1. Init => IInv
  BY IdleType, GuardAssumption
  DEF Init, IInv, TypeOK, Roles, CountIsCurrent, GuardInv, TargetKnown, Idle, SomeAdmin, Admins
<1>2. IInv /\ TypeOK' /\ [Next]_vars => IInv'
  <2> SUFFICES ASSUME IInv, TypeOK', [Next]_vars PROVE IInv'
    OBVIOUS
  <2>1. CASE Next
    <3>1. ASSUME NEW r \in Requests PROVE Known(r)'
      BY <2>1, RequestStep, KnownIdle, KnownKept, KnownMoves DEF IInv
    <3>2. SomeAdmin'
      BY <2>1, RosterStep
    <3> QED BY <3>1, <3>2 DEF IInv, Known, CountIsCurrent, GuardInv
  <2>2. CASE UNCHANGED vars
    BY <2>2 DEF vars, IInv, TypeOK, CountIsCurrent, GuardInv, TargetKnown, Enough, SomeAdmin, Admins
  <2> QED BY <2>1, <2>2
<1> QED BY <1>1, <1>2, TypeCorrect, PTL DEF Spec

\* SomeAdmin: whatever deletions, demotions, promotions, edits, kicks, crashes
\* and deadlocks overlap, an admin account is left.
THEOREM AnAdminRemains == Spec => []SomeAdmin
BY Invariance, PTL DEF IInv

\* CountIsCurrent: the admins a guard counted are still admins, and locked by
\* it, for as long as its transaction lasts.
THEOREM CountsStayCurrent == Spec => []CountIsCurrent
BY Invariance, PTL DEF IInv

\* RosterSpec: the interleaved, locking transactions implement the guarded
\* one-step role changes of AdminRoster.
THEOREM ImplementsRoster == Spec => RosterSpec
<1>1. Init => Roster!Init
  BY DEF Init, Roster!Init
<1>2. IInv /\ [Next]_vars => [Roster!Next]_role
  BY RosterStep DEF vars
<1> QED BY <1>1, <1>2, Invariance, PTL DEF Spec, RosterSpec, Roster!Spec

-----------------------------------------------------------------------------
(* The panel                                                               *)

LEMMA Nones == /\ NoCall \in Call /\ NoCall.op = "none" /\ ~NoCall.done
               /\ NoDialog \in Dialog /\ Empty \in List
               /\ NoFetch \in Fetch /\ NoFetch.at = "idle" /\ NoFetch.fresh
               /\ Asked \in Fetch /\ Asked.at = "asked"
<1>1. Empty \in List
  BY PanelAssumption DEF Empty, List, Versions
<1>2. NoFetch \in Fetch /\ NoFetch.at = "idle" /\ NoFetch.fresh
  BY <1>1 DEF NoFetch, Fetch
<1>3. Asked \in Fetch /\ Asked.at = "asked"
  BY <1>2 DEF Asked, Fetch
<1>4. NoCall \in Call /\ NoCall.op = "none" /\ ~NoCall.done
  BY <1>1 DEF NoCall, Call
<1>5. NoDialog \in Dialog
  BY DEF NoDialog, Dialog
<1> QED BY <1>1, <1>2, <1>3, <1>4, <1>5

LEMMA RowsType == ASSUME db \in [Names -> Row] PROVE Rows \in List
BY PanelAssumption DEF Rows, Row, List, Versions

-----------------------------------------------------------------------------
(* Types                                                                   *)

\* A call that begins, and one whose place is free again.
LEMMA BeginType ==
    ASSUME call \in [Calls -> Call], NEW c \in Calls, NEW op \in Ops, NEW names \in SUBSET Names,
           Begin(c, op, names)
    PROVE  call' \in [Calls -> Call]
<1>1. [NoCall EXCEPT !.op = op, !.names = names, !.mounted = TRUE] \in Call
  BY Nones DEF Call
<1> QED BY <1>1 DEF Begin

LEMMA SettleType ==
    ASSUME call \in [Calls -> Call], NEW c \in Calls, Settle(c)
    PROVE  call' \in [Calls -> Call]
BY Nones DEF Settle

LEMMA UnawareType ==
    ASSUME fetch \in Fetch, Unaware PROVE fetch' \in Fetch /\ untold' = TRUE
BY DEF Unaware, Fetch

LEMMA TypesStep == PanelTypeOK /\ [PanelNext]_panel => PanelTypeOK'
<1> SUFFICES ASSUME PanelTypeOK, [PanelNext]_panel PROVE PanelTypeOK'
  OBVIOUS
<1> USE Nones DEF PanelTypeOK, screen
<1>1. CASE FetchServed
  <2>1. [fetch EXCEPT !.at = "read", !.data = Rows] \in Fetch
    BY RowsType DEF Fetch
  <2> QED BY <1>1, <2>1 DEF FetchServed
<1>2. CASE FetchOk
  BY <1>2 DEF FetchOk, Fetch
<1>3. CASE FetchFails \/ Refetch
  BY <1>3 DEF FetchFails, Refetch, Invalidate
<1>4. ASSUME NEW n \in Names, Elsewhere(n) PROVE PanelTypeOK'
  <2>1. db' \in [Names -> Row]
    BY <1>4, PanelAssumption DEF Elsewhere, Row, Versions
  <2> QED BY <1>4, <2>1, UnawareType DEF Elsewhere
<1>5. ASSUME NEW n \in Names, ToggleSelection(n) PROVE PanelTypeOK'
  BY <1>5 DEF ToggleSelection
<1>6. CASE CloseDialog
  <2>1. \A c \in Calls : [call[c] EXCEPT !.mounted = FALSE] \in Call
    BY DEF Call
  <2> QED BY <1>6, <2>1 DEF CloseDialog
<1>7. ASSUME NEW names \in SUBSET Names, ToggleAll(names) PROVE PanelTypeOK'
  BY <1>7 DEF ToggleAll, Shown
<1>8. ASSUME NEW names \in SUBSET Names, NEW kind \in Kinds, OpenDialog(kind, names) PROVE PanelTypeOK'
  BY <1>8 DEF OpenDialog, Dialog
<1>9. ASSUME NEW c \in Calls, NEW n \in Names, Create(c, n) \/ ToggleActive(c, n) PROVE PanelTypeOK'
  BY <1>9, BeginType DEF Create, ToggleActive, Ops
<1>10. ASSUME NEW c \in Calls, Update(c) \/ SaveNote(c) \/ Kick(c) PROVE PanelTypeOK'
  <2>1. dialog.names \in SUBSET Names
    BY DEF Dialog
  <2> QED BY <1>10, <2>1, BeginType DEF Update, SaveNote, Kick, Ops
<1>11. ASSUME NEW c \in Calls, NEW op \in Ops, InTab(c, op) PROVE PanelTypeOK'
  <2>1. dialog.names \in SUBSET Names
    BY DEF Dialog
  <2> QED BY <1>11, <2>1, BeginType DEF InTab
<1>12. ASSUME NEW c \in Calls, Delete(c) PROVE PanelTypeOK'
  <2>1. dialog.names \in SUBSET Names
    BY DEF Dialog
  <2>2. [NoCall EXCEPT !.op = "delete", !.names = dialog.names,
                       !.before = list, !.mounted = TRUE] \in Call
    BY <2>1 DEF Call, Ops
  <2>3. list' \in List
    BY <1>12, PanelAssumption DEF Delete, List, Versions
  <2> QED BY <1>12, <2>2, <2>3 DEF Delete
<1>13. ASSUME NEW c \in Calls, Served(c) PROVE PanelTypeOK'
  <2>1. [call[c] EXCEPT !.done = TRUE] \in Call
    BY DEF Call
  <2>2. ASSUME NEW n \in Names, n \in call[c].names
        PROVE  [v |-> db[n].v + 1, here |-> call[c].op # "delete"] \in Row
    BY <1>13, <2>2, PanelAssumption DEF Served, Row, Versions
  <2>3. db' \in [Names -> Row]
    BY <1>13, <2>2 DEF Served
  <2>4. call' \in [Calls -> Call]
    BY <1>13, <2>1 DEF Served
  <2> QED BY <1>13, <2>3, <2>4 DEF Served
<1>14. ASSUME NEW c \in Calls, Succeeds(c) PROVE PanelTypeOK'
  <2>1. dialog' \in Dialog
    BY <1>14 DEF Succeeds, Closed, Dialog, Kinds, Call
  <2> QED BY <1>14, <2>1, SettleType DEF Succeeds, Invalidate
<1>15. ASSUME NEW c \in Calls, DeleteFails(c) PROVE PanelTypeOK'
  <2>1. call[c].before \in List
    BY DEF Call
  <2> QED BY <1>15, <2>1, SettleType DEF DeleteFails, Invalidate, Closed
<1>16. ASSUME NEW c \in Calls, Fails(c) PROVE PanelTypeOK'
  BY <1>16, SettleType, UnawareType DEF Fails, Closed
<1>17. CASE UNCHANGED panel
  BY <1>17 DEF panel
<1> QED
  BY <1>1, <1>2, <1>3, <1>4, <1>5, <1>6, <1>7, <1>8, <1>9, <1>10, <1>11, <1>12,
     <1>13, <1>14, <1>15, <1>16, <1>17 DEF PanelNext, Answer

\* PanelTypeOK: every variable of AdminPanel keeps its type in every behaviour.
THEOREM PanelTypes == PanelSpec => []PanelTypeOK
<1>1. PanelInit => PanelTypeOK
  <2> SUFFICES ASSUME PanelInit PROVE PanelTypeOK
    OBVIOUS
  <2>1. db \in [Names -> Row]
    BY PanelAssumption DEF PanelInit, Row, Versions
  <2> QED BY <2>1, Nones, RowsType DEF PanelInit, PanelTypeOK
<1> QED BY <1>1, TypesStep, PTL DEF PanelSpec

-----------------------------------------------------------------------------
(* The list                                                                *)

\* A call after whose answer the list is asked for again: it has changed the
\* server's rows, or the list here.
Due == \E c \in Calls : call[c].done \/ call[c].op = "delete"

\* What is on the screen, and what a fetch under way will put there.
Coming == /\ list = Rows \/ untold \/ fetch.at # "idle" \/ Due
          /\ fetch.at = "read" /\ fetch.fresh => fetch.data = Rows \/ Due

LEMMA ComingStep == PanelTypeOK /\ Coming /\ [PanelNext]_panel => Coming'
<1> SUFFICES ASSUME PanelTypeOK, Coming, [PanelNext]_panel PROVE Coming'
  OBVIOUS
<1> USE Nones DEF screen
<1>a. ASSUME UNCHANGED <<db, list, fetch, untold>>, Due => Due' PROVE Coming'
  BY <1>a DEF Coming, Rows
<1>1. CASE FetchServed
  <2>1. fetch'.at = "read" /\ fetch'.data = Rows /\ Rows' = Rows /\ Due' = Due
    BY <1>1 DEF FetchServed, PanelTypeOK, Fetch, Rows, Due
  <2> QED BY <2>1 DEF Coming
<1>2. CASE FetchOk
  <2>1. Rows' = Rows /\ Due' = Due
    BY <1>2 DEF FetchOk, Rows, Due
  <2> QED BY <1>2, <2>1 DEF FetchOk, Coming, PanelTypeOK, Fetch
<1>3. CASE FetchFails \/ Refetch
  BY <1>3 DEF FetchFails, Refetch, Invalidate, Coming
<1>4. ASSUME NEW n \in Names, Elsewhere(n) PROVE Coming'
  BY <1>4 DEF Elsewhere, Unaware, Coming, PanelTypeOK, Fetch
<1>5. ASSUME NEW n \in Names, ToggleSelection(n) PROVE Coming'
  BY <1>5, <1>a DEF ToggleSelection, Due
<1>6. CASE CloseDialog
  <2>1. Due => Due'
    BY <1>6 DEF CloseDialog, Due, PanelTypeOK, Call
  <2> QED BY <1>6, <2>1, <1>a DEF CloseDialog
<1>7. ASSUME NEW names \in SUBSET Names, ToggleAll(names) PROVE Coming'
  BY <1>7, <1>a DEF ToggleAll, Due
<1>8. ASSUME NEW names \in SUBSET Names, NEW kind \in Kinds, OpenDialog(kind, names) PROVE Coming'
  BY <1>8, <1>a DEF OpenDialog, Due
<1>9. ASSUME NEW c \in Calls, NEW op \in Ops, NEW names \in SUBSET Names, Begin(c, op, names),
             UNCHANGED <<db, list, fetch, untold>>
      PROVE  Coming'
  <2>1. Due => Due'
    BY <1>9 DEF Begin, Due, PanelTypeOK
  <2> QED BY <1>9, <2>1, <1>a
<1>10. ASSUME NEW c \in Calls, NEW n \in Names, Create(c, n) \/ ToggleActive(c, n) PROVE Coming'
  BY <1>9, <1>10 DEF Create, ToggleActive, Ops
<1>11. ASSUME NEW c \in Calls, Update(c) \/ SaveNote(c) \/ Kick(c) \/ \E op \in Ops : InTab(c, op)
       PROVE  Coming'
  <2>1. dialog.names \in SUBSET Names /\ selected \in SUBSET Names
    BY DEF PanelTypeOK, Dialog
  <2> QED BY <1>9, <1>11, <2>1 DEF Update, SaveNote, Kick, InTab, Ops
<1>12. ASSUME NEW c \in Calls, Delete(c) PROVE Coming'
  <2>1. call'[c].op = "delete"
    BY <1>12 DEF Delete, PanelTypeOK, NoCall
  <2> QED BY <1>12, <2>1 DEF Delete, Due, Coming
<1>13. ASSUME NEW c \in Calls, Served(c) PROVE Coming'
  <2>1. call'[c].done
    BY <1>13 DEF Served, PanelTypeOK, Call
  <2> QED BY <2>1 DEF Due, Coming
<1>14. ASSUME NEW c \in Calls, Succeeds(c) \/ DeleteFails(c) PROVE Coming'
  BY <1>14 DEF Succeeds, DeleteFails, Invalidate, Coming
<1>15. ASSUME NEW c \in Calls, Fails(c) PROVE Coming'
  <2>1. CASE call[c].done
    BY <1>15, <2>1 DEF Fails, Unaware, Coming, PanelTypeOK, Fetch
  <2>2. CASE ~call[c].done
    <3>1. Due => Due'
      BY <1>15, <2>2 DEF Fails, Settle, Due, PanelTypeOK
    <3> QED BY <1>15, <2>2, <3>1, <1>a DEF Fails
  <2> QED BY <2>1, <2>2
<1>16. CASE UNCHANGED panel
  BY <1>16, <1>a DEF panel, Due
<1> QED
  BY <1>1, <1>2, <1>3, <1>4, <1>5, <1>6, <1>7, <1>8, <1>10, <1>11, <1>12, <1>13, <1>14,
     <1>15, <1>16 DEF PanelNext, Answer

\* ListConverges: once no call and no fetch is under way, the table shows what
\* the server has, but for changes nobody told this tab of.
THEOREM ListIsTrue == PanelSpec => []ListConverges
<1>1. PanelInit => Coming
  BY Nones DEF PanelInit, Coming
<1>2. PanelTypeOK /\ Coming /\ [PanelNext]_panel => Coming'
  BY ComingStep
<1>3. Coming => ListConverges
  BY Nones DEF Coming, ListConverges, Quiet, Due
<1> QED BY <1>1, <1>2, <1>3, PanelTypes, PTL DEF PanelSpec
=============================================================================
