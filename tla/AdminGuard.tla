---------------------------- MODULE AdminGuard -----------------------------
(***************************************************************************)
(* The account administration endpoints of routers/users.py and the        *)
(* blocking half of POST /kick, each a database transaction interleaved    *)
(* with the others statement by statement.  PostgreSQL's READ COMMITTED    *)
(* row locks are modelled: lock[u] is the request whose transaction holds  *)
(* the row of u, a statement that meets a foreign lock waits, and one      *)
(* request of a cycle of waiters is aborted.                               *)
(***************************************************************************)
EXTENDS Integers, FiniteSets

CONSTANTS Users,      \* user names
          Seed,       \* ADMIN_USERNAME
          Requests,   \* requests in flight at the same time
          Nobody      \* no user, no request

ASSUME GuardAssumption == /\ IsFiniteSet(Users) /\ Seed \in Users
                          /\ Nobody \notin Users \cup Requests

VARIABLES role,       \* role[u]: committed role of u, "none" without a row
          allowed,    \* allowed[u]: committed ban flag (FALSE without a row)
          lock,       \* lock[u]: the request holding the row lock, or Nobody
          req         \* req[r]: what request r is doing

vars == <<role, allowed, lock, req>>

Roles == {"none", "user", "admin"}
RoleOps == {"delete", "promote", "demote"}
EditOps == {"password", "block", "unblock"}
Steps == {"idle", "target", "count", "admins", "write", "read", "edit", "kick"}

\* todo: rows the running statement has still to lock; counted: admin rows
\* the guard has seen under its lock; waits: the row the request waits for.
Request == [step : Steps, op : RoleOps \cup EditOps \cup {"kick", "none"},
            caller : Users \cup {Nobody}, targets : SUBSET Users,
            todo : SUBSET Users, counted : SUBSET Users,
            waits : Users \cup {Nobody}]

Idle == [step |-> "idle", op |-> "none", caller |-> Nobody, targets |-> {},
         todo |-> {}, counted |-> {}, waits |-> Nobody]

Admins == {u \in Users : role[u] = "admin"}
Exists(u) == role[u] # "none"

Init == /\ role = [u \in Users |-> IF u = Seed THEN "admin" ELSE "none"]
        /\ allowed = [u \in Users |-> u = Seed]
        /\ lock = [u \in Users |-> Nobody]
        /\ req = [r \in Requests |-> Idle]

-----------------------------------------------------------------------------
(* Transactions *)

Open(r, step, op, caller, targets, rows) ==
    req' = [req EXCEPT ![r] = [Idle EXCEPT !.step = step, !.op = op,
                !.caller = caller, !.targets = targets, !.todo = rows]]

\* Mutant of Close: the rollback is forgotten and the row locks stay.
CloseWithoutRollback(r) == req' = [req EXCEPT ![r] = Idle] /\ UNCHANGED lock

\* Commit, rollback or abort: the answer is sent and every row lock is gone.
Close(r) == /\ lock' = [u \in Users |-> IF lock[u] = r THEN Nobody ELSE lock[u]]
            /\ req' = [req EXCEPT ![r] = Idle]

\* The statement of r reaches row u and the row is not held by another.
Reaches(r, u) == /\ u \in req[r].todo
                 /\ req[r].waits \in {Nobody, u}
                 /\ lock[u] \in {Nobody, r}

\* r locks u; a row deleted meanwhile is skipped and leaves nothing to lock.
Lock(r, u) == lock' = [lock EXCEPT ![u] = IF Exists(u) THEN r ELSE @]

Wait(r, u) == /\ u \in req[r].todo
              /\ req[r].waits = Nobody
              /\ lock[u] \notin {Nobody, r}
              /\ req' = [req EXCEPT ![r].waits = u]
              /\ UNCHANGED <<role, allowed, lock>>

Holder(r) == lock[req[r].waits]

\* r is part of a cycle of requests each waiting for the next.
InDeadlock(r) == \E S \in SUBSET {s \in Requests : req[s].waits # Nobody} :
                    r \in S /\ S = {Holder(s) : s \in S}

\* PostgreSQL aborts a request of the cycle; the handler rolls back (500).
DeadlockVictim(r) == InDeadlock(r) /\ Close(r) /\ UNCHANGED <<role, allowed>>

-----------------------------------------------------------------------------
(* Dispatch: require_admin reads the caller in a transaction of its own,   *)
(* which is over before the handler's transaction starts.                  *)

RequireAdmin(u) == role[u] = "admin" /\ allowed[u]

StartRoleOp(r, op, caller, u) ==
    /\ req[r] = Idle /\ RequireAdmin(caller)
    /\ u # caller
    /\ Open(r, "target", op, caller, {u}, {u})
    /\ UNCHANGED <<role, allowed, lock>>

StartEdit(r, op, caller, u) ==
    /\ req[r] = Idle /\ RequireAdmin(caller)
    /\ Open(r, "read", op, caller, {u}, {})
    /\ UNCHANGED <<role, allowed, lock>>

\* kick_users is a coroutine: its SQL blocks the only event loop thread, so
\* no second one runs before it commits.  Its UPDATE visits existing rows.
StartKick(r, caller, targets) ==
    /\ req[r] = Idle /\ RequireAdmin(caller)
    /\ \A s \in Requests : req[s].step # "kick"
    /\ Open(r, "kick", "kick", caller, targets, {u \in targets : Exists(u)})
    /\ UNCHANGED <<role, allowed, lock>>

-----------------------------------------------------------------------------
(* DELETE /users/{username} and POST /users/{username}/set-role            *)

\* Mutant of LockTarget: set_role counts no admins when it demotes one.
LockTargetForDeleteOnly(r, u) ==
    /\ req[r].step = "target" /\ Reaches(r, u)
    /\ UNCHANGED <<role, allowed>>
    /\ IF ~Exists(u)
       THEN Close(r)
       ELSE /\ Lock(r, u)
            /\ req' = [req EXCEPT
                  ![r].step = IF role[u] = "admin" /\ req[r].op = "delete"
                              THEN "count" ELSE "write",
                  ![r].todo = {}, ![r].waits = Nobody]

\* SELECT role FROM users WHERE username = ... FOR UPDATE, and what follows.
LockTarget(r, u) ==
    /\ req[r].step = "target" /\ Reaches(r, u)
    /\ UNCHANGED <<role, allowed>>
    /\ IF ~Exists(u)
       THEN Close(r)
       ELSE /\ Lock(r, u)
            /\ req' = [req EXCEPT
                  ![r].step = IF role[u] = "admin" /\ req[r].op # "promote"
                              THEN "count" ELSE "write",
                  ![r].todo = {}, ![r].waits = Nobody]

\* SELECT username FROM users WHERE role = 'admin' FOR UPDATE: the statement
\* takes its snapshot ...
SnapshotAdmins(r) ==
    /\ req[r].step = "count"
    /\ req' = [req EXCEPT ![r].step = "admins", ![r].todo = Admins]
    /\ UNCHANGED <<role, allowed, lock>>

\* Mutant of LockAdminRow: the admins are counted without FOR UPDATE.
CountAdminRow(r, u) ==
    /\ req[r].step = "admins" /\ Reaches(r, u)
    /\ req' = [req EXCEPT ![r].todo = @ \ {u}, ![r].waits = Nobody,
                  ![r].counted = IF role[u] = "admin" THEN @ \cup {u} ELSE @]
    /\ UNCHANGED <<role, allowed, lock>>

\* ... and locks its rows in an order of its own, checking role again.
LockAdminRow(r, u) ==
    /\ req[r].step = "admins" /\ Reaches(r, u)
    /\ Lock(r, u)
    /\ req' = [req EXCEPT ![r].todo = @ \ {u}, ![r].waits = Nobody,
                  ![r].counted = IF role[u] = "admin" THEN @ \cup {u} ELSE @]
    /\ UNCHANGED <<role, allowed>>

\* Mutant of Decide: the last admin is taken for one of two.
DecideOneTooFew(r) ==
    /\ req[r].step = "admins" /\ req[r].todo = {}
    /\ IF Cardinality(req[r].counted) < 1
       THEN Close(r)
       ELSE req' = [req EXCEPT ![r].step = "write"] /\ UNCHANGED lock
    /\ UNCHANGED <<role, allowed>>

\* len(admin_rows) <= 1: refuse, or go on.
Decide(r) ==
    /\ req[r].step = "admins" /\ req[r].todo = {}
    /\ IF Cardinality(req[r].counted) <= 1
       THEN Close(r)
       ELSE req' = [req EXCEPT ![r].step = "write"] /\ UNCHANGED lock
    /\ UNCHANGED <<role, allowed>>

WrittenRole(op) == CASE op = "delete" -> "none" [] op = "demote" -> "user"
                     [] OTHER -> "admin"

\* DELETE / UPDATE of the target row, and commit.
Write(r) ==
    /\ req[r].step = "write"
    /\ LET op == req[r].op IN
       /\ role' = [u \in Users |-> IF u \in req[r].targets THEN WrittenRole(op) ELSE role[u]]
       /\ allowed' = [u \in Users |->
             IF u \notin req[r].targets THEN allowed[u]
             ELSE op = "promote" \/ (op # "delete" /\ allowed[u])]
    /\ Close(r)

-----------------------------------------------------------------------------
(* PUT /users/{username}: the role is read without a lock.                 *)

MayEdit(r, u) == \/ role[u] = "user"
                 \/ role[u] = "admin" /\ req[r].op = "password" /\ u = req[r].caller

ReadRole(r) ==
    /\ req[r].step = "read"
    /\ IF \A u \in req[r].targets : MayEdit(r, u)
       THEN /\ req' = [req EXCEPT ![r].step = "edit", ![r].todo = req[r].targets]
            /\ UNCHANGED lock
       ELSE Close(r)
    /\ UNCHANGED <<role, allowed>>

\* UPDATE users SET ... WHERE username = ..., and commit.
EditRow(r, u) ==
    /\ req[r].step = "edit" /\ Reaches(r, u)
    /\ allowed' = [allowed EXCEPT ![u] =
          CASE ~Exists(u) -> @ [] req[r].op = "password" -> @
            [] OTHER -> req[r].op = "unblock"]
    /\ Close(r)
    /\ UNCHANGED role

-----------------------------------------------------------------------------
(* POST /kick, the database half                                           *)

KickRow(r, u) ==
    /\ req[r].step = "kick" /\ Reaches(r, u)
    /\ Lock(r, u)
    /\ req' = [req EXCEPT ![r].todo = @ \ {u}, ![r].waits = Nobody]
    /\ UNCHANGED <<role, allowed>>

CommitKick(r) ==
    /\ req[r].step = "kick" /\ req[r].todo = {}
    /\ allowed' = [u \in Users |-> allowed[u] /\ lock[u] # r]
    /\ Close(r)
    /\ UNCHANGED role

-----------------------------------------------------------------------------
(* POST /users and POST /users/register                                    *)

\* A statement already under way has the old row of u in its snapshot and
\* never sees the new one: it passes that row by before the name is reused.
PassedBy(u) == \A r \in Requests :
    /\ req[r].waits # u
    /\ u \in req[r].todo => req[r].step \in {"target", "edit"}

\* Registration always allows the account; an admin may create it blocked.
Insert(u, allow) ==
    /\ ~Exists(u) /\ PassedBy(u)
    /\ allow \/ \E a \in Users : RequireAdmin(a)
    /\ role' = [role EXCEPT ![u] = "user"]
    /\ allowed' = [allowed EXCEPT ![u] = allow]
    /\ UNCHANGED <<lock, req>>

-----------------------------------------------------------------------------
(* The process dies and starts again: transactions in flight are rolled    *)
(* back by the server, then init_db seeds an admin if there is none.       *)

SeedNeeded == Admins = {} /\ ~Exists(Seed)

Restart ==
    /\ lock' = [u \in Users |-> Nobody]
    /\ req' = [r \in Requests |-> Idle]
    /\ role' = IF SeedNeeded THEN [role EXCEPT ![Seed] = "admin"] ELSE role
    /\ allowed' = IF SeedNeeded THEN [allowed EXCEPT ![Seed] = TRUE] ELSE allowed

-----------------------------------------------------------------------------
Start(r) == \E caller \in Users :
    \/ \E u \in Users, op \in RoleOps : StartRoleOp(r, op, caller, u)
    \/ \E u \in Users, op \in EditOps : StartEdit(r, op, caller, u)
    \/ \E targets \in (SUBSET Users) \ {{}} : StartKick(r, caller, targets)

Acquire(r) == \E u \in Users :
    LockTarget(r, u) \/ LockAdminRow(r, u) \/ EditRow(r, u) \/ KickRow(r, u)

Proceed(r) == SnapshotAdmins(r) \/ Decide(r) \/ Write(r) \/ ReadRole(r) \/ CommitKick(r)

Next == \/ \E r \in Requests : \/ Start(r) \/ Acquire(r) \/ Proceed(r)
                               \/ DeadlockVictim(r)
                               \/ \E u \in Users : Wait(r, u)
        \/ \E u \in Users, allow \in BOOLEAN : Insert(u, allow)
        \/ Restart

Spec == Init /\ [][Next]_vars

\* Handlers run on while they can; PostgreSQL grants a row lock in the order
\* of the waiters and looks for deadlocks whenever a wait gets long.
Fairness == \A r \in Requests :
    /\ WF_vars(Proceed(r))
    /\ WF_vars(\E u \in Users : Wait(r, u))
    /\ WF_vars(DeadlockVictim(r))
    /\ SF_vars(Acquire(r))

FairSpec == Spec /\ Fairness

-----------------------------------------------------------------------------
(* Properties *)

TypeOK == /\ role \in [Users -> Roles]
          /\ allowed \in [Users -> BOOLEAN]
          /\ lock \in [Users -> Requests \cup {Nobody}]
          /\ req \in [Requests -> Request]

\* Whatever deletions, demotions and promotions overlap, an admin account is
\* left: the guard of delete_user and set_role, "cannot delete the last admin".
SomeAdmin == Admins # {}

\* What delete_user and set_role counted is still true when they act on it:
\* every counted row is locked by the request that counted it and is an admin.
CountIsCurrent == \A r \in Requests : \A u \in req[r].counted :
    lock[u] = r /\ role[u] = "admin"

\* Each transaction behaves as one indivisible, guarded change of roles.
Roster == INSTANCE AdminRoster
RosterSpec == Roster!Spec

\* Every request is answered: no cycle of row locks, refusal or missing row
\* leaves a handler waiting for ever.
RequestsFinish == \A r \in Requests : req[r] # Idle ~> req[r] = Idle
=============================================================================
