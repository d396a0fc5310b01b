---------------------------- MODULE RefreshTokens ----------------------------
(***************************************************************************)
(* The refresh tokens of one account: login, rotation by POST              *)
(* /auth/refresh and logout are coroutines that hold the event loop from   *)
(* first to last statement; change_password, delete_user and the           *)
(* maintenance worker are threads whose statements fall in between.  Row   *)
(* locks are PostgreSQL's (lock, waits, deadlock victims).  A client       *)
(* presents any token it was ever given: lost answers, two tabs.           *)
(***************************************************************************)
EXTENDS Integers, FiniteSets

CONSTANTS Coroutines,   \* login, refresh and logout requests in flight
          Threads,      \* change_password and delete_user requests in the threadpool
          Worker,       \* the maintenance worker, a thread of its own
          Nobody,       \* no task, no token, no row
          MaxTokens     \* bound: tokens ever issued

Workers == Threads \cup {Worker}
Tasks == Coroutines \cup Workers
Tokens == 1..MaxTokens
UserRow == 0
Rows == Tokens \cup {UserRow}

ASSUME RefreshAssumption == /\ MaxTokens \in Nat /\ Coroutines \cap Workers = {}
                            /\ Worker \notin Threads
                            /\ Nobody \notin Tasks \cup Rows

VARIABLES account,      \* the users row: "absent", "allowed" or "banned"
          token,        \* token[k]: the refresh_tokens row of the k-th token
          lock,         \* lock[x]: the task whose transaction holds row x
          task          \* task[t]: what t is doing

vars == <<account, token, lock, task>>

\* expired: expires_at is past, the row is still there; rotated, loggedout,
\* revoked: what deleted it.  session: the token its login was given.
Token == [state : {"unused", "live", "expired", "rotated", "loggedout", "revoked"},
          session : Tokens \cup {Nobody}]
Unused == [state |-> "unused", session |-> Nobody]

\* token: the cookie; todo: rows the statement has still to lock; waits: the
\* row it waits for.
Task == [op : {"none", "login", "refresh", "logout", "password", "delete", "sweep"},
         step : {"idle", "user", "revoke", "issue", "out", "write", "purge", "rows", "reset"},
         token : Tokens \cup {Nobody}, todo : SUBSET Tokens, waits : Rows \cup {Nobody}]
Idle == [op |-> "none", step |-> "idle", token |-> Nobody, todo |-> {}, waits |-> Nobody]

Live(k) == token[k].state = "live"
Present(k) == token[k].state \in {"live", "expired"}

Init == /\ account = "allowed"
        /\ token = [k \in Tokens |-> Unused]
        /\ lock = [x \in Rows |-> Nobody]
        /\ task = [t \in Tasks |-> Idle]

-----------------------------------------------------------------------------
(* Transactions and row locks                                              *)

Open(t, op, step, k) ==
    task' = [task EXCEPT ![t] = [Idle EXCEPT !.op = op, !.step = step, !.token = k]]

Go(t, step) ==
    task' = [task EXCEPT ![t] = [@ EXCEPT !.step = step, !.todo = {}, !.waits = Nobody]]

\* Mutant of Close: the rollback is forgotten and the row locks stay.
CloseWithoutRollback(t) == task' = [task EXCEPT ![t] = Idle] /\ UNCHANGED lock

\* Commit or rollback: the request is answered and its row locks are gone.
Close(t) == /\ task' = [task EXCEPT ![t] = Idle]
            /\ lock' = [x \in Rows |-> IF lock[x] = t THEN Nobody ELSE lock[x]]

\* The rows the running statement of t is about to lock.
Wanted(t) == CASE task[t].step \in {"issue", "write", "reset"} -> {UserRow}
               [] task[t].step \in {"revoke", "out"} -> {task[t].token}
               [] OTHER -> task[t].todo

\* A foreign lock; the INSERT's FOR KEY SHARE of its users row is at odds with
\* delete_user's FOR UPDATE, not with change_password's UPDATE.
Conflict(t, x) == /\ lock[x] \notin {Nobody, t}
                  /\ ~(task[t].step = "issue" /\ task[lock[x]].op = "password")

Reaches(t, x) == /\ x \in Wanted(t) /\ task[t].waits \in {Nobody, x} /\ ~Conflict(t, x)

Wait(t, x) == /\ x \in Wanted(t) /\ task[t].waits = Nobody /\ Conflict(t, x)
              /\ task' = [task EXCEPT ![t].waits = x]
              /\ UNCHANGED <<account, token, lock>>

Waits(t) == task[t].waits # Nobody /\ Conflict(t, task[t].waits)

\* t is part of a cycle of tasks each waiting for the next: one is aborted.
InDeadlock(t) == \E S \in SUBSET {s \in Tasks : Waits(s)} :
                    t \in S /\ S = {lock[task[s].waits] : s \in S}

DeadlockVictim(t) == InDeadlock(t) /\ Close(t) /\ UNCHANGED <<account, token>>

-----------------------------------------------------------------------------
(* Coroutines                                                              *)

\* Mutant of MayRun: the handlers run in the threadpool.
MayRunBeside(c) == task[c] = Idle

\* One worker, one event loop, no await between a handler's statements.
MayRun(c) == \A d \in Coroutines : task[d] = Idle

Spare == \E k \in Tokens : token[k].state = "unused"      \* within the bound

\* POST /auth/login: the right password of an account that is not banned.
LoginRead(c) ==
    /\ MayRun(c) /\ Spare /\ account = "allowed"
    /\ Open(c, "login", "issue", Nobody)
    /\ UNCHANGED <<account, token, lock>>

\* POST /auth/refresh: validate_refresh_token has found the row.
RefreshRead(c, k) ==
    /\ MayRun(c) /\ Spare /\ Live(k)
    /\ Open(c, "refresh", "user", k)
    /\ UNCHANGED <<account, token, lock>>

\* An expired row is deleted, and the exception that follows rolls it back.
RefreshExpired(c, k) ==
    /\ MayRun(c) /\ token[k].state = "expired"
    /\ UNCHANGED vars

\* SELECT allowed FROM users: 401 without a row, 403 when banned.
RefreshUser(c) ==
    /\ task[c].step = "user"
    /\ IF account = "allowed" THEN Go(c, "revoke") /\ UNCHANGED lock ELSE Close(c)
    /\ UNCHANGED <<account, token>>

\* revoke_refresh_token: nobody asks how many rows it has deleted.
RefreshRevoke(c) ==
    LET k == task[c].token IN
    /\ task[c].step = "revoke" /\ Reaches(c, k)
    /\ lock' = [lock EXCEPT ![k] = IF Present(k) THEN c ELSE @]
    /\ Go(c, "issue")
    /\ UNCHANGED <<account, token>>

\* Mutant of Rotated: the old token is kept.
RotatedNever(c, k) == token[k]

\* Row k when the rotation or login of c commits.
Rotated(c, k) == IF lock[k] = c THEN [token[k] EXCEPT !.state = "rotated"] ELSE token[k]

\* create_refresh_token and the commit; without a users row the foreign key
\* fails and everything is rolled back.
Issue(c, new) ==
    /\ task[c].step = "issue" /\ Reaches(c, UserRow)
    /\ token[new].state = "unused" /\ \A k \in 1..(new - 1) : token[k].state # "unused"
    /\ token' = [k \in Tokens |->
          IF k = new /\ account # "absent"
          THEN [state |-> "live",
                session |-> IF task[c].op = "login" THEN new
                            ELSE token[task[c].token].session]
          ELSE IF account # "absent" THEN Rotated(c, k) ELSE token[k]]
    /\ Close(c)
    /\ UNCHANGED account

\* POST /auth/logout.  (Of a token without a row it deletes nothing.)
LogoutStart(c, k) ==
    /\ MayRun(c) /\ Present(k)
    /\ Open(c, "logout", "out", k)
    /\ UNCHANGED <<account, token, lock>>

Logout(c) ==
    LET k == task[c].token IN
    /\ task[c].step = "out" /\ Reaches(c, k)
    /\ token' = [token EXCEPT ![k].state = IF Present(k) THEN "loggedout" ELSE @]
    /\ Close(c)
    /\ UNCHANGED account

-----------------------------------------------------------------------------
(* Threads                                                                 *)

\* change_password after its checks, delete_user, the maintenance run.
ThreadStart(w, op) ==
    /\ task[w] = Idle
    /\ op = "password" => account # "absent"
    /\ op = "sweep" <=> w = Worker
    /\ Open(w, op, IF op = "sweep" THEN "purge" ELSE "write", Nobody)
    /\ UNCHANGED <<account, token, lock>>

\* UPDATE users SET password, or SELECT ... FOR UPDATE; 500 or 404 without a
\* row.
LockUser(w) ==
    /\ task[w].step = "write" /\ Reaches(w, UserRow)
    /\ IF account = "absent"
       THEN Close(w)
       ELSE Go(w, "purge") /\ lock' = [lock EXCEPT ![UserRow] = w]
    /\ UNCHANGED <<account, token>>

\* DELETE FROM refresh_tokens of the user, of the expired, or by the cascade
\* of DELETE FROM users: the statement's snapshot ...
Purge(w) ==
    /\ task[w].step = "purge"
    /\ task' = [task EXCEPT ![w] = [@ EXCEPT !.step = "rows",
          !.todo = {k \in Tokens : Present(k) /\ (task[w].op = "sweep" => ~Live(k))}]]
    /\ UNCHANGED <<account, token, lock>>

\* ... and one of its rows after the other.
PurgeRow(w, k) ==
    /\ task[w].step = "rows" /\ Reaches(w, k)
    /\ lock' = [lock EXCEPT ![k] = IF Present(k) THEN w ELSE @]
    /\ task' = [task EXCEPT ![w] = [@ EXCEPT !.todo = task[w].todo \ {k},
                                             !.waits = Nobody]]
    /\ UNCHANGED <<account, token>>

\* Mutant of Done: the tokens have no foreign key to cascade along.
DoneWithoutCascade(w) ==
    /\ token' = [k \in Tokens |-> IF lock[k] = w /\ task[w].op # "delete"
                                  THEN [token[k] EXCEPT !.state = "revoked"] ELSE token[k]]
    /\ account' = IF task[w].op = "delete" THEN "absent" ELSE account
    /\ Close(w)

Done(w) ==
    /\ token' = [k \in Tokens |-> IF lock[k] = w
                                  THEN [token[k] EXCEPT !.state = "revoked"] ELSE token[k]]
    /\ account' = IF task[w].op = "delete" THEN "absent" ELSE account
    /\ Close(w)

Commit(w) == task[w].step = "rows" /\ task[w].todo = {} /\ Done(w)

\* A new month: the same transaction goes on to UPDATE users SET usedTraffic
\* and has token rows locked before users rows.
ResetTraffic(w) ==
    /\ task[w].step = "rows" /\ task[w].todo = {} /\ task[w].op = "sweep"
    /\ Go(w, "reset")
    /\ UNCHANGED <<account, token, lock>>

ResetUser(w) == task[w].step = "reset" /\ Reaches(w, UserRow) /\ Done(w)

-----------------------------------------------------------------------------
(* Others                                                                  *)

\* update_user, kick_users, lava_webhook: allowed is set in one statement.
SetAllowed(state) == /\ account # "absent" /\ lock[UserRow] = Nobody
                     /\ account' = state
                     /\ UNCHANGED <<token, lock, task>>

\* register_user takes the name again.
Register == /\ account = "absent" /\ account' = "allowed"
            /\ UNCHANGED <<token, lock, task>>

\* expires_at passes.
Lapse(k) == /\ Live(k) /\ token' = [token EXCEPT ![k].state = "expired"]
            /\ UNCHANGED <<account, lock, task>>

\* The process dies; the server rolls back what was not committed.
Restart == /\ lock' = [x \in Rows |-> Nobody]
           /\ task' = [t \in Tasks |-> Idle]
           /\ UNCHANGED <<account, token>>

Begin(t) == \/ t \in Coroutines /\ LoginRead(t)
            \/ t \in Coroutines /\ \E k \in Tokens :
                  RefreshRead(t, k) \/ RefreshExpired(t, k) \/ LogoutStart(t, k)
            \/ t \in Workers /\ \E op \in {"password", "delete", "sweep"} : ThreadStart(t, op)

Run(t) == \/ t \in Coroutines /\ (RefreshUser(t) \/ RefreshRevoke(t) \/ Logout(t))
          \/ t \in Coroutines /\ \E new \in Tokens : Issue(t, new)
          \/ t \in Workers /\ (LockUser(t) \/ Purge(t) \/ Commit(t) \/ ResetTraffic(t) \/ ResetUser(t))
          \/ t \in Workers /\ \E k \in Tokens : PurgeRow(t, k)
          \/ DeadlockVictim(t) \/ \E x \in Rows : Wait(t, x)

Next == \/ \E t \in Tasks : Begin(t) \/ Run(t)
        \/ \E state \in {"allowed", "banned"} : SetAllowed(state)
        \/ Register \/ Restart
        \/ \E k \in Tokens : Lapse(k)

Spec == Init /\ [][Next]_vars

\* Handlers and threads run on while they can; PostgreSQL grants row locks in
\* the order of the waiters and looks for deadlocks when a wait gets long.
FairSpec == Spec /\ \A t \in Tasks : SF_vars(Run(t))

-----------------------------------------------------------------------------
(* Properties *)

TypeOK == /\ account \in {"absent", "allowed", "banned"}
          /\ token \in [Tokens -> Token]
          /\ lock \in [Rows -> Tasks \cup {Nobody}]
          /\ task \in [Tasks -> Task]

\* "The refresh token is rotated on every call (old one deleted, new one
\* issued)": however refreshes, logouts, password changes and crashes fall, a
\* login never has two tokens that work.
OneLivePerSession == \A j, k \in Tokens :
    Live(j) /\ Live(k) /\ token[j].session = token[k].session => j = k

\* A token that was exchanged or logged out is never exchanged again, though
\* it is looked up in one statement and deleted in another whose row count
\* nobody reads.
NoReplay == [][\A c \in Coroutines, new \in Tokens :
    Issue(c, new) /\ task[c].op = "refresh" /\ account # "absent" =>
        token[task[c].token].state \notin {"rotated", "loggedout"}]_vars

\* A deleted account has no token that works, not even one that was being
\* issued while the account was deleted: a name taken again starts without.
NoOrphans == account = "absent" => \A k \in Tokens : ~Present(k)

\* Every login, refresh, logout, password change, deletion and cleanup comes to
\* an end, although their row locks are taken in opposite orders.
TasksFinish == \A t \in Tasks : []<>(task[t] = Idle)
=============================================================================
