---------------------------- MODULE Subscription ----------------------------
(***************************************************************************)
(* One account's subscription: the active, allowed and expires_at columns, *)
(* and everything that reads them in one transaction or statement and      *)
(* writes them in another.  Coroutines (hysteria_auth, lava_webhook,       *)
(* kick_users) hold the event loop between two awaits, so their statements *)
(* never interleave with one another; the handlers and dependencies that   *)
(* run in the threadpool (require_user, update_user, set_role) interleave  *)
(* with everything.                                                        *)
(***************************************************************************)
EXTENDS Integers

CONSTANTS Threads,      \* threadpool requests in flight
          Coroutines,   \* event loop tasks in flight
          Free,         \* no coroutine is between two of its statements
          Period,       \* period_days of the plan
          MaxTime,      \* bound of the clock
          MaxCredits,   \* bound: paid webhooks
          Failures      \* may a single UPDATE fail (TRUE / FALSE)?

ASSUME SubscriptionAssumption ==
    /\ Period \in Nat \ {0} /\ MaxTime \in Nat /\ MaxCredits \in Nat
    /\ Failures \in BOOLEAN
    /\ Free \notin Coroutines /\ Threads \cap Coroutines = {}

VARIABLES row,          \* the account's row in users
          now,          \* the clock
          loop,         \* the coroutine between two of its statements, or Free
          task,         \* task[t]: what t is doing and what it has read
          payments,     \* paid webhooks applied or under way
          edited        \* history: coroutines between whose two statements an
                        \* administrator has written the row

subscriptionVars == <<row, now, loop, task, payments, edited>>

Tasks == Threads \cup Coroutines
Never == -1                              \* expires_at IS NULL
Times == {Never} \cup Nat
Row == [role : {"user", "admin"}, allowed : BOOLEAN, active : BOOLEAN, until : Times]
\* at: where the task stands; until: the expires_at it has read; time: when it
\* read it, or Lava's pay_time.
Task == [at : {"idle", "expired", "check", "credit"}, until : Times, time : Nat]
Idle == [at |-> "idle", until |-> Never, time |-> 0]

Past(until) == until # Never /\ now > until

\* register_user
SubscriptionInit ==
    /\ row = [role |-> "user", allowed |-> TRUE, active |-> FALSE, until |-> Never]
    /\ now = 0 /\ payments = 0 /\ edited = {}
    /\ loop = Free
    /\ task = [t \in Tasks |-> Idle]

Continue(t, at) == task' = [task EXCEPT ![t].at = at]
Finish(t) == task' = [task EXCEPT ![t] = Idle] /\ edited' = edited \ {t}
Edit == edited' = edited \cup {c \in Coroutines : task[c] # Idle}

\* Mutant of MayRun: several workers, or an await between two statements.
MayRunTwice == \E c \in Coroutines : task[c] = Idle

\* The Dockerfile starts one worker: one event loop, which one coroutine has.
MayRun == loop = Free

-----------------------------------------------------------------------------
(* require_user: one transaction to read, another to deactivate            *)

RequireUser(t) ==
    /\ task[t] = Idle /\ row.allowed /\ Past(row.until)
    /\ Continue(t, "expired")
    /\ UNCHANGED <<row, now, loop, payments, edited>>

\* UPDATE users SET active = FALSE WHERE username = ... AND active = TRUE
Deactivate(t) ==
    /\ task[t].at = "expired"
    /\ row' = [row EXCEPT !.active = FALSE]
    /\ Finish(t)
    /\ UNCHANGED <<now, loop, payments>>

-----------------------------------------------------------------------------
(* POST /auth: hysteria_auth                                               *)

\* Mutant of AuthRead: the day of expiry is compared the wrong way round.
AuthReadSwapped(c) ==
    /\ task[c] = Idle /\ MayRun /\ row.allowed /\ row.active
    /\ task' = [task EXCEPT ![c] = [until |-> row.until, time |-> now,
                    at |-> IF row.until > now THEN "expired" ELSE "check"]]
    /\ loop' = c
    /\ UNCHANGED <<row, now, payments, edited>>

\* A banned or inactive account is turned away here, with nothing written.
AuthRead(c) ==
    /\ task[c] = Idle /\ MayRun /\ row.allowed /\ row.active
    /\ task' = [task EXCEPT ![c] = [until |-> row.until, time |-> now,
                    at |-> IF Past(row.until) THEN "expired" ELSE "check"]]
    /\ loop' = c
    /\ UNCHANGED <<row, now, payments, edited>>

AuthDeactivate(c) ==
    /\ task[c].at = "expired"
    /\ row' = [row EXCEPT !.active = FALSE]
    /\ Finish(c) /\ loop' = Free
    /\ UNCHANGED <<now, payments>>

\* The UPDATE raises: the exception is logged as a problem with expires_at,
\* and the checks go on.
AuthDeactivateFails(c) ==
    /\ Failures /\ task[c].at = "expired"
    /\ Continue(c, "check")
    /\ UNCHANGED <<row, now, loop, payments, edited>>

\* The password is compared last; the answer is ok, or not.
AuthAnswer(c) ==
    /\ task[c].at = "check"
    /\ Finish(c) /\ loop' = Free
    /\ UNCHANGED <<row, now, payments>>

-----------------------------------------------------------------------------
(* POST /payments/lava/webhook, a fresh success                            *)

\* SELECT ... u.expires_at AS user_expires_at ... FOR UPDATE OF po: the order
\* is locked, the account is not.  Lava's pay_time may be well in the past, and
\* without one the payment is dated LAVA_EXPIRE_MINUTES (here 1) ahead.
CreditRead(c) ==
    /\ task[c] = Idle /\ MayRun /\ payments < MaxCredits
    /\ \E paidAt \in 0..(now + 1) :
          task' = [task EXCEPT ![c] = [at |-> "credit", until |-> row.until, time |-> paidAt]]
    /\ loop' = c /\ payments' = payments + 1
    /\ UNCHANGED <<row, now, edited>>

Later(s, t) == IF s < t THEN t ELSE s

\* Mutant of CreditWrite: the period counts from the payment, not from the end.
CreditWriteFromPayment(c) ==
    /\ task[c].at = "credit"
    /\ row' = [row EXCEPT !.active = TRUE, !.allowed = TRUE, !.until = task[c].time + Period]
    /\ Finish(c) /\ loop' = Free
    /\ UNCHANGED <<now, payments>>

CreditWrite(c) ==
    /\ task[c].at = "credit"
    /\ row' = [row EXCEPT !.active = TRUE, !.allowed = TRUE,
                          !.until = Later(task[c].until, task[c].time) + Period]
    /\ Finish(c) /\ loop' = Free
    /\ UNCHANGED <<now, payments>>

-----------------------------------------------------------------------------
(* Administration                                                          *)

\* kick_users: one statement of a coroutine.
Kick == /\ MayRun
        /\ row' = [row EXCEPT !.allowed = FALSE, !.active = FALSE]
        /\ UNCHANGED <<now, loop, task, payments, edited>>

\* update_user on an ordinary account: any of the three columns.
UpdateUser(allowed, active, until) ==
    /\ row.role = "user"
    /\ row' = [row EXCEPT !.allowed = allowed, !.active = active, !.until = until]
    /\ Edit
    /\ UNCHANGED <<now, loop, task, payments>>

SetRole(role) ==
    /\ row' = IF role = "admin"
              THEN [role |-> "admin", allowed |-> TRUE, active |-> TRUE, until |-> Never]
              ELSE [row EXCEPT !.role = "user", !.active = FALSE]
    /\ Edit
    /\ UNCHANGED <<now, loop, task, payments>>

Tick == now < MaxTime /\ now' = now + 1 /\ UNCHANGED <<row, loop, task, payments, edited>>

\* The process dies: tasks are gone, their open transactions rolled back.
ProcessDies == /\ task' = [t \in Tasks |-> Idle] /\ loop' = Free
               /\ edited' = {}
               /\ UNCHANGED <<row, now, payments>>

Administer ==
    /\ Threads # {}
    /\ \/ \E allowed, active \in BOOLEAN, until \in {row.until, Never, now + Period} :
              UpdateUser(allowed, active, until)
       \/ \E role \in {"user", "admin"} : SetRole(role)

SubscriptionNext ==
    \/ \E t \in Threads : RequireUser(t) \/ Deactivate(t)
    \/ \E c \in Coroutines : \/ AuthRead(c) \/ AuthDeactivate(c) \/ AuthDeactivateFails(c)
                             \/ AuthAnswer(c) \/ CreditRead(c) \/ CreditWrite(c)
    \/ Kick \/ Administer \/ Tick \/ ProcessDies

SubscriptionSpec == SubscriptionInit /\ [][SubscriptionNext]_subscriptionVars

\* The account is used: clients go on asking to connect, the loop runs what it
\* can, and the UPDATE does not fail every time.
SubscriptionFairSpec == SubscriptionSpec /\ \A c \in Coroutines :
    /\ SF_subscriptionVars(AuthRead(c)) /\ SF_subscriptionVars(AuthDeactivate(c))
    /\ WF_subscriptionVars(AuthAnswer(c) \/ CreditWrite(c))

-----------------------------------------------------------------------------
(* Properties *)

SubscriptionTypeOK ==
    /\ row \in Row
    /\ now \in 0..MaxTime /\ payments \in 0..MaxCredits
    /\ loop \in Coroutines \cup {Free}
    /\ task \in [Tasks -> Task]
    /\ edited \subseteq Coroutines

\* The coroutines need no row locks among themselves.  hysteria_auth never
\* switches off an account that a payment has renewed since it was read: only an
\* administrator, in the threadpool, can come between its two statements.
LoopDeactivatesExpired == [][\A c \in Coroutines :
    AuthDeactivate(c) /\ row.active /\ c \notin edited => Past(row.until)]_subscriptionVars

\* A paid webhook adds a full period to the end the account has when it writes,
\* which it read before without a lock: payments do not swallow one another.
LoopCreditAdds == [][\A c \in Coroutines :
    CreditWrite(c) /\ c \notin edited => row'.until >= row.until + Period]_subscriptionVars

\* require_user's docstring: "If expires_at is in the past, sets active=False in
\* the DB": an account that is switched off is not one renewed meanwhile.
NoLiveDeactivation == [][\A t \in Tasks :
    (Deactivate(t) \/ AuthDeactivate(t)) /\ row.active => Past(row.until)]_subscriptionVars

\* An expired account that is still in use does not stay active for ever.
ExpiryTakesEffect ==
    row.allowed /\ row.active /\ Past(row.until) ~> ~(row.allowed /\ row.active /\ Past(row.until))
=============================================================================
