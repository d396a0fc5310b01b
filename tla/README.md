# htrBox in TLA+

htrBox is the control panel of a small VPN service: a FastAPI backend over
PostgreSQL, a React frontend, Hysteria servers that ask the backend whether a
client may connect, and Lava as the payment provider. This directory holds
TLA+ models of the backend and of the frontend's stateful parts, the TLC
configurations that check them on small instances, and TLAPS proofs of what
matters most. Paths below are relative to `src/backend/source/` (`*.py`) or to
`src/frontend/src/` (`*.ts`, `*.tsx`) unless they start with `src/`.

## The system

### How it runs

`src/backend/Dockerfile` starts one uvicorn process with one worker.

* `async def` handlers (login, refresh, logout, `hysteria_auth`, `kick_users`,
  `create_sbp_payment`, `lava_webhook`) run on the one event loop thread. Their
  database calls are synchronous, so between two `await`s nothing else of the
  loop runs: their statements never interleave with one another's.
* `def` handlers and dependencies (`require_user`, `require_admin`,
  `update_user`, `delete_user`, `set_role`, the rate limits, ...) run in a
  threadpool: their statements interleave with everything.
* Three daemon threads run beside them: the traffic collector (30 s), the
  maintenance worker (600 s), the cleanup of the rate limiter (300 s).
* PostgreSQL is at READ COMMITTED. `SELECT ... FOR UPDATE` and `UPDATE` lock
  rows until the transaction ends; of a cycle of waiters one is aborted.
  `get_db` rolls back when the handler raises.
* In the browser one callback runs at a time. Answers of `fetch` come in any
  order, late or not at all; timers, effects after a drawing, cached queries and
  optimistic changes (TanStack Query) make up the rest.

### Components

| Component | State | Operations | What makes it correct | Model |
|---|---|---|---|---|
| Account administration (`routers/users.py`, `routers/hysteria.py` `kick_users`) | `users.role`, `users.allowed`, row locks | register, create, edit, delete, set-role, kick | an admin is always left; what was counted is still true when acted on; nothing blocks for ever | `AdminGuard`, `AdminRoster` |
| Access dependencies (`auth_jwt.py`) | none of their own; write `users.active` | `require_user`, `require_admin` | an account is deactivated only when it has expired | `Subscription`, `AdminGuard` |
| Payments (`routers/payments.py`) | `payment_orders`, `payment_events` | create an invoice, process a webhook | every payment credited once, to the buyer if there still is one; none lost, nothing credited unpaid | `Purchases`, `Payments` |
| Subscription of an account | `active`, `allowed`, `expires_at` | webhook, `require_user`, `hysteria_auth`, `update_user`, `set_role`, `kick_users` | a payment adds a full period; expiry takes effect, and not too early | `Subscription` |
| Failure tracker (`rate_limiter.py`) | `_store` | `is_blocked`, `record_failure`, `record_success`, cleanup | a cap on wrong passwords; no block that was not earned | `AuthFailures` |
| Sliding window (`rate_limiter.py`) | `_sliding_store` | `rate_limit`, cleanup | a cap on requests per window; none refused within it | `SlidingWindow` |
| Sessions (`routers/auth.py`, `auth_jwt.py`) | `refresh_tokens` | login, refresh, logout, change-password, token cleanup | a rotated or revoked token never works again; a deleted account keeps none | `RefreshTokens` |
| Traffic collector (`traffic_collector.py`), monthly reset (`maintenance.py`), servers (`routers/servers.py`) | `traffic_last`, `traffic_5m`, `users.usedTraffic`, `servers`, `maintenance_state` | poll, reset, create, update and delete a server | no byte counted twice, none lost but by a named rule; the account's counter agrees with what was recorded | `TrafficCollector` |
| Schema, seed (`database.py`, `main.py`) | tables | `init_db`, `_seed_admin`, `get_db`, foreign keys | an admin exists after a start; nothing dangles | parts in `AdminGuard`, `Payments`, `RefreshTokens`, `TrafficCollector` |
| Browser session (`stores/authStore.ts`, `api/client.ts`, `hooks/useRestore.ts`, `hooks/useAuth.ts`, login, register and settings pages, `pages/router.tsx`) | access token, user, shared refresh, cookie | refresh on 401, restore with its time-out, login, logout, change password, navigation | the name on the screen, the token and the cookie belong to one account; every call settles | `ClientSession` |
| Administration panel (`hooks/useUsers.ts`, `hooks/useServers.ts`, tables and dialogs) | cached list, mutations, selection, dialogs | optimistic deletion, rollback, invalidation | a table at rest shows what the server has | `AdminPanel` |
| Forms (`UserEditForm.tsx`, `UserCreateForm.tsx`, `ServerEditForm.tsx`, `ServerCreateForm.tsx`, `lib/validators.ts`) | fields, defaults | typing, quick buttons, validation, submit | saving takes no time from an account; the URL is that of host and port | `UserForm`, `ServerForm` |
| Expiry on the screen (`lib/formatters.ts`, `lib/utils.ts`, `ProfilePage.tsx`, `AdminBoard.tsx`) | cached account, countdown | ticks, refetches | the tile is true, or was a minute ago; the lists agree | `ExpiryTime`, `Account`, `Profile` |
| Servers and connection card (`stores/serverStore.ts`, `hooks/useServers.ts`) | persisted list, URLs, choice | `initServerData`, select, clear | the chosen server is one of the list | `ServerKeys` |
| Traffic chart (`lib/trafficModel.ts`, `hooks/useTraffic.ts`, `TrafficChart.tsx`) | query per period, size, pointer | bucketing, thinning out, axes, hover | the chart shows the traffic of its period | `TrafficModel`, `TrafficChart` |
| Payment card (`hooks/usePayments.ts`, `ProfilePage.tsx`) | current order, button | pay, go on, come back | one payable invoice at a time | `PaymentCard` |
| Live updates (`hooks/useWebSocket.ts`) | socket, timers, refs | connect, reconnect, clean up | one socket, or one to come | `LiveUpdates` |
| Messages and banner (`stores/toastStore.ts`, `hooks/useNotify.ts`) | queue, `sessionStorage` | add, close, remove; dismiss | what is closed stays closed, nothing else goes | `Notices` |
| Kick over the Hysteria API, traffic queries, WebSocket router, configuration, logging, markup, deployment, monitoring | - | - | - | not modelled, see the end |

The parts of the backend interact through the `users` row, which payments,
authentication, administration, collector and maintenance all write; through
`require_user` and `require_admin`, which precede almost every handler in a
transaction of their own; and through foreign keys (a deleted user's orders stay
with `username = NULL`, tokens and traffic rows go with it). The browser meets
the backend in HTTP calls only: `ClientSession` holds the refresh tokens as far
as a client can tell them apart, `PaymentCard` the orders, `AdminPanel` and the
forms the rows.

### What is hard

A transaction that decides on what it has read while another one changes it
(role, `expires_at`, number of admins, traffic baselines); locks taken in
different orders; webhooks repeated, late, reordered, unverifiable; a process
that dies between an order and its invoice; a token looked up in one statement
and deleted in another; a cleanup that forgets entries by a time read earlier;
counters fetched before the transaction that uses them; a refresh that answers
into another session; a list put back from an old snapshot; a form that writes
the value it was opened with. `PROJECT.json` lists each under `hazards`, at its
line, with the property that would catch it.

## The modules

### AdminRoster and AdminGuard

`AdminGuard` has one record per request in flight (`req[r]`: its step, the rows
its statement has still to lock, the admins it has counted), the committed
`role` and `allowed` of every account and the holder of every row lock. A
request's statements are actions of their own:

* `StartRoleOp`, `LockTarget`, `SnapshotAdmins`, `LockAdminRow`, `Decide`,
  `Write` are `delete_user` and `set_role`: `SELECT ... FOR UPDATE` of the
  target, of all admins if an admin would go, `len(admin_rows) <= 1`, the write
  with its commit. `LockAdminRow` checks the role again when it gets the row,
  as PostgreSQL does; the snapshot of the statement was taken before.
* `StartEdit`, `ReadRole`, `EditRow` are `update_user`: role read without lock.
* `StartKick`, `KickRow`, `CommitKick` are the database half of `kick_users`;
  being a coroutine it never overlaps another kick.
* `Insert` is `create_user` and `register_user`; `Restart` is the death of the
  process and `init_db` with `_seed_admin`.
* `Wait`, `DeadlockVictim`, `Reaches`, `Lock` model PostgreSQL's row locks.

`RequireAdmin` is `require_admin`, evaluated when the request starts: its own
transaction is over before the handler's begins.

`AdminRoster` is what all this promises: roles change in single steps, and the
step that takes an admin away happens only while another one exists. `AdminGuard`
implements it with the same `role` (`Roster == INSTANCE AdminRoster`).

Left out: passwords, notes, statuses, `active` and `expires_at` (see
`Subscription`), the HTTP answers. The deletion of tokens by cascade is in
`RefreshTokens`, that of traffic rows in `TrafficCollector`.

### Purchases and Payments

One step per stretch between two awaits. `CreateOrder` is `create_sbp_payment`
up to the call to Lava (window check, reuse of a pending order with a page, the
committed row); `CreateFailed` is every way the call can fail, time-outs
included; `CreateSucceeded` stores the invoice with its `invoice_created` event.
A webhook is one of `WebhookRejected` (logged, 401: unsigned, forged, or sent
while the process has the wrong key or none), `WebhookDuplicate` (unique
index), `WebhookMismatch` (wrong amount, the rollback takes the event along),
`WebhookApplied`. `event[o][s]` is the row the unique index
`uq_payment_events_provider_invoice_status` allows for an invoice and a status.
`Lava` is external: an invoice is opened or refused and settled once; webhooks
are a set, delivered in any order and again until a 200 gets through; an invoice
can be opened although our call timed out. `keyed` says whether the process
verifies signatures: `_require_lava_config` does not ask for
`LAVA_ADDITIONAL_KEY`, so it may be missing until a restart. `DeleteUser` sets
the owner of orders to NULL.

`Purchases` is the shop this amounts to: buyers order, pay, get their money back,
leave. `Give` books a paid item and hands it over in the same step, exactly once,
if and only if its buyer is there. `Payments` implements it with the buyer read
off the order's owner, the money off Lava's invoice, the books off the event log.

Left out: amounts but for right or wrong, fees, plans but for one,
`sbp_payments`. That the user row may be changed by the threadpool in the middle
of a webhook is the subject of `Subscription`.

### Subscription

One account: `row` with role, `allowed`, `active` and `until` (`expires_at`).
`task[t]` keeps what a handler has read. Threadpool tasks are `RequireUser`
(read) and `Deactivate` (second transaction). Coroutines are `hysteria_auth`
(`AuthRead`, `AuthDeactivate` or `AuthDeactivateFails`, `AuthAnswer`) and the
success branch of `lava_webhook` (`CreditRead`, `CreditWrite`); `loop` is the
coroutine that has the event loop. `Kick`, `UpdateUser`, `SetRole` are single
writes. `Failures` says whether the deactivating UPDATE may raise: the code
catches any exception there and goes on to the password. `edited` is a history: the
coroutines between whose two statements an administrator has written the row. With
it the two properties of the event loop are stated next to threads and failing
statements; `NoLiveDeactivation`, without that exception, is violated, see below.

### RefreshTokens

The `refresh_tokens` rows of one account. `token[k]` is the row of the k-th
token ever issued, and after its deletion what deleted it; `session` is the
token its login was given. `task[t]` is a request's operation and next
statement, `lock[x]` the transaction that holds a token row or the users row.

* Coroutines: `LoginRead` (password checked, not banned), `RefreshRead`
  (`validate_refresh_token` found the row), `RefreshUser` (its account),
  `RefreshRevoke` (the DELETE, whose row count nobody reads), `Issue` (the
  INSERT with its foreign key, and the commit), `LogoutStart`, `Logout`. They
  have no `await` between their statements: `MayRun`.
* Threads: `ThreadStart`, `LockUser` (`UPDATE users SET password` or `SELECT ...
  FOR UPDATE`), `Purge` (the snapshot of the DELETE), `PurgeRow` (one row of it
  at a time), `Commit` are `change_password` and `delete_user` with its cascade.
  The maintenance run is the thread `Worker`: token cleanup, and in a new month
  (`ResetTraffic`, `ResetUser`) an UPDATE of the users row in the same transaction.
* `Conflict`: the INSERT's key-share lock of its users row waits for
  `delete_user`, not for `change_password`, which updates no key.
* `RefreshExpired` changes nothing: the DELETE of an expired row is followed by
  an exception, and `get_db` rolls it back.

A client presents any token it was ever given. Left out: cookies, access
tokens, tokens of other accounts (no statement but the cleanup touches two
accounts' rows), `regenerate_hy`, which touches no token. `set_role`, which also
locks the users row and no token, is in `AdminGuard`; here it would only delay.

### RateLimiter, SlidingWindow and AuthFailures

The two stores of `rate_limiter.py`, over `RateLimiter`: the clock and the pass
of the cleanup (`sweep`), which both have. Each operation holds its store's lock
for the whole call, so each is one action; the cleanup is two, because it reads
the clock before it waits for the locks. `admitted[k]` and `wrong[k]` are
histories the code does not keep: all admitted requests, and all wrong passwords
since the last right one. The properties compare the stores with them. `AuthFailures` lets one attempt be
under way at a time, since `login` and `hysteria_auth` have no `await` between
`is_blocked` and `record_failure` / `record_success`.

### TrafficCollector

`counter[s][u]` is what Hysteria reports, `sent[s][u]` a history of what was
really carried. `row[s][u]` is the row of `traffic_last` together with the rows
of `traffic_5m` that go with it: the last counter (`last`, with the number of
bytes carried by then in `at`), and of history where the first baseline was
(`from`), the sum of all deltas (`sum`) and whether no restart and no discarded
delta lies between (`exact`).

* A poll: `Wake` reads the active servers, `Fetch` asks each (an error or a
  time-out is an empty answer), `Baseline`, `Count` and `RowFails` write account
  by account under a savepoint (a delta of zero writes nothing and waits for nobody), `CommitPoll` or `PollFails` ends it. What is
  written but not committed is `mine` and `added`; those rows are locked.
* `Growth` and `Delta` are the rules for a counter that has shrunk and for a
  delta above `_MAX_REASONABLE_DELTA_GB`.
* The monthly reset: `FirstMonth`, `ResetBegins` (the snapshot of the UPDATE),
  `ResetLocks` (one row), `CommitReset` or `ResetFails`.
* `DeleteLocks`, `CommitDelete`, `DeleteFails` are `delete_user` and
  `delete_server` with ON DELETE CASCADE; `Referred` and `Touched` are the row
  locks the foreign keys take. `Deadlock` is a cycle of these, broken in the poll.
* `SwitchServer`, `MoveServer` (another `hysteria_url`: the baseline of the old
  machine stays, so `moved` servers are excepted from `EachByteOnce`),
  `CreateServer`, `Register`, `ResetTraffic`, `RestartHysteria`, `Restart`.

Left out: the shapes of answer that are understood, bucket times, bytes as GB.

### ClientSession

One browser tab. `auth` is the store with the shared refresh, `refresh[r]` and
`request[q]` are calls in flight, `restore` is `useRestore` of the mounted login
page, `cookie` the browser's refresh cookie, `row` the server's tokens. A request
carries the cookie there was when it was sent: that one a logout revokes.
`Unauthorized` is `request()` at a 401: join the refresh under way, or start it.
`SharedOk` and `SharedBad` are `.then`/`.finally` and `.catch` of the shared
refresh, with everyone who waited for it. `RestoreBegin` .. `RestoreMe` is
`restore()`, whose refresh is not the shared one; `RestoreTimeout` shows the form
while it goes on. `Submit`, `Register`, `LoginOk`, `LoginFails`, `Logout`,
`LogoutSettled`, `Password`, `PasswordOk`, `ListOk`, `UrlsSettled` (the calls of
`initServerData`, whose results are in `ServerKeys`) and `Go` are the pages;
`Shown` follows the route guards' redirects to their end; `Load` is `window.location.href` or a reload.
`crossed` is a history: a session began or ended with a refresh under way. The
code does not stop such a refresh, and its answer then stores a token of the old
session; the properties say what holds otherwise. `out` is a history too: a
logout was answered, and no refresh, login or restore was under way that could
bring a session back; it ends when a form is submitted.

### AdminPanel

One table, of users or of servers. A row is known by a version that every change
raises; `list` is the query cache, `fetch` the GET of the list, `call[c]` a
mutation. `Delete` cancels the fetch, remembers the rows and takes one out;
`DeleteFails` puts them back; `Succeeds` and `DeleteFails` invalidate. `Close`
unmounts a modal, whose `mutate()` callbacks are then dropped. `untold` is a
history: the server was changed with no word of it to this tab.

### Screens

The profile page, the two kinds of forms, the choice of a server, the chart, the
payment card, the socket and the notices share nothing but the browser (the user
form and the profile page share `Account`). `Screens` composes them so that a
behaviour follows one of them and the numbers of states add up; the constant
`Shown` says which of them a run follows.

* `ExpiryTime`: Moscow's midnights, days left, tier, the tile, the value of a
  `datetime-local` input and back. `toInputDatetimeLocal` asks Intl for `hour12:
  false`, by which browsers write Moscow's first hour as 00 or as 24 (`Hour24`);
  `new Date` takes 24:00 for the end of the day and 24:01 for no date. `Account`: the row and the time. `Profile`:
  GET /users/me over the user of the session, `useLiveCountdown` with its effect
  and timer. `page` is what was drawn last: React draws when something has
  changed, never because time has passed.
* `UserForm`: fields, tabs, the two buttons that add 29 days (with a summer time
  of the browser's zone), validation by form and API, the write of all that the
  form holds. The account is paid or expires while the form is open; `base` is the
  end it had when the form was opened, `by` what has set the date since. A
  password's length is counted in UTF-16 units by zod and in characters by
  pydantic, hence a password that is `wide`.
* `ServerForm`: the effect that puts the URL together, the TLS button read off
  that URL, validation by form and API, changes from elsewhere.
* `ServerKeys`: several calls of `initServerData` at once, each with the choice
  it read at its beginning; the store survives a reload. A write `Upset`s a call
  under way if the call will not take it into account: another choice before its
  list is there, another list after, or a choice that is on no list. Beginning a
  call upsets nobody, nor do lists and choices that agree with it.
* `TrafficModel` holds the algorithms as operators (no recursion but in a
  function), `TrafficChart` the query, the stand-in rows of the last period
  (`placeholderData`), the size, the pointer and its animation frame.
* `PaymentCard`: the card's order, the button, the creation at the backend as far
  as the card sees it, the way to Lava and back.
* `LiveUpdates`: the effect of `useWebSocket`, whose flag, socket and timer are
  refs shared by all its runs. `components/layout/AppShell.tsx:222` has it
  commented out at present.
* `Notices`: messages with their numbers and late removals, in whatever order
  they stand on the screen; the banner and its key in `sessionStorage`. The key
  contains the moment of `setAuth`, which a login form calls and the restore of a
  session after a reload as well, each at a later moment. `Eligible` is true of the one banner there is (`ProfilePage.tsx:359`).

### MC modules and proofs

The modules `MC...` name the model values (and, where no liveness is checked,
the symmetry) for TLC. `MCRateLimiter` puts the two stores of `rate_limiter.py`
side by side; a behaviour follows one of them. The theorems are in `AdministrationProofs` (`AdminGuard`,
`AdminPanel`), `BillingProofs` (`Payments`, `Subscription`), `SignInProofs`
(`SlidingWindow`, `AuthFailures`, `RefreshTokens`), `TrafficCollectorProofs`,
`ClientSessionProofs`, `TrafficChartProofs` (the lemmas about the chart) and
`ScreensProofs`. `Arithmetic` has what two of them need to know of division, finite
sets and sums. Definitions whose comment says "Mutant of X" are plausible bugs of X:
with one of them in the place of X the property `PROJECT.json` names with it
fails.

## What TLC checks

| Run | Instance | Shows |
|---|---|---|
| `roster` (`MCAdminGuard.cfg`) | 2 accounts, 2 requests | `SomeAdmin`: no overlap of requests takes the last admin away. `CountIsCurrent`: counted rows stay locked and admin. `RosterSpec`: every transaction is one guarded step. `RequestsFinish`: every request is answered, cycles of row locks included. |
| `payments` (`MCPayments.cfg`) | 1 user, 1 order, the signing key comes and goes with restarts | `CreditedOnce`, `PaidEventMeansCredit`, `PaidNeverLost`, `PaymentArrives` under fairness. `SellsAsPromised`: orders, webhooks and Lava implement `Purchases`; each order booked gives its buyer a period, and a deleted buyer, or another under his name, nothing. |
| `payments_key` (`MCPaymentsKey.cfg`) | as above | violated: `AcknowledgedIsCredited`. |
| `subscription` (`MCSubscription.cfg`) | a threadpool request, 2 coroutines, administrators, failing UPDATEs, 2 payments, times to 4 | `ExpiryTakesEffect`. `LoopDeactivatesExpired`, `LoopCreditAdds`: coroutines do not lose one another's writes. |
| `subscription_thread` (`MCSubscriptionThread.cfg`) | as above | violated: `NoLiveDeactivation`. |
| `rate_limits` (`MCRateLimiter.cfg`) | limit 2, window = horizon = 2; 2 failures block for 2 s; TTL 2, times to 7 | `CapHolds`, `NoneRefusedEarly`; `GuessCap`, `NoUnearnedBlock`. |
| `sessions` (`MCRefreshTokens.cfg`) | 2 coroutines, a threadpool request, the maintenance worker, 2 tokens | `OneLivePerSession`: a login has one token that works. `NoReplay`: an exchanged token is not exchanged again. `NoOrphans`: a deleted account has none. `TasksFinish`: everyone comes to an end. |
| `collector` (`MCTrafficCollector.cfg`) | 2 accounts, 1 server, 3 and 2 bytes, 1 event, 2 months | `EachByteOnce`: no byte twice, and each once unless a restart or the cap intervened. `UsedIsSum`: the account's counter is what was recorded since its last reset. `PollsEnd`: a poll ends, whoever holds the rows. |
| `client` (`MCClientSession.cfg`) | 2 accounts, 2 refreshes and 2 calls in flight, 2 tokens | `OneSharedRefresh`: parallel 401s share one refresh. `OneOwner`: token, cookie and name are one account's, and a logout ends it. `CallsSettle`: every call is answered or fails. |
| `panel` (`MCAdminPanel.cfg`) | 2 rows, 2 mutations, 2 versions, either table | `ListConverges`: a table at rest shows what the server has. |
| `screens` (`MCScreens.cfg`) | a scaled clock, a browser that writes midnight as 24, 3 orders, 2 sockets, 2 servers, ... | `TileIsTrue`, `NoTimeTaken`, `UrlFollowsHost`, `SelectedIsListed`, `ChartIsTrue`, `OneInvoice`, `OneSocket`, `ClosedForGood`: one for each screen or form, stated at the end of its module. |
| `user_form_extend` (`MCUserFormExtend.cfg`) | the user form alone; a payment adds more than the button | violated: `ExtendAddsToEnd`. |

### Bounds

* Two requests are enough for every race between two transactions and for a
  cycle of locks; two accounts for two admins that remove each other. The safety
  theorems need neither bound. A third request could keep taking a lock another
  waits for, which PostgreSQL's queue does not allow and the model does not show.
* One order: no action but `DeleteUser` touches two, and `BillingProofs` holds
  for any number.
* `sessions`: two tokens are a login and its exchange, or two logins; the
  second coroutine would have to overlap the first for `NoReplay` to fail.
  `SignInProofs` holds for any number of tokens, coroutines and threads.
* Times: long enough for a block or a subscription to start, end and start
  again. `rate_limits` takes the tightest legal configuration: at these values a
  cleanup by one second less breaks the cap. Keys are independent, one is enough.
* `collector`: two accounts lock their rows in opposite orders; three bytes and a
  cap of one give a baseline, a delta and one that is too large; one event is a
  restart of Hysteria, a switch, a move, a deletion or a reset by hand at any moment; two months
  are one reset. A second server would only add to the same sums: `EachByteOnce`
  and `UsedIsSum` are proved for any number of each.
* `client`: two calls can wait for the same refresh or for two; two refreshes are
  the shared one and the restore's, or two shared ones of different sessions;
  two tokens are an account's and its exchange, or those of two accounts. Two are
  too few for a login, its exchange and one more login, where `out` would not
  follow if it did not ask for the restore as well; `ClientSessionProofs`, which
  found that, is for any number.
* `panel`: two mutations are a deletion and anything that overlaps it; two
  versions let each row change once. `AdministrationProofs` needs neither.
* `screens`: a minute is 2 ticks, an hour 4, a day 8, Moscow 4 ahead; the warning
  starts 2 days before the end, so every tier, both sides of midnight and the last
  hour occur. The ends to begin with (`Expiries`) are written as 24:01 and 24:00;
  those a payment, a button or a summer time (`Shifts`) makes of them, at other hours
  too. The chart has 4 buckets to a day, budgets of 4 to 6 points and
  two histories of rows, large and small. `Least` and `Most` bound what a bucket
  carries if it carries anything: nothing on the chart is too small for the least
  step of the axis or too large for the largest. Three orders are one more than two tabs' worth.
  Two sockets are an old and a new one.
* `MaxTime`, `MaxOrders`, `MaxCredits`, `MaxTokens`, `MaxEvents`, `MaxMonth`,
  `MaxVersion`, `MaxExpiry`, `MaxToasts`, `FormTime`, `Most` and `ChartEnd` are the
  bounds on growing values; each is a guard of the action that grows.
* Deadlock is not checked where the system may really stop: `collector`,
  `client`, `panel` and `screens` use up their events, tokens, versions or time,
  and users, who owe no next step, are then all that is left.

### Fairness

* `AdminGuard`: weak fairness of every step a handler can take and of the
  deadlock detector; strong fairness of `Acquire`, since PostgreSQL queues
  waiters for a row lock and a lock can be freed and taken again between.
* `RefreshTokens`: every task that can run or be granted its lock again and
  again is (`SF_vars(Run(t))`): the loop and the threads go on, PostgreSQL
  queues the waiters of a row, and its deadlock detector aborts one of a cycle.
  Requests, expiry, crashes and administrators have no fairness.
* `Payments`: Lava repeats a webhook until it sees a 200, so every webhook is
  delivered again and again. Users, time and restarts have no fairness.
* `Subscription`: a coroutine that has started goes on (the loop runs it);
  `AuthRead` is strongly fair (a client that is used keeps connecting, though
  others hold the loop in between), and `AuthDeactivate` too: the UPDATE does
  not fail every time. Nothing is assumed of administrators or payments.
* `TrafficCollector`: the collector's thread goes on (`SF_vars(Poll)`, as the
  queue of a row lets it in between others); a reset that has its rows commits,
  and one in a cycle of waiters fails; a reset or a deletion that may lock or
  commit does. Deletions, restarts and months have no fairness.
* `ClientSession`: a call that was sent is answered or fails, and the answer is
  processed (`WF_refresh(RefreshAnswer(r))`, `WF_request(Answer(q))`): `fetch` settles,
  be it with a network error. Users, reloads and time-outs have no fairness.

### Where code and documents disagree

Runs show these:

* `payments_key`: a webhook that cannot be verified is put into the event log
  first and refused then. When Lava repeats it and it can be verified, the
  unique index calls it a duplicate, and the payment is never credited.
* `subscription_thread`: `require_user` (`auth_jwt.py:282`) finds the account
  expired, a webhook extends it, `require_user` deactivates it by name. The user has
  paid and is switched off until an administrator notices.
* `user_form_extend`: the form is open, a payment moves the end, "extend" adds 29 days
  to the end the form was opened with (`UserEditForm.tsx:408`) and the account ends
  earlier than the payment had made it. A form saved without a touch does the same.

The models contain the following sequences too, and the properties are stated
so as not to promise the contrary:

* `update_user` reads the role without a lock (`routers/users.py:257`). A
  promotion between its two statements (`ReadRole`, `EditRow`) lets the edit land
  on an admin's row, which line 227 says is forbidden.
* An administrator's date set between the webhook's SELECT and UPDATE
  (`routers/payments.py:618`; `CreditRead`, `UpdateUser`, `CreditWrite`) is
  overwritten; the account may end no later than before the payment.
* In `hysteria_auth` a handler meant for unreadable dates (`routers/auth.py:272`)
  also swallows a failing UPDATE (`AuthDeactivateFails`); the expired client goes on
  to the password, which line 246 excludes.
* An end in Moscow's first hour of the day, written as 24:00 by the browser
  (`lib/formatters.ts:243`), is saved by an untouched form as a day later; 24:01
  cannot be saved at all until it is typed anew (`ToInput`, `FromInput`, `Valid`).
* `initServerData` judges the choice it read before its requests
  (`hooks/useServers.ts:199`) and keeps the one there is: that may be a server
  chosen meanwhile from the old list (`Select` under `Listed`, then `Settled`).
* `hooks/useNotify.ts:8-9` says a closed banner stays away until the next login and
  that a page load is none; the restore after it calls `setAuth`, whose new time
  stamp shows the banner again (`Dismiss`, `LoadPage`, `SetAuth`, `Mount`).
* `change_password` revokes the tokens its DELETE sees. A login that checked the
  old password, or a refresh, may insert a token between that DELETE and the
  commit; the INSERT does not wait. `routers/users.py:530` says that all existing
  tokens are revoked.
* `hooks/useAuth.ts:19` counts a logout as done although its call failed. The
  cookie is then still there, and the login page it leads to restores the session.
* `api/servers.ts:74` says that deleting a server keeps its traffic history;
  `database.py:216` and `:229` delete it in cascade.
* `usedTraffic` is called a lifetime counter in `traffic_collector.py:24` and
  `routers/hysteria.py:257`; `maintenance.py` sets it to 0 every month.
* A server whose `hysteria_url` is pointed at another machine keeps its
  `traffic_last` rows: the first delta compares two machines' counters.
* The effect of `hooks/useNotify.ts` (lines 30-36) reads `sessionStorage` without the
  `try` of line 23.
* `daysUntil` (`lib/formatters.ts:145`) promises -1 for whatever is over; it gives
  the number of days, 0 on the day of the end itself.
* `UserEditForm.tsx:566` offers to start a subscription to those who are not
  active; the button (line 371) asks only whether the date is over.
* `UserEditForm.tsx` and `ServerEditForm.tsx` let through a password that is too
  short, an empty label or protocol, and a URL over 255 characters (built from a
  domain of 240 or more); the API refuses them. Opening a server for editing
  replaces a URL that was set otherwise (`ServerEditForm.tsx:66`).
* `useServers.ts:163` says nothing changes when no server is active; the list is
  stored all the same and the choice cleared.
* `SettingsPage.tsx:182`: after a changed password the session is cleared in a
  callback that does not run when the page was left in the meantime.
* `UserTable.tsx:175` compares two numbers: with a filter set after the selection
  "all" may be checked for other rows than those shown, and the kick goes to
  whoever is selected (line 208), shown or not. The end of a deletion closes the
  dialog of another row that was opened since.
* `RegisterPage.tsx:42`: when the login after a registration fails, the message
  is that of a failed registration.
* `hooks/useWebSocket.ts`, if it were mounted: a new token lowers the flag of the
  cleanup before the old socket's `onclose` comes, which then reconnects as well
  (`OneSocket` says so by `swapped`).
* The chart keeps the index of the hovered point when other points are drawn; an
  odd budget of points loses the second extreme of the last group; the labels of
  the vertical axis are off below a thousandth of a GB.
* An expired refresh token is not "deleted on detection" (`auth_jwt.py:184`), the
  exception rolls it back; `revoke_all_user_tokens` is never called "when an admin
  disables a user" (`auth_jwt.py:168`), a banned user's tokens work again when the
  ban ends; a window longer than `_STALE_ENTRY_TTL`, which `config.py` accepts, is
  not enforced across a pause (the theorem's assumption `Remembered` excludes
  it); two tabs, or one that is loaded again, can open two payable invoices;
  `get_current_order` returns a pending order without a page after a crash.

## What is proved

All theorems hold for every value of the constants that satisfies the module's
`ASSUME`.

* **AdministrationProofs, of `AdminGuard`.** `TypeCorrect`, then `Invariance` of
  `IInv`. `SomeAdmin` is not inductive: that a write takes no last admin away must be known from
  the request's earlier steps. `IInv` adds, per request: there is one target and
  it is locked from the first statement on (`TargetKnown`); a request that is
  about to write demotes or deletes no admin unless it has counted two
  (`Enough`); every counted row is locked by its counter and still an admin's
  (`CountIsCurrent`). The lemmas show that one request keeps what it knows
  (`RequestStep`), and that no step of another touches a locked row
  (`KnownKept`). `AnAdminRemains` and `CountsStayCurrent` follow, and
  `ImplementsRoster`: every step is a step of `AdminRoster` or a stutter.
* **BillingProofs, of `Payments`.** `NoDoubleCredit` ([]CreditedOnce), `LogAgreesWithCredit`
  ([]PaidEventMeansCredit), `PaidStays` (PaidNeverLost). The invariant ties the
  local order to Lava's invoice, which no handler sees: a webhook in flight tells
  the truth about the invoice (`HooksTrue`); a paid order has a paid invoice, and
  a paid invoice had a page, so the call is over and the `invoice_created` event
  is on record (`Aligned`); credit and verified paid event go together
  (`Credited`).
  `ImplementsPurchases` maps an order's invoice to money, its credit to what was
  given, its owner to the buyer: every step of `Payments` is one of the abstract shop
  or a stutter. That an order is booked and its buyer served in one step, and that
  no step serves a deleted buyer, is part of it.
* **SignInProofs, of `RefreshTokens`.** `OneTokenPerLogin` ([]OneLivePerSession),
  `DeletedMeansRevoked` ([]NoOrphans), `NeverExchangedTwice` (NoReplay). The
  invariant: one coroutine runs at a time (`Alone`); the token a refresh has found
  can since have been deleted only by a thread, its session has no other row, and
  at the INSERT its row is gone or locked (`Refreshing`); `delete_user` holds the
  users row, which keeps new tokens out, and every token row is locked or still
  to be locked (`Deleting`). `FadeStep` shows that a step which inserts nothing
  keeps all this, `IssueSafe` is the insertion.
* **SignInProofs, of `SlidingWindow`.** `WindowCap` ([]CapHolds) under
  `Remembered`, the window is no longer than TTL and horizon; `RefusalsJustified`. The invariant:
  what the store keeps includes every recent admission, or there is no recent
  one; and at most `Limit` of them are recent.
* **SignInProofs, of `AuthFailures`.** `GuessesCapped` ([]GuessCap)
  and `BlocksEarned` ([]NoUnearnedBlock). The invariant `Counted`: an entry that is not blocked has
  counted every recent failure, a block began with the last failure, and a key
  whose password is being checked is not blocked. A forgotten entry (`Expired`
  or `Stale`) has only failures older than the block; that is where
  `TTL >= Block` is needed, which `_STALE_ENTRY_TTL = max(3 * Block, 900)` gives.
* **BillingProofs, of `Subscription`.** `DeactivatedHasExpired`
  (LoopDeactivatesExpired) and `CreditIsAdded` (LoopCreditAdds), with any threads,
  administrators and failing statements about. Both follow from `Exclusive`: a
  coroutine between its SELECT and its UPDATE has the loop, so no other coroutine
  has written the end since, and a thread that is no administrator writes `active`
  only; what it has read is still in the table when it writes, unless it is in
  `edited`.
* **TrafficCollectorProofs.** `NoByteTwice` ([]EachByteOnce). `Sound` says of a
  row that it counts no byte twice and, if `exact`, each once. A mark (a counter
  with the bytes carried by then) is `Placed`: it is of the present run of Hysteria
  or of an earlier one; `Before` says the same of two marks. `InPlace` joins this
  for the committed row, the poll's own row and the fetched answer of one account
  and server. `RecordedSound` shows that growth, reset and cap keep `Sound`,
  `PlacesStep` that every step keeps `AllInPlace`.
  `UsedTrafficIsSum` ([]UsedIsSum): `Balanced` says that what is committed is the
  sum of what was recorded, that what the open transaction adds is the sum of
  what its rows add, and that it has written only rows of answers it has handled.
  All this asks of the servers is that they are finitely many.
* **Arithmetic.** That a sum grows by what one entry grows by, is that of its parts,
  and is bounded by a multiple of another (`SumUpdate`, `SumAdd`, `SumEqual`,
  `SumBound`, `SumPart`) is induction over the subsets of a finite set. The library's
  induction takes an operator, so `SubsetInduction` states it for a set of subsets,
  from a smallest counterexample (`LeastSubset`); `NumberInduction` does the same for
  numbers. `SumExists` first shows that the fold of the community modules, a function
  that is chosen, is there. `Quotient`, `QuotientUnique`, `QuotientMonotonic` and
  `MultipleOfMultiple` are the facts about `\div` and `%`.
* **TrafficChartProofs.** What each step makes of a line of points, for every
  line, width and budget, and then what every step of the chart keeps (`ChartInv`).
  - `FilledTotal`: each row of the period stands at the beginning of one bucket and
    `fillBuckets` reaches each such bucket once, so the points sum up to the rows.
  - `Downsampled`: the points left are picked in order, the first among them, and
    with an even budget they are no more than it and go as high and as low as all
    (`PickedFrom`, `Spans`): `GroupBounds` shows that the groups cover the points
    between and are at most half of the room.
  - `SmoothedLine`: the weights sum up to 3 to 9, so the mean stays within the
    traffic there can be, a point keeps a third of its own, and a line of zeros stays
    one. `AxisOfPeak`: hence the step is below the peak and there are two to four.
  - `HalvedFinds` and `ClosestIsNearest`: the bisection is a function on pairs of
    indices that is chosen for its equation; the search for the first point at or
    after the pointer satisfies it (`HalvedExists`), and whatever satisfies it finds
    that point. It or its neighbour is the nearest, since positions grow with time
    (`PositionsRise`).
  - `ChartInv` says of the state that the points are those of the rows on the
    screen, made when these or the period last changed (`PointsOfRows`), and that
    what is hovered was looked up in the line it was aimed at (`PointerOver`).
* **AdministrationProofs, of `AdminPanel`.** `ListIsTrue` ([]ListConverges).
  `Coming`: either the list is the server's, or nobody told this tab, or a fetch is under way, or a call is
  (`Due`) after whose answer the list is asked for again; and rows a fetch has
  read are the present ones, unless it is known to be old or such a call is there.
* **ClientSessionProofs.** `TypeCorrect`, `RefreshIsShared` ([]OneSharedRefresh),
  `AccountsDoNotMix` ([]OneOwner). None of them is inductive: the store names one
  account because nothing on its way to the store is another's. `SingleOwner`
  says that there is an account which owns the store, the cookie, whatever a
  refresh in flight carries or brings, and whatever the restore was given, unless
  `crossed`; `Ended` says the same of nobody after a logout.
* **ScreensProofs.** `Projection`: a step of `Screens` is a step of one screen
  and leaves the others alone, so each screen has its own invariant.
  - `UrlOfWhatIsSent` ([]UrlFollowsHost): the effect runs whenever host, port or
    TLS have changed, so a form with host and port has their URL (`UrlKept`), for
    every host, port and URL.
  - `FormTakesNoTime` (NoTimeTaken), from `RoundTrip`: formatting a moment for the
    input and parsing it gives the beginning of its minute or, at 24:00, that of the
    next day, or nothing, which no form lets through; whatever the lengths of
    minute, hour and day, Moscow's lead and the browser's midnight. Hence the date in a
    form that nobody typed is at no time before the minute of `base`, as often as it
    was extended and saved.
  - `PagesTellTheTime` ([]TileIsTrue): the next tick is at most a minute away,
    the countdown is that of the tick a minute before it (`TickSet`), and what
    was drawn last is of a moment since (`TileKnown`). `SameLists` shows that
    board, filter and badge sort a running subscription alike.
  - `ChoiceIsOnTheList` ([]SelectedIsListed): calls of `initServerData` may overlap
    each other, clicks and logouts; what a call that nothing upset has read is
    what the store has (`AloneInStore`).
  - `ButtonMakesOneInvoice` ([]OneInvoice): the only order Lava is asked for is
    the one the button waits for, and it is asked when no other can be paid.
  - `HookKeepsOneSocket` ([]OneSocket): while no token is replaced under a socket
    the refs know every socket and timer that is alive (`OneAlive`), so the
    cleanup ends them all.
  - `WhatIsClosedStaysClosed` ([]ClosedForGood): the ids on the screen are those
    that were not closed, and no new one is among those closed before; the key of a
    banner closed under a stamp is stored, unless the storage refused it.

  - `ChartTellsTheTraffic` ([]ChartIsTrue), from `ChartInv`.
  - `ScreensKeepTypes` ([]TypeOK): the invariants of the screens together. The card
    shows an order of those there are because the latest of finitely many exists
    (`LatestIsThere`), and what is hovered is a number because the bisection ends
    (`HoveredType`).

  Assumed of the constants beyond their types: ports are not 0 and no address is
  the empty string (`ServerAssumption`); null is no number, no history, no order
  (`TimeAssumption`, `ChartAssumption`, `CardAssumption`); what is typed into a
  date field is no later than the last date a run may reach (`FormAssumption`);
  rows begin where a bucket does, as the collector writes them
  (`ChartAssumption`); between any value to draw and a quarter of it there is a
  step of the axis (`StepsAssumption`): the code has 1, 2 and 5 times every power
  of ten, of which each is at most two and a half times the one before, and up to
  four steps to an axis.

The proofs also found what a run cannot: a `CASE` whose guards overlap has no fixed
value in TLA+, though TLC takes the first that holds. Two did, in `PaymentCard` and
`AdminGuard`; their alternatives are now exclusive, in the order of the code.

Only model-checked: liveness (`RequestsFinish`, `PaymentArrives`,
`ExpiryTakesEffect`, `TasksFinish`, `PollsEnd`, `CallsSettle`), since the prover
handles neither fairness nor ENABLED. Every other property a passing run checks is
a theorem.

## Not modelled

* The network half of `kick_users` and GET /online: each asks the servers once and
  keeps nothing; what it does to the rows is in `AdminGuard` and `Subscription`.
* The pool of 20 connections: an exhausted one fails a request with nothing
  written, a step every model has for another reason.
* Deletion of traffic buckets after a week, traffic queries: single statements
  that no other state depends on.
* `routers/ws.py` is not mounted.
* The row locks of `delete_user` next to a webhook's (`routers/users.py:350`):
  `Payments` deletes in one step. One of the two is aborted, and a webhook is
  repeated.
* Whether the text of a connection URL, a label or a message is right; avatars,
  styles, guides and shaders: markup with no state that outlives a click.
* Configuration, schemas and logging, but for the limits that are constants of the
  modules; Ansible, Docker and monitoring.
