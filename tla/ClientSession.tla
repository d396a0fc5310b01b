---------------------------- MODULE ClientSession ----------------------------
(***************************************************************************)
(* The session of one browser tab: authStore and its shared refresh, the   *)
(* fetch wrapper that refreshes on 401 and repeats, the login and register *)
(* forms, the restore on the login page, logout, change of password, the   *)
(* route guards, and the calls of initServerData, whose results are the    *)
(* subject of ServerKeys.                                                  *)
(*                                                                         *)
(* JavaScript runs one callback at a time: what happens between two awaits *)
(* is one step, and answers arrive in any order, late, or not at all.  An  *)
(* access token is known by its owner; the server answers 401 to it        *)
(* whenever it likes (30 minutes are over).  Of the server there are the   *)
(* rows of refresh_tokens, which RefreshTokens studies from its own side.  *)
(***************************************************************************)
EXTENDS Naturals, FiniteSets

CONSTANTS Users,        \* accounts that use this browser
          Admins,       \* those with role "admin"
          Inactive,     \* those without a subscription
          Nobody,       \* null
          Refreshes,    \* bound: POST /auth/refresh in flight
          Requests,     \* bound: other requests in flight
          MaxTokens     \* bound: refresh tokens ever issued

ASSUME ClientAssumption ==
    /\ Admins \subseteq Users /\ Inactive \subseteq Users \ Admins
    /\ Nobody \notin Users \cup Refreshes \cup Requests
    /\ Refreshes \cap Requests = {} /\ MaxTokens \in Nat

VARIABLES auth,         \* authStore: token (its owner), user, the shared refresh
          page,         \* the path that is shown once all redirects are done
          restore,      \* useRestore of the mounted LoginPage
          login,        \* the login or register form's call: whom it logs in
          refresh,      \* refresh[r]: POST /auth/refresh
          request,      \* request[q]: any other call that goes through request()
          cookie,       \* the refresh cookie of the browser, 0 for none
          row,          \* row[k]: owner of the k-th refresh token while it is valid
          issued,       \* refresh tokens issued so far
          crossed,      \* a session began or ended with a refresh under way
          out           \* logged out, with nothing else under way, and no form since

server == <<row, issued>>
vars == <<auth, page, restore, login, refresh, request, cookie, server, crossed, out>>

Anyone == Users \cup {Nobody}
Tokens == 1..MaxTokens
Pages == {"/login", "/register", "/profile", "/admin", "/settings"}
Private == {"/profile", "/admin", "/settings"}

Auth == [token : Anyone, user : Anyone, refresh : Refreshes \cup {Nobody}]
NoAuth == [token |-> Nobody, user |-> Nobody, refresh |-> Nobody]

\* splash: the state restoring; call: what restore() awaits; token: whose
\* access token it was given; user: what getMe has answered.
Restore == [splash : BOOLEAN, step : {"off", "start", "token", "me", "init"},
            call : Refreshes \cup Requests \cup {Nobody}, token : Anyone, user : Anyone]
Off == [splash |-> FALSE, step |-> "off", call |-> Nobody, token |-> Nobody, user |-> Nobody]
Starting == [Off EXCEPT !.splash = TRUE, !.step = "start"]

\* shared: called by authStore.refreshToken, not by useRestore; owner, got: of
\* the answer.
Refresh == [at : {"idle", "sent", "ok"}, shared : BOOLEAN, cookie : 0..MaxTokens,
            owner : Anyone, got : 0..MaxTokens]
NoRefresh == [at |-> "idle", shared |-> FALSE, cookie |-> 0, owner |-> Nobody, got |-> 0]

\* tok: the Authorization header; cookie: the cookie that logout sends along; ref:
\* the refresh it waits for; for: the user name in the path; caller: who awaits
\* initServerData.
Request == [op : {"none", "query", "me", "list", "urls", "logout", "password"},
            at : {"idle", "sent", "waiting", "resent"}, tok : Anyone, for : Anyone,
            cookie : 0..MaxTokens,
            ref : Refreshes \cup {Nobody}, caller : {"none", "login", "restore", "card"}]
NoRequest == [op |-> "none", at |-> "idle", tok |-> Nobody, for |-> Nobody, cookie |-> 0,
              ref |-> Nobody, caller |-> "none"]

InFlight == {r \in Refreshes : refresh[r].at # "idle"}
Busy(op) == \E q \in Requests : request[q].op = op
Idle(q) == request[q] = NoRequest

-----------------------------------------------------------------------------
(* Routes                                                                  *)

\* Mutant of Home: everyone is sent to the root.
HomeRoot(u) == "/"

Home(u) == IF u \in Admins THEN "/admin" ELSE "/profile"

LoggedIn(a) == a.token # Nobody /\ a.user # Nobody

\* AdminRoute, UserOnlyRoute, PrivateRoute and PublicOnlyRoute, redirects
\* followed to their end.
Shown(path, a) ==
    CASE path = "/settings" -> IF a.token # Nobody THEN path ELSE "/login"
      [] path \in {"/profile", "/admin"} -> IF LoggedIn(a) THEN Home(a.user) ELSE "/login"
      [] OTHER -> IF LoggedIn(a) THEN Home(a.user) ELSE path

\* The stores become a and the router is asked for path.  A LoginPage that
\* appears starts to restore; one that goes cancels what it was restoring, and
\* r is what becomes of the restore if it stays.
Enter(path, a, r) ==
    /\ auth' = a
    /\ page' = Shown(path, a)
    /\ restore' = IF page' # "/login" THEN Off
                  ELSE IF page # "/login" THEN Starting ELSE r

\* clearAuth forgets the shared refresh, it does not stop it.
ClearAuth(path) == Enter(path, NoAuth, restore)

SetAuth(token, user) == [auth EXCEPT !.token = token, !.user = user]

\* window.location.href = "/login", or the user reloads: what is under way is
\* gone, what is persisted stays.
Load == /\ auth' = NoAuth /\ page' = "/login" /\ restore' = Starting
        /\ login' = Nobody
        /\ refresh' = [r \in Refreshes |-> NoRefresh]
        /\ request' = [q \in Requests |-> NoRequest]
        /\ crossed' = FALSE

Init == /\ auth = NoAuth
        /\ page = "/login" /\ restore = Starting
        /\ login = Nobody
        /\ refresh = [r \in Refreshes |-> NoRefresh]
        /\ request = [q \in Requests |-> NoRequest]
        /\ cookie = 0 /\ row = [k \in Tokens |-> Nobody] /\ issued = 0
        /\ crossed = FALSE /\ out = FALSE

Reload == Load /\ UNCHANGED <<cookie, server, out>>

-----------------------------------------------------------------------------
(* request(): send, refresh on 401, send again                             *)

\* buildHeaders takes the token that is in the store now.
Sent(op, who, caller) == [op |-> op, at |-> "sent", tok |-> auth.token, for |-> who,
                          cookie |-> 0, ref |-> Nobody, caller |-> caller]
Send(q, op, who, caller) == request' = [request EXCEPT ![q] = Sent(op, who, caller)]

Settle(q) == request' = [request EXCEPT ![q] = NoRequest]

\* An answer that request() hands to its caller; without a token only a failure.
Answered(q) == request[q].at \in {"sent", "resent"}
Accepted(q) == Answered(q) /\ request[q].tok # Nobody

Waiting(q, r) == [request[q] EXCEPT !.at = "waiting", !.ref = r, !.tok = Nobody]

\* Mutant of Unauthorized: every call that gets 401 starts a refresh.
UnauthorizedAlone(q) ==
    /\ request[q].at = "sent" /\ request[q].op # "logout"
    /\ \E r \in Refreshes \ InFlight :
          /\ refresh' = [refresh EXCEPT ![r] = [NoRefresh EXCEPT !.at = "sent",
                                                   !.shared = TRUE, !.cookie = cookie]]
          /\ auth' = [auth EXCEPT !.refresh = r]
          /\ request' = [request EXCEPT ![q] = Waiting(q, r)]
    /\ UNCHANGED <<page, restore, login, cookie, server, crossed, out>>

\* 401: the refresh under way is joined, or one is started.  (POST
\* /auth/logout asks for no token and is never answered 401.)
Unauthorized(q) ==
    /\ request[q].at = "sent" /\ request[q].op # "logout"
    /\ \/ /\ auth.refresh # Nobody
          /\ request' = [request EXCEPT ![q] = Waiting(q, auth.refresh)]
          /\ UNCHANGED <<auth, refresh>>
       \/ /\ auth.refresh = Nobody
          /\ \E r \in Refreshes \ InFlight :
                /\ refresh' = [refresh EXCEPT ![r] = [NoRefresh EXCEPT !.at = "sent",
                                                         !.shared = TRUE, !.cookie = cookie]]
                /\ auth' = [auth EXCEPT !.refresh = r]
                /\ request' = [request EXCEPT ![q] = Waiting(q, r)]
    /\ UNCHANGED <<page, restore, login, cookie, server, crossed, out>>

\* POST /auth/refresh at the server: the token is exchanged, once.  (That it is
\* refused is seen when the answer comes: SharedBad, RestoreNoToken.)
RefreshServed(r) ==
    /\ refresh[r].at = "sent"
    /\ LET k == refresh[r].cookie IN
       /\ k # 0 /\ row[k] # Nobody /\ issued < MaxTokens
       /\ issued' = issued + 1
       /\ row' = [row EXCEPT ![k] = Nobody, ![issued + 1] = row[k]]
       /\ refresh' = [refresh EXCEPT ![r].at = "ok", ![r].owner = row[k],
                                     ![r].got = issued + 1]
    /\ UNCHANGED <<auth, page, restore, login, request, cookie, crossed, out>>

\* .then and .finally of the shared refresh: the token is stored, the promise
\* forgotten - whichever it is - and everyone who waited sends again.
SharedOk(r) ==
    /\ refresh[r].shared /\ refresh[r].at = "ok"
    /\ cookie' = refresh[r].got
    /\ refresh' = [refresh EXCEPT ![r] = NoRefresh]
    /\ request' = [q \in Requests |->
          IF request[q].ref = r
          THEN [request[q] EXCEPT !.at = "resent", !.tok = refresh[r].owner, !.ref = Nobody]
          ELSE request[q]]
    /\ Enter(page, [auth EXCEPT !.token = refresh[r].owner, !.refresh = Nobody], restore)
    /\ UNCHANGED <<login, server, crossed, out>>

\* Mutant of SharedBad: a call that got no answer is waited for without end.
SharedBadRefused(r) ==
    /\ r \in InFlight /\ refresh[r].shared
    /\ refresh[r].cookie # 0 => row[refresh[r].cookie] = Nobody
    /\ Load
    /\ UNCHANGED <<cookie, server, out>>

\* .catch, refused or lost on the way: clearAuth; everyone who waited sends the
\* browser to /login.
SharedBad(r) ==
    /\ r \in InFlight /\ refresh[r].shared
    /\ Load
    /\ UNCHANGED <<cookie, server, out>>

-----------------------------------------------------------------------------
(* initServerData: the list of servers, then a URL for each                *)

Subscriber(u) == u \notin Admins /\ u \notin Inactive

\* Mutant of Continue: the login form calls setAuth once the URLs are there.
ContinueLate(q) ==
    IF request[q].caller = "login"
    THEN Enter(Home(request[q].for), SetAuth(request[q].for, request[q].for), restore)
    ELSE IF request[q].caller = "restore" /\ restore.call = q
         THEN Enter(Home(restore.user), SetAuth(restore.token, restore.user), Off)
         ELSE UNCHANGED <<auth, page, restore>>

\* What follows "await initServerData(...)" in its caller.
Continue(q) ==
    IF request[q].caller = "login" THEN Enter(Home(request[q].for), auth, restore)
    ELSE IF request[q].caller = "restore" /\ restore.call = q
         THEN Enter(Home(restore.user), SetAuth(restore.token, restore.user), Off)
         ELSE UNCHANGED <<auth, page, restore>>

ListOk(q) ==
    /\ request[q].op = "list" /\ Accepted(q)
    /\ Send(q, "urls", request[q].for, request[q].caller)
    /\ UNCHANGED <<auth, page, restore, login, refresh, cookie, server, crossed, out>>

\* The exception ends the caller: restore() takes the splash screen away, the
\* login form shows a message.
ListFails(q) ==
    /\ request[q].op = "list" /\ Answered(q)
    /\ Settle(q)
    /\ restore' = IF restore.call = q THEN Off ELSE restore
    /\ UNCHANGED <<auth, page, login, refresh, cookie, server, crossed, out>>

\* allSettled: whatever came of each; what is in the map is left to ServerKeys.
UrlsSettled(q) ==
    /\ request[q].op = "urls" /\ Answered(q)
    /\ Settle(q)
    /\ Continue(q)
    /\ UNCHANGED <<login, refresh, cookie, server, crossed, out>>

\* ConnectionCard.handleRefresh
CardRefresh(q) ==
    /\ page = "/profile" /\ Subscriber(auth.user) /\ Idle(q)
    /\ \A p \in Requests : request[p].caller # "card"
    /\ Send(q, "list", auth.user, "card")
    /\ UNCHANGED <<auth, page, restore, login, refresh, cookie, server, crossed, out>>

-----------------------------------------------------------------------------
(* useRestore                                                              *)

\* The timer of 0 ms: refreshToken of api/auth, not the shared one.
RestoreBegin(r) ==
    /\ restore.step = "start" /\ r \notin InFlight
    /\ refresh' = [refresh EXCEPT ![r] = [NoRefresh EXCEPT !.at = "sent", !.cookie = cookie]]
    /\ restore' = [restore EXCEPT !.step = "token", !.call = r]
    /\ UNCHANGED <<auth, page, login, request, cookie, server, crossed, out>>

\* setToken, then getMe; of a cancelled restore only the cookie remains.
RestoreToken(r, q) ==
    /\ ~refresh[r].shared /\ refresh[r].at = "ok"
    /\ cookie' = refresh[r].got
    /\ refresh' = [refresh EXCEPT ![r] = NoRefresh]
    /\ IF restore.call = r
       THEN /\ Idle(q)
            /\ auth' = [auth EXCEPT !.token = refresh[r].owner]
            /\ request' = [request EXCEPT ![q] = [NoRequest EXCEPT !.op = "me", !.at = "sent",
                                                     !.tok = refresh[r].owner]]
            /\ restore' = [restore EXCEPT !.step = "me", !.call = q, !.token = refresh[r].owner]
       ELSE UNCHANGED <<auth, request, restore>>
    /\ UNCHANGED <<page, login, server, crossed, out>>

RestoreNoToken(r) ==
    /\ r \in InFlight /\ ~refresh[r].shared
    /\ refresh' = [refresh EXCEPT ![r] = NoRefresh]
    /\ restore' = IF restore.call = r THEN Off ELSE restore
    /\ UNCHANGED <<auth, page, login, request, cookie, server, crossed, out>>

\* getMe answers null to any failure; the token stays in the store.
RestoreNobody(q) ==
    /\ request[q].op = "me" /\ Answered(q)
    /\ Settle(q)
    /\ restore' = IF restore.call = q THEN Off ELSE restore
    /\ UNCHANGED <<auth, page, login, refresh, cookie, server, crossed, out>>

RestoreMe(q) ==
    /\ request[q].op = "me" /\ Accepted(q)
    /\ LET me == request[q].tok IN
       IF restore.call # q
       THEN Settle(q) /\ UNCHANGED <<auth, page, restore>>
       ELSE IF Subscriber(me)
       THEN /\ Send(q, "list", me, "restore")
            /\ restore' = [restore EXCEPT !.step = "init", !.user = me]
            /\ UNCHANGED <<auth, page>>
       ELSE /\ Settle(q)
            /\ Enter(Home(me), SetAuth(restore.token, me), Off)
    /\ UNCHANGED <<login, refresh, cookie, server, crossed, out>>

\* After RESTORE_TIMEOUT_MS the form is shown, and restore() goes on behind it.
RestoreTimeout ==
    /\ restore.splash
    /\ restore' = [restore EXCEPT !.splash = FALSE]
    /\ UNCHANGED <<auth, page, login, refresh, request, cookie, server, crossed, out>>

-----------------------------------------------------------------------------
(* LoginPage, RegisterPage                                                 *)

\* The submit button is disabled while its call is under way.
Submit(u) ==
    /\ login = Nobody
    /\ page = "/login" /\ ~restore.splash
    /\ login' = u /\ out' = FALSE
    /\ UNCHANGED <<auth, page, restore, refresh, request, cookie, server, crossed>>

\* POST /users/register, then the login of the new account, which is inactive;
\* either may fail, and the second alone leaves an account nobody is told of.
Register(u) ==
    /\ login = Nobody
    /\ page = "/register" /\ u \in Inactive
    /\ login' = u /\ out' = FALSE
    /\ UNCHANGED <<auth, page, restore, refresh, request, cookie, server, crossed>>

\* setAuth shows the first page at once; a subscriber's URLs are fetched then.
LoginOk(q) ==
    /\ login # Nobody /\ issued < MaxTokens /\ Idle(q)
    /\ issued' = issued + 1 /\ row' = [row EXCEPT ![issued + 1] = login]
    /\ cookie' = issued + 1
    /\ crossed' = (crossed \/ InFlight # {})
    /\ Enter(IF Subscriber(login) THEN page ELSE Home(login), SetAuth(login, login), restore)
    /\ request' = IF Subscriber(login)
                  THEN [request EXCEPT ![q] = [NoRequest EXCEPT !.op = "list", !.at = "sent",
                            !.tok = login, !.for = login, !.caller = "login"]]
                  ELSE request
    /\ login' = Nobody
    /\ UNCHANGED <<refresh, out>>

LoginFails ==
    /\ login # Nobody
    /\ login' = Nobody
    /\ UNCHANGED <<auth, page, restore, refresh, request, cookie, server, crossed, out>>

-----------------------------------------------------------------------------
(* Pages of a session                                                      *)

\* A query of the page that is shown; its answer goes to the query cache.
Query(q) ==
    /\ page \in Private /\ Idle(q)
    /\ Send(q, "query", Nobody, "none")
    /\ UNCHANGED <<auth, page, restore, login, refresh, cookie, server, crossed, out>>

QuerySettled(q) ==
    /\ request[q].op = "query" /\ Answered(q)
    /\ Settle(q)
    /\ UNCHANGED <<auth, page, restore, login, refresh, cookie, server, crossed, out>>

\* useLogout: the item of the menu is disabled while the call is pending.
Logout(q) ==
    /\ page \in Private /\ Idle(q) /\ ~Busy("logout")
    /\ request' = [request EXCEPT ![q] = [Sent("logout", Nobody, "none") EXCEPT !.cookie = cookie]]
    /\ UNCHANGED <<auth, page, restore, login, refresh, cookie, server, crossed, out>>

\* onSettled, after a success or an error: served is whether the server has
\* revoked the token sent along, and answered whether its answer, which takes the
\* browser's cookie away, came.
LogoutSettled(q, served, answered) ==
    /\ request[q].op = "logout" /\ (answered => served)
    /\ Settle(q)
    /\ LET k == request[q].cookie IN
          row' = IF served /\ k # 0 THEN [row EXCEPT ![k] = Nobody] ELSE row
    /\ cookie' = IF answered THEN 0 ELSE cookie
    /\ ClearAuth("/login")
    /\ crossed' = (crossed \/ InFlight # {})
    /\ out' = (answered /\ InFlight = {} /\ login = Nobody /\ restore'.call = Nobody)
    /\ UNCHANGED <<login, refresh, issued>>

\* AccountPasswordSection of the settings page.
Password(q) ==
    /\ page = "/settings" /\ auth.user # Nobody /\ Idle(q) /\ ~Busy("password")
    /\ Send(q, "password", auth.user, "none")
    /\ UNCHANGED <<auth, page, restore, login, refresh, cookie, server, crossed, out>>

\* The server revokes every token of the account.  The callback of mutate()
\* runs only if the page that gave it is still mounted: a settings page opened
\* since is another one.
PasswordOk(q) ==
    /\ request[q].op = "password" /\ Accepted(q) /\ request[q].tok = request[q].for
    /\ Settle(q)
    /\ row' = [k \in Tokens |-> IF row[k] = request[q].for THEN Nobody ELSE row[k]]
    /\ \/ page = "/settings" /\ ClearAuth("/login") /\ crossed' = (crossed \/ InFlight # {})
       \/ UNCHANGED <<auth, page, restore, crossed>>
    /\ UNCHANGED <<login, refresh, cookie, issued, out>>

PasswordFails(q) ==
    /\ request[q].op = "password" /\ Answered(q)
    /\ Settle(q)
    /\ UNCHANGED <<auth, page, restore, login, refresh, cookie, server, crossed, out>>

\* The items of the menu: those of the role, and the settings.
Menu == {"/settings", Home(auth.user)}

\* The form pages lead to one another.
Go(path) ==
    /\ path # page
    /\ \/ path \in {"/login", "/register"} /\ page \notin Private /\ ~restore.splash
       \/ path \in Menu /\ page \in Private
    /\ Enter(path, auth, restore)
    /\ UNCHANGED <<login, refresh, request, cookie, server, crossed, out>>

-----------------------------------------------------------------------------
(* Behaviour                                                               *)

RefreshAnswer(r) == \/ SharedOk(r) \/ SharedBad(r) \/ RestoreNoToken(r)
                    \/ \E q \in Requests : RestoreToken(r, q)
Answer(q) == \/ Unauthorized(q)
             \/ ListOk(q) \/ ListFails(q) \/ UrlsSettled(q)
             \/ RestoreMe(q) \/ RestoreNobody(q)
             \/ QuerySettled(q) \/ PasswordOk(q) \/ PasswordFails(q)
             \/ \E served, answered \in BOOLEAN : LogoutSettled(q, served, answered)
User(q) == Query(q) \/ CardRefresh(q) \/ Logout(q) \/ Password(q)

Next == \/ \E r \in Refreshes : RefreshServed(r) \/ RefreshAnswer(r) \/ RestoreBegin(r)
        \/ \E q \in Requests : Answer(q) \/ User(q) \/ LoginOk(q)
        \/ RestoreTimeout \/ LoginFails \/ Reload
        \/ \E u \in Users : Submit(u) \/ Register(u)
        \/ \E path \in Pages : Go(path)

Spec == Init /\ [][Next]_vars

\* A call is answered, or fails, in the end.
FairSpec == /\ Spec
            /\ \A r \in Refreshes : WF_refresh(RefreshAnswer(r))
            /\ \A q \in Requests : WF_request(Answer(q))

-----------------------------------------------------------------------------
(* Properties *)

TypeOK == /\ auth \in Auth /\ page \in Pages
          /\ restore \in Restore /\ login \in Anyone
          /\ refresh \in [Refreshes -> Refresh] /\ request \in [Requests -> Request]
          /\ cookie \in 0..MaxTokens /\ row \in [Tokens -> Anyone] /\ issued \in 0..MaxTokens
          /\ crossed \in BOOLEAN /\ out \in BOOLEAN

\* Whatever was in flight when a session ended or began, the store never has a
\* user without an access token, and a guarded page never shows without one.
NoUserWithoutToken == /\ auth.user # Nobody => auth.token # Nobody
                      /\ page \in Private => auth.token # Nobody

\* authStore keeps the promise "so as not to duplicate parallel refresh
\* calls": at most one is in flight, and it is the stored one, unless the
\* session changed under it.
OneSharedRefresh == ~crossed =>
    \A r \in InFlight : refresh[r].shared <=> auth.refresh = r

\* The token, the refresh cookie and the name on the screen belong to one
\* account, unless the session changed under a refresh.
SameAccount == ~crossed /\ auth.user # Nobody =>
    /\ auth.token = auth.user
    /\ cookie # 0 => row[cookie] \in {auth.user, Nobody}

\* After a logout that was answered nobody is logged in, and no cookie brings
\* anyone back, until a form is submitted.  (A logout whose call failed, or that
\* crossed a refresh or a restore, is excepted: these can bring a session back.)
LogoutEnds == out => auth.user = Nobody /\ cookie = 0

\* Whom the screen names, whose token is sent and whose cookie is kept: one
\* account, or none.
OneOwner == NoUserWithoutToken /\ SameAccount /\ LogoutEnds

\* Every call is answered or fails: 401, waiting and repeating included.
CallsSettle == \A q \in Requests : ~Idle(q) ~> Idle(q)
=============================================================================
