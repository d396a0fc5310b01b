------------------------- MODULE ClientSessionProofs -------------------------
(***************************************************************************)
(* One browser tab never mixes two accounts, for any number of accounts,   *)
(* calls and refreshes in flight and tokens issued.  While no session has  *)
(* begun or ended under a refresh there is one account that everything     *)
(* which can still reach the store belongs to: the store itself, the       *)
(* cookie, what every refresh in flight carries or brings, and what the    *)
(* restore has been given.                                                 *)
(***************************************************************************)
EXTENDS ClientSession, TLAPS

\* An answered refresh names an account; the promise that is remembered is one
\* in flight and a shared one; a restore with a call of its own has a token.
Sound ==
    /\ \A r \in Refreshes : refresh[r].at = "ok" => refresh[r].owner # Nobody
    /\ auth.refresh # Nobody => auth.refresh \in InFlight /\ refresh[auth.refresh].shared
    /\ restore.call \in Requests => restore.token # Nobody

\* A refresh token that is u's, revoked, or none.
Of(k, u) == k # 0 => row[k] \in {u, Nobody}

\* Everything that can still reach the store is u's.
Owned(u) ==
    /\ {auth.token, auth.user, restore.token, restore.user} \subseteq {u, Nobody}
    /\ Of(cookie, u)
    /\ \A r \in InFlight : /\ refresh[r].owner \in {u, Nobody}
                           /\ Of(refresh[r].cookie, u) /\ Of(refresh[r].got, u)
    /\ restore.call \in Requests => request[restore.call].tok \in {u, Nobody}

SingleOwner == ~crossed => \E u \in Anyone : Owned(u)

\* After a logout nothing under way can bring a session back.
Ended == out =>
    /\ auth.user = Nobody /\ cookie = 0 /\ login = Nobody
    /\ restore.call \notin Requests
    /\ \A r \in InFlight : refresh[r].at = "sent" /\ refresh[r].cookie = 0

SessionInv == /\ TypeOK /\ Sound /\ NoUserWithoutToken
              /\ OneSharedRefresh /\ SingleOwner /\ Ended

-----------------------------------------------------------------------------
(* What the helpers give                                                   *)

LEMMA Records ==
    /\ NoAuth \in Auth /\ Off \in Restore /\ Starting \in Restore
    /\ NoRefresh \in Refresh /\ NoRequest \in Request
    /\ Off.call = Nobody /\ Off.token = Nobody /\ Off.user = Nobody
    /\ Starting.call = Nobody /\ Starting.token = Nobody /\ Starting.user = Nobody
<1>1. NoAuth \in Auth /\ Off \in Restore /\ NoRefresh \in Refresh /\ NoRequest \in Request
  BY ClientAssumption DEF NoAuth, Auth, Off, Restore, NoRefresh, Refresh, NoRequest, Request, Anyone
<1>2. Off.call = Nobody /\ Off.token = Nobody /\ Off.user = Nobody
  BY DEF Off
<1>3. /\ Starting \in Restore
      /\ Starting.call = Off.call /\ Starting.token = Off.token /\ Starting.user = Off.user
  BY <1>1 DEF Starting, Restore
<1> QED BY <1>1, <1>2, <1>3

LEMMA PageShown ==
    ASSUME NEW path \in Pages, NEW a \in Auth
    PROVE  /\ Shown(path, a) \in Pages
           /\ Shown(path, a) \in Private => a.token # Nobody
           /\ LoggedIn(a) => Shown(path, a) # "/login"
BY DEF Shown, Pages, Private, Home, LoggedIn

\* Enter sets the store, and a restore that stays is r.
LEMMA Entered ==
    ASSUME NEW path \in Pages, NEW a \in Auth, NEW r \in Restore, Enter(path, a, r)
    PROVE  /\ auth' = a /\ page' \in Pages /\ restore' \in Restore
           /\ restore' \in {Off, Starting, r}
           /\ page' \in Private => a.token # Nobody
           /\ LoggedIn(a) => restore' = Off
BY PageShown, Records DEF Enter

LEMMA HomeIsPage == \A u : Home(u) \in Pages
BY DEF Home, Pages

-----------------------------------------------------------------------------
\* The calls that actions put in the place of one.
LEMMA Calls ==
    ASSUME TypeOK, NEW q \in Requests
    PROVE  /\ \A op \in {"query", "me", "list", "urls", "logout", "password"}, who \in Anyone,
                 caller \in {"none", "login", "restore", "card"} :
                  Send(q, op, who, caller) => request' \in [Requests -> Request]
           /\ Settle(q) => request' \in [Requests -> Request]
           /\ [Sent("logout", Nobody, "none") EXCEPT !.cookie = cookie] \in Request
           /\ \A r \in Refreshes : Waiting(q, r) \in Request
<1>1. /\ request \in [Requests -> Request] /\ request[q] \in Request
      /\ auth.token \in Anyone /\ Nobody \in Anyone
      /\ cookie \in 0..MaxTokens /\ 0 \in 0..MaxTokens
  BY ClientAssumption DEF TypeOK, Auth, Anyone
<1>2. \A op \in {"query", "me", "list", "urls", "logout", "password"}, who \in Anyone,
         caller \in {"none", "login", "restore", "card"} : Sent(op, who, caller) \in Request
  BY <1>1 DEF Sent, Request
<1>3. \A r \in Refreshes : Waiting(q, r) \in Request
  BY <1>1 DEF Waiting, Request
<1>4. [Sent("logout", Nobody, "none") EXCEPT !.cookie = cookie] \in Request
  BY <1>1 DEF Sent, Request
<1> QED BY <1>1, <1>2, <1>3, <1>4, Records DEF Send, Settle

LEMMA TypesStep == TypeOK /\ [Next]_vars => TypeOK'
<1> SUFFICES ASSUME TypeOK, [Next]_vars PROVE TypeOK'
  OBVIOUS
<1>0. /\ auth \in Auth /\ auth.token \in Anyone /\ auth.user \in Anyone
      /\ page \in Pages /\ restore \in Restore /\ Nobody \in Anyone /\ Users \subseteq Anyone
      /\ \A u : Home(u) \in Pages
  BY DEF TypeOK, Auth, Anyone, Home, Pages
<1>1. ASSUME NEW q \in Requests,
             \/ Query(q) \/ QuerySettled(q) \/ Logout(q) \/ Password(q) \/ PasswordFails(q)
             \/ CardRefresh(q)
      PROVE  TypeOK'
  <2>1. request' \in [Requests -> Request]
    <3>1. CASE Logout(q)
      BY <3>1, Calls DEF Logout, TypeOK
    <3> QED BY <1>0, <1>1, <3>1, Calls DEF Query, QuerySettled, Password, PasswordFails, CardRefresh
  <2> QED BY <1>1, <2>1
          DEF Query, QuerySettled, Logout, Password, PasswordFails, CardRefresh, TypeOK, server
<1>2. ASSUME NEW q \in Requests, ListOk(q)
      PROVE  TypeOK'
  <2>1. request[q].for \in Anyone /\ request[q].caller \in {"none", "login", "restore", "card"}
    BY DEF TypeOK, Request
  <2>2. request' \in [Requests -> Request]
    BY <1>2, <2>1, Calls DEF ListOk
  <2> QED BY <1>2, <2>2 DEF ListOk, TypeOK, server
<1>3. ASSUME NEW q \in Requests, ListFails(q) \/ RestoreNobody(q)
      PROVE  TypeOK'
  BY <1>3, Records, Calls DEF ListFails, RestoreNobody, TypeOK, server
<1>4. ASSUME NEW q \in Requests, UrlsSettled(q)
      PROVE  TypeOK'
  <2>1. SetAuth(restore.token, restore.user) \in Auth
    BY <1>0 DEF SetAuth, Auth, Restore
  <2>2. auth' \in Auth /\ page' \in Pages /\ restore' \in Restore
    BY <1>0, <1>4, <2>1, Entered, Records DEF UrlsSettled, Continue
  <2>3. request' \in [Requests -> Request]
    BY <1>4, Calls DEF UrlsSettled
  <2> QED BY <1>4, <2>2, <2>3 DEF UrlsSettled, TypeOK, server
<1>5. ASSUME NEW q \in Requests, RestoreMe(q)
      PROVE  TypeOK'
  <2>1. request[q].tok \in Anyone
    BY DEF TypeOK, Request
  <2>2. CASE restore.call # q
    BY <1>5, <2>2, Calls DEF RestoreMe, TypeOK, server
  <2>3. CASE restore.call = q /\ Subscriber(request[q].tok)
    <3>1. request' \in [Requests -> Request]
      BY <1>5, <2>1, <2>3, Calls DEF RestoreMe
    <3>2. restore' \in Restore
      BY <1>0, <1>5, <2>1, <2>3 DEF RestoreMe, Restore
    <3> QED BY <1>5, <2>3, <3>1, <3>2 DEF RestoreMe, TypeOK, server
  <2>4. CASE restore.call = q /\ ~Subscriber(request[q].tok)
    <3>1. SetAuth(restore.token, request[q].tok) \in Auth
      BY <1>0, <2>1 DEF SetAuth, Auth, Restore
    <3>2. auth' \in Auth /\ page' \in Pages /\ restore' \in Restore
      BY <1>0, <1>5, <2>4, <3>1, Entered, Records DEF RestoreMe
    <3>3. request' \in [Requests -> Request]
      BY <1>5, <2>4, Calls DEF RestoreMe
    <3> QED BY <1>5, <3>2, <3>3 DEF RestoreMe, TypeOK, server
  <2> QED BY <2>2, <2>3, <2>4
<1>6. ASSUME NEW q \in Requests, Unauthorized(q)
      PROVE  TypeOK'
  <2>1. CASE auth.refresh # Nobody
    <3>1. auth.refresh \in Refreshes
      BY <1>0, <2>1 DEF Auth
    <3>2. request' \in [Requests -> Request]
      BY <1>6, <2>1, <3>1, Calls DEF Unauthorized, TypeOK
    <3> QED BY <1>6, <2>1, <3>2 DEF Unauthorized, TypeOK, server
  <2>2. CASE auth.refresh = Nobody
    <3>1. PICK r \in Refreshes :
              /\ refresh' = [refresh EXCEPT ![r] = [NoRefresh EXCEPT !.at = "sent",
                                                       !.shared = TRUE, !.cookie = cookie]]
              /\ auth' = [auth EXCEPT !.refresh = r]
              /\ request' = [request EXCEPT ![q] = Waiting(q, r)]
      BY <1>6, <2>2 DEF Unauthorized
    <3>2. request' \in [Requests -> Request]
      BY <3>1, Calls DEF TypeOK
    <3>3. [NoRefresh EXCEPT !.at = "sent", !.shared = TRUE, !.cookie = cookie] \in Refresh
      BY Records DEF Refresh, TypeOK
    <3>4. refresh' \in [Refreshes -> Refresh]
      BY <3>1, <3>3 DEF TypeOK
    <3>5. auth' \in Auth
      BY <1>0, <3>1 DEF Auth
    <3> QED BY <1>6, <3>2, <3>4, <3>5 DEF Unauthorized, TypeOK, server
  <2> QED BY <2>1, <2>2
<1>7. ASSUME NEW r \in Refreshes, RefreshServed(r)
      PROVE  TypeOK'
  <2>1. /\ refresh[r] \in Refresh /\ refresh[r].cookie \in 0..MaxTokens
        /\ refresh[r].cookie # 0 /\ issued \in Nat /\ MaxTokens \in Nat /\ issued < MaxTokens
    BY <1>7, ClientAssumption DEF RefreshServed, TypeOK, Refresh
  <2>2. refresh[r].cookie \in Tokens /\ issued + 1 \in Tokens /\ issued + 1 \in 0..MaxTokens
    BY <2>1 DEF Tokens
  <2>3. row[refresh[r].cookie] \in Anyone
    BY <2>2 DEF TypeOK
  <2>4. /\ row' = [row EXCEPT ![refresh[r].cookie] = Nobody,
                              ![issued + 1] = row[refresh[r].cookie]]
        /\ refresh' = [refresh EXCEPT ![r].at = "ok", ![r].owner = row[refresh[r].cookie],
                                      ![r].got = issued + 1]
        /\ issued' = issued + 1
    BY <1>7 DEF RefreshServed
  <2>5. row' \in [Tokens -> Anyone]
    BY <1>0, <2>3, <2>4 DEF TypeOK
  <2>6. refresh' \in [Refreshes -> Refresh]
    BY <2>1, <2>2, <2>3, <2>4 DEF TypeOK, Refresh
  <2> QED BY <1>7, <2>2, <2>4, <2>5, <2>6 DEF RefreshServed, TypeOK
<1>8. ASSUME NEW r \in Refreshes, SharedOk(r)
      PROVE  TypeOK'
  <2>1. refresh[r].owner \in Anyone /\ refresh[r].got \in 0..MaxTokens
    BY DEF TypeOK, Refresh
  <2>2. \A q \in Requests :
           [request[q] EXCEPT !.at = "resent", !.tok = refresh[r].owner, !.ref = Nobody] \in Request
    BY <2>1 DEF TypeOK, Request
  <2>3. request' \in [Requests -> Request]
    BY <1>8, <2>2 DEF SharedOk, TypeOK
  <2>4. [auth EXCEPT !.token = refresh[r].owner, !.refresh = Nobody] \in Auth
    BY <1>0, <2>1 DEF Auth
  <2>5. auth' \in Auth /\ page' \in Pages /\ restore' \in Restore
    BY <1>0, <1>8, <2>4, Entered DEF SharedOk
  <2> QED BY <1>8, <2>1, <2>3, <2>5, Records DEF SharedOk, TypeOK, server
<1>9. ASSUME Load, UNCHANGED <<cookie, server, out>>
      PROVE  TypeOK'
  BY <1>0, <1>9, Records DEF Load, TypeOK, server, Pages
<1>10. ASSUME NEW r \in Refreshes, NEW q \in Requests, RestoreToken(r, q)
       PROVE  TypeOK'
  <2>1. refresh[r].owner \in Anyone /\ refresh[r].got \in 0..MaxTokens
    BY DEF TypeOK, Refresh
  <2>2. refresh' \in [Refreshes -> Refresh]
    BY <1>10, Records DEF RestoreToken, TypeOK
  <2>3. CASE restore.call # r
    BY <1>10, <2>1, <2>2, <2>3 DEF RestoreToken, TypeOK, server
  <2>4. CASE restore.call = r
    <3>1. auth' \in Auth
      BY <1>0, <1>10, <2>1, <2>4 DEF RestoreToken, Auth
    <3>2. restore' \in Restore
      BY <1>0, <1>10, <2>1, <2>4 DEF RestoreToken, Restore
    <3>3. [NoRequest EXCEPT !.op = "me", !.at = "sent", !.tok = refresh[r].owner] \in Request
      BY <2>1, Records DEF Request
    <3>4. request' \in [Requests -> Request]
      BY <1>10, <2>4, <3>3 DEF RestoreToken, TypeOK
    <3> QED BY <1>10, <2>1, <2>2, <2>4, <3>1, <3>2, <3>4 DEF RestoreToken, TypeOK, server
  <2> QED BY <2>3, <2>4
<1>11. ASSUME NEW r \in Refreshes, RestoreNoToken(r)
       PROVE  TypeOK'
  BY <1>11, Records DEF RestoreNoToken, TypeOK, server
<1>12. ASSUME NEW r \in Refreshes, RestoreBegin(r)
       PROVE  TypeOK'
  <2>1. [NoRefresh EXCEPT !.at = "sent", !.cookie = cookie] \in Refresh
    BY Records DEF Refresh, TypeOK
  <2>2. refresh' \in [Refreshes -> Refresh]
    BY <1>12, <2>1 DEF RestoreBegin, TypeOK
  <2>3. restore' \in Restore
    BY <1>0, <1>12 DEF RestoreBegin, Restore
  <2> QED BY <1>12, <2>2, <2>3 DEF RestoreBegin, TypeOK, server
<1>13. CASE RestoreTimeout
  <2>1. restore' \in Restore
    BY <1>0, <1>13 DEF RestoreTimeout, Restore
  <2> QED BY <1>13, <2>1 DEF RestoreTimeout, TypeOK, server
<1>14. CASE LoginFails \/ \E u \in Users : Submit(u) \/ Register(u)
  BY <1>0, <1>14 DEF LoginFails, Submit, Register, TypeOK, server
<1>15. ASSUME NEW q \in Requests, LoginOk(q)
       PROVE  TypeOK'
  <2>1. login \in Anyone /\ issued \in Nat /\ MaxTokens \in Nat /\ issued < MaxTokens
    BY <1>15, ClientAssumption DEF LoginOk, TypeOK
  <2>2. issued + 1 \in Tokens /\ issued + 1 \in 0..MaxTokens
    BY <2>1 DEF Tokens
  <2>3. SetAuth(login, login) \in Auth
    BY <1>0, <2>1 DEF SetAuth, Auth
  <2>4. auth' \in Auth /\ page' \in Pages /\ restore' \in Restore
    BY <1>0, <1>15, <2>3, Entered DEF LoginOk
  <2>5. [NoRequest EXCEPT !.op = "list", !.at = "sent", !.tok = login, !.for = login,
                          !.caller = "login"] \in Request
    BY <2>1, Records DEF Request
  <2>6. request' \in [Requests -> Request]
    BY <1>15, <2>5 DEF LoginOk, TypeOK
  <2>7. row' \in [Tokens -> Anyone]
    BY <1>15, <2>1 DEF LoginOk, TypeOK
  <2>8. crossed' \in BOOLEAN
    BY <1>15 DEF LoginOk, TypeOK
  <2> QED BY <1>0, <1>15, <2>2, <2>4, <2>6, <2>7, <2>8 DEF LoginOk, TypeOK
<1>16. ASSUME NEW q \in Requests, NEW served \in BOOLEAN, NEW answered \in BOOLEAN,
              LogoutSettled(q, served, answered)
       PROVE  TypeOK'
  <2>1. auth' \in Auth /\ page' \in Pages /\ restore' \in Restore
    BY <1>0, <1>16, Entered, Records DEF LogoutSettled, ClearAuth, Pages
  <2>2. request' \in [Requests -> Request]
    BY <1>16, Calls DEF LogoutSettled
  <2>3. row' = [row EXCEPT ![request[q].cookie] = Nobody] \/ row' = row
    BY <1>16 DEF LogoutSettled
  <2>4. row' \in [Tokens -> Anyone]
    BY <1>0, <2>3 DEF TypeOK
  <2>5. cookie' \in 0..MaxTokens
    BY <1>16, ClientAssumption DEF LogoutSettled, TypeOK
  <2>6. crossed' \in BOOLEAN /\ out' \in BOOLEAN
    BY <1>16 DEF LogoutSettled, TypeOK
  <2> QED BY <1>16, <2>1, <2>2, <2>4, <2>5, <2>6 DEF LogoutSettled, TypeOK
<1>17. ASSUME NEW q \in Requests, PasswordOk(q)
       PROVE  TypeOK'
  <2>1. auth' \in Auth /\ page' \in Pages /\ restore' \in Restore /\ crossed' \in BOOLEAN
    BY <1>0, <1>17, Entered, Records DEF PasswordOk, ClearAuth, Pages, TypeOK
  <2>2. request' \in [Requests -> Request]
    BY <1>17, Calls DEF PasswordOk
  <2>3. row' \in [Tokens -> Anyone]
    BY <1>0, <1>17 DEF PasswordOk, TypeOK
  <2> QED BY <1>17, <2>1, <2>2, <2>3 DEF PasswordOk, TypeOK
<1>18. ASSUME NEW path \in Pages, Go(path)
       PROVE  TypeOK'
  <2>1. auth' \in Auth /\ page' \in Pages /\ restore' \in Restore
    BY <1>0, <1>18, Entered DEF Go
  <2> QED BY <1>18, <2>1 DEF Go, TypeOK, server
<1>19. CASE UNCHANGED vars
  BY <1>19 DEF vars, server, TypeOK
<1> QED BY <1>1, <1>2, <1>3, <1>4, <1>5, <1>6, <1>7, <1>8, <1>9, <1>10, <1>11, <1>12,
           <1>13, <1>14, <1>15, <1>16, <1>17, <1>18, <1>19
        DEF Next, RefreshAnswer, Answer, User, SharedBad, Reload

-----------------------------------------------------------------------------
(* The other actions                                                       *)

\* None of them touches a refresh or issues a token.  The store keeps its
\* session, loses it, or takes the one the restore has; the restore goes on or
\* ends; the call it awaits is given no other account's token.
Ordinary ==
    /\ refresh' = refresh /\ issued' = issued /\ cookie' \in {cookie, 0}
    /\ \A k \in Tokens : row'[k] \in {row[k], Nobody}
    /\ \/ auth' = auth
       \/ auth' = NoAuth /\ (crossed' \/ InFlight = {})
       \/ /\ restore.call \in Requests /\ auth'.refresh = auth.refresh
          /\ auth'.token = restore.token
          /\ auth'.user \in {restore.user, request[restore.call].tok}
    /\ page' \in Private => auth'.token # Nobody \/ UNCHANGED <<auth, page>>
    /\ \/ restore'.call = Nobody /\ restore'.token = Nobody /\ restore'.user = Nobody
       \/ /\ restore'.call = restore.call /\ restore'.token = restore.token
          /\ \/ restore'.user = restore.user
             \/ restore.call \in Requests /\ restore'.user = request[restore.call].tok
    /\ \A q \in Requests : restore.call = q /\ restore'.call = q =>
          request'[q].tok \in {request[q].tok, auth.token, Nobody}
    /\ crossed => crossed'
    /\ out' => \/ out /\ login' \in {login, Nobody}
               \/ /\ auth' = NoAuth /\ cookie' = 0 /\ login' = Nobody
                  /\ restore'.call = Nobody /\ InFlight = {}

Others == \/ \E q \in Requests :
                \/ Query(q) \/ QuerySettled(q) \/ Logout(q) \/ Password(q) \/ PasswordFails(q)
                \/ CardRefresh(q) \/ ListOk(q) \/ ListFails(q) \/ RestoreNobody(q)
                \/ UrlsSettled(q) \/ RestoreMe(q) \/ PasswordOk(q)
                \/ \E served, answered \in BOOLEAN : LogoutSettled(q, served, answered)
          \/ RestoreTimeout \/ LoginFails
          \/ \E u \in Users : Submit(u) \/ Register(u)
          \/ \E path \in Pages : Go(path)
          \/ UNCHANGED vars

LEMMA OthersAreOrdinary ==
    ASSUME TypeOK, Others
    PROVE  Ordinary
<1>0. /\ auth \in Auth /\ restore \in Restore /\ request \in [Requests -> Request]
      /\ page \in Pages /\ row \in [Tokens -> Anyone]
      /\ Nobody \notin Requests /\ \A u : Home(u) \in Pages
      /\ "/login" \in Pages
  BY ClientAssumption DEF TypeOK, Home, Pages
<1>1. /\ \A op, who, caller : Sent(op, who, caller).tok = auth.token
      /\ [Sent("logout", Nobody, "none") EXCEPT !.cookie = cookie].tok = auth.token
      /\ NoRequest.tok = Nobody
  BY DEF Sent, NoRequest
<1>2. ASSUME NEW q \in Requests,
             \/ Query(q) \/ QuerySettled(q) \/ Logout(q) \/ Password(q) \/ PasswordFails(q)
             \/ CardRefresh(q) \/ ListOk(q)
      PROVE  Ordinary
  <2>1. \A p \in Requests : request'[p].tok \in {request[p].tok, auth.token, Nobody}
    <3>1. CASE Logout(q)
      <4> DEFINE new == [Sent("logout", Nobody, "none") EXCEPT !.cookie = cookie]
      <4>1. request' = [request EXCEPT ![q] = new] /\ new.tok = auth.token
        BY <1>1, <3>1 DEF Logout
      <4> HIDE DEF new
      <4> QED BY <1>0, <4>1
    <3> QED BY <1>0, <1>1, <1>2, <3>1 DEF Query, QuerySettled, Password, PasswordFails,
                                          CardRefresh, ListOk, Send, Settle
  <2> QED BY <1>2, <2>1 DEF Query, QuerySettled, Logout, Password, PasswordFails,
                            CardRefresh, ListOk, Ordinary, server
<1>3. ASSUME NEW q \in Requests, ListFails(q) \/ RestoreNobody(q)
      PROVE  Ordinary
  <2>1. \A p \in Requests : request'[p].tok \in {request[p].tok, auth.token, Nobody}
    BY <1>0, <1>1, <1>3 DEF ListFails, RestoreNobody, Settle
  <2> QED BY <1>3, <2>1, Records DEF ListFails, RestoreNobody, Ordinary, server
<1>4. ASSUME NEW q \in Requests, UrlsSettled(q)
      PROVE  Ordinary
  <2>1. \A p \in Requests : request'[p].tok \in {request[p].tok, auth.token, Nobody}
    BY <1>0, <1>1, <1>4 DEF UrlsSettled, Settle
  <2>2. /\ SetAuth(restore.token, restore.user) \in Auth
        /\ SetAuth(restore.token, restore.user).token = restore.token
        /\ SetAuth(restore.token, restore.user).user = restore.user
        /\ SetAuth(restore.token, restore.user).refresh = auth.refresh
    BY <1>0 DEF SetAuth, Auth, Restore
  <2>3. CASE request[q].caller = "login"
    BY <1>0, <1>4, <2>1, <2>3, Entered, Records DEF UrlsSettled, Continue, Ordinary, server
  <2>4. CASE request[q].caller = "restore" /\ restore.call = q
    <3>1. Enter(Home(restore.user), SetAuth(restore.token, restore.user), Off)
      BY <1>4, <2>4 DEF UrlsSettled, Continue
    <3>2. /\ auth' = SetAuth(restore.token, restore.user)
          /\ restore' \in {Off, Starting}
          /\ page' \in Private => auth'.token # Nobody
      BY <1>0, <2>2, <3>1, Entered, Records
    <3> QED BY <1>0, <1>4, <2>2, <2>4, <3>2, Records DEF UrlsSettled, Ordinary, server
  <2>5. CASE ~(request[q].caller = "login" \/ (request[q].caller = "restore" /\ restore.call = q))
    BY <1>4, <2>1, <2>5 DEF UrlsSettled, Continue, Ordinary, server
  <2> QED BY <2>3, <2>4, <2>5
<1>5. ASSUME NEW q \in Requests, RestoreMe(q)
      PROVE  Ordinary
  <2> DEFINE me == request[q].tok
  <2>1. me \in Anyone
    BY <1>0 DEF Request
  <2>2. \A p \in Requests : request'[p].tok \in {request[p].tok, auth.token, Nobody}
    BY <1>0, <1>1, <1>5 DEF RestoreMe, Send, Settle
  <2>3. CASE restore.call # q
    BY <1>5, <2>2, <2>3 DEF RestoreMe, Ordinary, server
  <2>4. CASE restore.call = q /\ Subscriber(me)
    <3>1. /\ restore' = [restore EXCEPT !.step = "init", !.user = me]
          /\ auth' = auth /\ page' = page
      BY <1>5, <2>4 DEF RestoreMe
    <3>2. /\ restore'.call = restore.call /\ restore'.token = restore.token
          /\ restore'.user = me
      BY <1>0, <3>1 DEF Restore
    <3> QED BY <1>5, <2>2, <2>4, <3>1, <3>2 DEF RestoreMe, Ordinary, server
  <2>5. CASE restore.call = q /\ ~Subscriber(me)
    <3>1. Enter(Home(me), SetAuth(restore.token, me), Off)
      BY <1>5, <2>5 DEF RestoreMe
    <3>2. /\ SetAuth(restore.token, me) \in Auth
          /\ SetAuth(restore.token, me).token = restore.token
          /\ SetAuth(restore.token, me).user = me
          /\ SetAuth(restore.token, me).refresh = auth.refresh
      BY <1>0, <2>1 DEF SetAuth, Auth, Restore
    <3>3. /\ auth' = SetAuth(restore.token, me)
          /\ restore' \in {Off, Starting}
          /\ page' \in Private => auth'.token # Nobody
      BY <1>0, <3>1, <3>2, Entered, Records
    <3> QED BY <1>0, <1>5, <2>5, <3>2, <3>3, Records DEF RestoreMe, Ordinary, server
  <2> QED BY <2>3, <2>4, <2>5
<1>6. ASSUME NEW q \in Requests, PasswordOk(q)
      PROVE  Ordinary
  <2>1. \A p \in Requests : request'[p].tok \in {request[p].tok, auth.token, Nobody}
    BY <1>0, <1>1, <1>6 DEF PasswordOk, Settle
  <2>2. \A k \in Tokens : row'[k] \in {row[k], Nobody}
    BY <1>6 DEF PasswordOk
  <2>3. CASE ClearAuth("/login") /\ crossed' = (crossed \/ InFlight # {})
    <3>1. /\ auth' = NoAuth /\ restore' \in {Off, Starting, restore}
          /\ page' \in Private => auth'.token # Nobody
      BY <1>0, <2>3, Entered, Records DEF ClearAuth
    <3> QED BY <1>6, <2>1, <2>2, <2>3, <3>1, Records DEF PasswordOk, Ordinary
  <2>4. CASE UNCHANGED <<auth, page, restore, crossed>>
    BY <1>6, <2>1, <2>2, <2>4 DEF PasswordOk, Ordinary
  <2> QED BY <1>6, <2>3, <2>4 DEF PasswordOk
<1>7. ASSUME NEW q \in Requests, NEW served \in BOOLEAN, NEW answered \in BOOLEAN,
             LogoutSettled(q, served, answered)
      PROVE  Ordinary
  <2>1. \A p \in Requests : request'[p].tok \in {request[p].tok, auth.token, Nobody}
    BY <1>0, <1>1, <1>7 DEF LogoutSettled, Settle
  <2>2. \A k \in Tokens : row'[k] \in {row[k], Nobody}
    BY <1>0, <1>7 DEF LogoutSettled
  <2>3. /\ auth' = NoAuth /\ restore' \in {Off, Starting, restore}
        /\ page' \in Private => auth'.token # Nobody
    BY <1>0, <1>7, Entered, Records DEF LogoutSettled, ClearAuth
  <2>4. /\ refresh' = refresh /\ issued' = issued /\ login' = login
        /\ cookie' = IF answered THEN 0 ELSE cookie
        /\ crossed' = (crossed \/ InFlight # {})
        /\ out' = (answered /\ InFlight = {} /\ login = Nobody /\ restore'.call = Nobody)
    BY <1>7 DEF LogoutSettled
  <2> QED BY <2>1, <2>2, <2>3, <2>4, Records DEF Ordinary
<1>8. CASE RestoreTimeout
  <2>1. /\ restore'.call = restore.call /\ restore'.token = restore.token
        /\ restore'.user = restore.user
    BY <1>0, <1>8 DEF RestoreTimeout, Restore
  <2> QED BY <1>8, <2>1 DEF RestoreTimeout, Ordinary, server
<1>9. CASE LoginFails \/ (\E u \in Users : Submit(u) \/ Register(u)) \/ UNCHANGED vars
  BY <1>9 DEF LoginFails, Submit, Register, Ordinary, vars, server
<1>10. ASSUME NEW path \in Pages, Go(path)
       PROVE  Ordinary
  <2>1. /\ auth' = auth /\ restore' \in {Off, Starting, restore}
        /\ page' \in Private => auth'.token # Nobody
    BY <1>0, <1>10, Entered DEF Go
  <2> QED BY <1>10, <2>1, Records DEF Go, Ordinary, server
<1> QED BY <1>2, <1>3, <1>4, <1>5, <1>6, <1>7, <1>8, <1>9, <1>10 DEF Others

\* A login issues a token and takes the restore away.
LEMMA LoggingIn ==
    ASSUME TypeOK, NEW q \in Requests, LoginOk(q)
    PROVE  /\ login # Nobody /\ issued \in Nat /\ issued + 1 \in Tokens
           /\ issued' = issued + 1 /\ cookie' = issued + 1
           /\ row'[issued + 1] = login
           /\ \A k \in Tokens : k # issued + 1 => row'[k] = row[k]
           /\ auth'.token = login /\ auth'.user = login /\ auth'.refresh = auth.refresh
           /\ restore' = Off /\ refresh' = refresh /\ out' = out /\ login' = Nobody
           /\ crossed' = (crossed \/ InFlight # {})
<1>0. /\ auth \in Auth /\ restore \in Restore /\ page \in Pages /\ row \in [Tokens -> Anyone]
      /\ login \in Anyone /\ login # Nobody /\ \A u : Home(u) \in Pages
  BY DEF TypeOK, LoginOk, Home, Pages
<1>1. /\ issued \in Nat /\ MaxTokens \in Nat /\ issued < MaxTokens
  BY ClientAssumption DEF LoginOk, TypeOK
<1>2. issued + 1 \in Tokens
  BY <1>1 DEF Tokens
<1>3. /\ SetAuth(login, login) \in Auth
      /\ SetAuth(login, login).token = login /\ SetAuth(login, login).user = login
      /\ SetAuth(login, login).refresh = auth.refresh
  BY <1>0 DEF SetAuth, Auth
<1>4. auth' = SetAuth(login, login) /\ restore' = Off
  BY <1>0, <1>3, Entered DEF LoginOk, LoggedIn
<1>5. /\ row'[issued + 1] = login
      /\ \A k \in Tokens : k # issued + 1 => row'[k] = row[k]
  BY <1>0, <1>2 DEF LoginOk
<1> QED BY <1>0, <1>1, <1>2, <1>3, <1>4, <1>5 DEF LoginOk

LEMMA NextCases ==
    ASSUME [Next]_vars
    PROVE  \/ \E q \in Requests : Unauthorized(q) \/ LoginOk(q)
           \/ \E r \in Refreshes : \/ RefreshServed(r) \/ SharedOk(r) \/ RestoreNoToken(r)
                                   \/ RestoreBegin(r) \/ \E q \in Requests : RestoreToken(r, q)
           \/ Load /\ UNCHANGED <<cookie, server, out>>
           \/ Others
BY DEF Next, RefreshAnswer, Answer, User, SharedBad, Reload, Others

-----------------------------------------------------------------------------
(* Each part of the invariant is kept                                      *)

\* A load leaves nothing under way.
LEMMA Loaded ==
    ASSUME Load
    PROVE  /\ auth' = NoAuth /\ auth'.token = Nobody /\ auth'.user = Nobody /\ auth'.refresh = Nobody
           /\ page' = "/login" /\ login' = Nobody /\ ~crossed'
           /\ restore'.call = Nobody /\ restore'.token = Nobody /\ restore'.user = Nobody
           /\ \A r \in Refreshes : refresh'[r] = NoRefresh
           /\ InFlight' = {}
BY Records DEF Load, InFlight, NoAuth, NoRefresh

\* A 401 joins the refresh under way or starts one.
LEMMA Refreshing ==
    ASSUME TypeOK, NEW q \in Requests, Unauthorized(q)
    PROVE  /\ auth'.token = auth.token /\ auth'.user = auth.user
           /\ \A p \in Requests : request'[p].tok \in {request[p].tok, Nobody}
           /\ \/ refresh' = refresh /\ auth' = auth
              \/ /\ auth.refresh = Nobody
                 /\ \E r \in Refreshes \ InFlight :
                       /\ auth'.refresh = r
                       /\ refresh'[r].at = "sent" /\ refresh'[r].shared
                       /\ refresh'[r].cookie = cookie
                       /\ refresh'[r].owner = Nobody /\ refresh'[r].got = 0
                       /\ \A p \in Refreshes : p # r => refresh'[p] = refresh[p]
<1>0. /\ auth \in Auth /\ refresh \in [Refreshes -> Refresh] /\ request \in [Requests -> Request]
  BY DEF TypeOK
<1>1. \A r : Waiting(q, r).tok = Nobody
  BY <1>0 DEF Waiting, Request
<1>2. CASE auth.refresh # Nobody
  BY <1>0, <1>1, <1>2 DEF Unauthorized
<1>3. CASE auth.refresh = Nobody
  <2>1. PICK r \in Refreshes \ InFlight :
            /\ refresh' = [refresh EXCEPT ![r] = [NoRefresh EXCEPT !.at = "sent",
                                                     !.shared = TRUE, !.cookie = cookie]]
            /\ auth' = [auth EXCEPT !.refresh = r]
            /\ request' = [request EXCEPT ![q] = Waiting(q, r)]
    BY <1>3 DEF Unauthorized
  <2>2. /\ auth'.token = auth.token /\ auth'.user = auth.user /\ auth'.refresh = r
    BY <1>0, <2>1 DEF Auth
  <2>3. \A p \in Requests : request'[p].tok \in {request[p].tok, Nobody}
    BY <1>0, <1>1, <2>1
  <2>4. refresh'[r] = [NoRefresh EXCEPT !.at = "sent", !.shared = TRUE, !.cookie = cookie]
    BY <1>0, <2>1
  <2>5. /\ refresh'[r].at = "sent" /\ refresh'[r].shared /\ refresh'[r].cookie = cookie
        /\ refresh'[r].owner = Nobody /\ refresh'[r].got = 0
    BY <2>4 DEF NoRefresh
  <2> QED BY <1>0, <1>3, <2>1, <2>2, <2>3, <2>5
<1> QED BY <1>2, <1>3

\* The shared refresh's answer: the token is the owner's, the promise is gone.
LEMMA Shared ==
    ASSUME TypeOK, NEW r \in Refreshes, SharedOk(r)
    PROVE  /\ refresh[r].at = "ok"
           /\ auth'.token = refresh[r].owner /\ auth'.user = auth.user /\ auth'.refresh = Nobody
           /\ cookie' = refresh[r].got
           /\ refresh'[r] = NoRefresh
           /\ \A p \in Refreshes : p # r => refresh'[p] = refresh[p]
           /\ \A q \in Requests : request'[q].tok \in {request[q].tok, refresh[r].owner}
           /\ restore' \in {Off, Starting, restore}
           /\ page' \in Private => auth'.token # Nobody
<1>0. /\ auth \in Auth /\ refresh \in [Refreshes -> Refresh] /\ request \in [Requests -> Request]
      /\ page \in Pages /\ restore \in Restore
  BY DEF TypeOK
<1>1. [auth EXCEPT !.token = refresh[r].owner, !.refresh = Nobody] \in Auth
  BY <1>0 DEF Auth, Refresh
<1>2. /\ auth' = [auth EXCEPT !.token = refresh[r].owner, !.refresh = Nobody]
      /\ restore' \in {Off, Starting, restore}
      /\ page' \in Private => [auth EXCEPT !.token = refresh[r].owner, !.refresh = Nobody].token # Nobody
  BY <1>0, <1>1, Entered DEF SharedOk
<1>3. auth'.token = refresh[r].owner /\ auth'.user = auth.user /\ auth'.refresh = Nobody
  BY <1>0, <1>2 DEF Auth
<1>4. \A q \in Requests : request'[q].tok \in {request[q].tok, refresh[r].owner}
  <2> SUFFICES ASSUME NEW q \in Requests
               PROVE  request'[q].tok \in {request[q].tok, refresh[r].owner}
    OBVIOUS
  <2>1. \/ request'[q] = request[q]
        \/ request'[q] = [request[q] EXCEPT !.at = "resent", !.tok = refresh[r].owner,
                                            !.ref = Nobody]
    BY DEF SharedOk
  <2>2. request[q] \in Request
    BY <1>0
  <2> QED BY <2>1, <2>2 DEF Request
<1>5. /\ refresh[r].at = "ok" /\ cookie' = refresh[r].got /\ refresh'[r] = NoRefresh
      /\ \A p \in Refreshes : p # r => refresh'[p] = refresh[p]
  BY <1>0 DEF SharedOk
<1>6. page' \in Private => auth'.token # Nobody
  BY <1>2
<1> QED BY <1>2, <1>3, <1>4, <1>5, <1>6

\* What the restore's own refresh brings: a cookie, and to a restore that still
\* goes on the token.
LEMMA Restoring ==
    ASSUME TypeOK, NEW r \in Refreshes, NEW q \in Requests, RestoreToken(r, q)
    PROVE  /\ refresh[r].at = "ok" /\ cookie' = refresh[r].got /\ refresh'[r] = NoRefresh
           /\ \A p \in Refreshes : p # r => refresh'[p] = refresh[p]
           /\ ~refresh[r].shared
           /\ auth'.user = auth.user /\ auth'.refresh = auth.refresh
           /\ \/ /\ auth'.token = auth.token /\ restore' = restore /\ request' = request
              \/ /\ auth'.token = refresh[r].owner
                 /\ restore'.call = q /\ restore'.token = refresh[r].owner
                 /\ restore'.user = restore.user /\ request'[q].tok = refresh[r].owner
<1>0. /\ auth \in Auth /\ refresh \in [Refreshes -> Refresh] /\ request \in [Requests -> Request]
      /\ restore \in Restore
  BY DEF TypeOK
<1>1. /\ refresh[r].at = "ok" /\ cookie' = refresh[r].got /\ refresh'[r] = NoRefresh
      /\ \A p \in Refreshes : p # r => refresh'[p] = refresh[p]
      /\ ~refresh[r].shared
  BY <1>0 DEF RestoreToken
<1>2. CASE restore.call # r
  BY <1>1, <1>2 DEF RestoreToken
<1>3. CASE restore.call = r
  <2>1. /\ auth' = [auth EXCEPT !.token = refresh[r].owner]
        /\ request' = [request EXCEPT ![q] = [NoRequest EXCEPT !.op = "me", !.at = "sent",
                                                 !.tok = refresh[r].owner]]
        /\ restore' = [restore EXCEPT !.step = "me", !.call = q, !.token = refresh[r].owner]
    BY <1>3 DEF RestoreToken
  <2>2. /\ auth'.user = auth.user /\ auth'.refresh = auth.refresh
        /\ auth'.token = refresh[r].owner
    BY <1>0, <2>1 DEF Auth
  <2>3. /\ restore'.call = q /\ restore'.token = refresh[r].owner
        /\ restore'.user = restore.user
    BY <1>0, <2>1 DEF Restore
  <2>4. request'[q].tok = refresh[r].owner
    BY <1>0, <2>1 DEF NoRequest
  <2> QED BY <1>1, <2>2, <2>3, <2>4
<1> QED BY <1>2, <1>3

\* A restore starts its refresh, with the cookie of the moment.
LEMMA Beginning ==
    ASSUME TypeOK, NEW r \in Refreshes, RestoreBegin(r)
    PROVE  /\ r \notin InFlight
           /\ refresh'[r].at = "sent" /\ ~refresh'[r].shared /\ refresh'[r].cookie = cookie
           /\ refresh'[r].owner = Nobody /\ refresh'[r].got = 0
           /\ \A p \in Refreshes : p # r => refresh'[p] = refresh[p]
           /\ restore'.call = r /\ restore'.token = restore.token /\ restore'.user = restore.user
<1>0. refresh \in [Refreshes -> Refresh] /\ restore \in Restore
  BY DEF TypeOK
<1>1. refresh'[r] = [NoRefresh EXCEPT !.at = "sent", !.cookie = cookie]
  BY <1>0 DEF RestoreBegin
<1>2. /\ refresh'[r].at = "sent" /\ ~refresh'[r].shared /\ refresh'[r].cookie = cookie
      /\ refresh'[r].owner = Nobody /\ refresh'[r].got = 0
  BY <1>1 DEF NoRefresh
<1> QED BY <1>0, <1>2 DEF RestoreBegin, Restore

\* The server exchanges the token of a refresh.
LEMMA Exchanged ==
    ASSUME TypeOK, NEW r \in Refreshes, RefreshServed(r)
    PROVE  LET k == refresh[r].cookie IN
           /\ refresh[r].at = "sent" /\ k \in Tokens /\ row[k] # Nobody
           /\ issued \in Nat /\ issued + 1 \in Tokens /\ issued' = issued + 1
           /\ row'[k] \in {Nobody, row[k]} /\ row'[issued + 1] = row[k]
           /\ \A j \in Tokens \ {k, issued + 1} : row'[j] = row[j]
           /\ refresh'[r].at = "ok" /\ refresh'[r].owner = row[k] /\ refresh'[r].got = issued + 1
           /\ refresh'[r].cookie = k /\ refresh'[r].shared = refresh[r].shared
           /\ \A p \in Refreshes : p # r => refresh'[p] = refresh[p]
<1> DEFINE k == refresh[r].cookie
<1>0. refresh \in [Refreshes -> Refresh] /\ row \in [Tokens -> Anyone]
  BY DEF TypeOK
<1>1. /\ k \in 0..MaxTokens /\ k # 0 /\ row[k] # Nobody
      /\ issued \in Nat /\ MaxTokens \in Nat /\ issued < MaxTokens /\ issued' = issued + 1
  BY <1>0, ClientAssumption DEF RefreshServed, TypeOK, Refresh
<1>2. k \in Tokens /\ issued + 1 \in Tokens
  BY <1>1 DEF Tokens
<1>3. /\ row' = [row EXCEPT ![k] = Nobody, ![issued + 1] = row[k]]
      /\ refresh' = [refresh EXCEPT ![r].at = "ok", ![r].owner = row[k], ![r].got = issued + 1]
      /\ refresh[r].at = "sent"
  BY DEF RefreshServed
<1>4. /\ row'[k] \in {Nobody, row[k]} /\ row'[issued + 1] = row[k]
      /\ \A j \in Tokens \ {k, issued + 1} : row'[j] = row[j]
  BY <1>0, <1>2, <1>3
<1>5. /\ refresh'[r].at = "ok" /\ refresh'[r].owner = row[k] /\ refresh'[r].got = issued + 1
      /\ refresh'[r].cookie = k /\ refresh'[r].shared = refresh[r].shared
      /\ \A p \in Refreshes : p # r => refresh'[p] = refresh[p]
  BY <1>0, <1>3 DEF Refresh
<1> QED BY <1>1, <1>2, <1>3, <1>4, <1>5

-----------------------------------------------------------------------------
(* Each part of the invariant is kept                                      *)

LEMMA SoundStep ==
    ASSUME TypeOK, Sound, [Next]_vars
    PROVE  Sound'
<1>0. /\ auth \in Auth /\ restore \in Restore /\ refresh \in [Refreshes -> Refresh]
      /\ Nobody \notin Requests /\ Nobody \notin Refreshes /\ Refreshes \cap Requests = {}
  BY ClientAssumption DEF TypeOK
<1>1. ASSUME NEW q \in Requests, Unauthorized(q) PROVE Sound'
  BY <1>0, <1>1, Refreshing DEF Unauthorized, Sound, InFlight
<1>2. ASSUME NEW r \in Refreshes, RefreshServed(r) PROVE Sound'
  BY <1>0, <1>2 DEF RefreshServed, Sound, InFlight, Refresh
<1>3. ASSUME NEW r \in Refreshes, SharedOk(r) PROVE Sound'
  BY <1>0, <1>3, Shared, Records DEF Sound, NoRefresh
<1>4. CASE Load
  BY <1>0, <1>4, Loaded DEF Sound, NoRefresh
<1>5. ASSUME NEW r \in Refreshes, NEW q \in Requests, RestoreToken(r, q) PROVE Sound'
  BY <1>0, <1>5, Restoring DEF Sound, InFlight, NoRefresh
<1>6. ASSUME NEW r \in Refreshes, RestoreNoToken(r) PROVE Sound'
  BY <1>0, <1>6, Records DEF RestoreNoToken, Sound, InFlight, NoRefresh
<1>7. ASSUME NEW r \in Refreshes, RestoreBegin(r) PROVE Sound'
  <2>1. auth' = auth
    BY <1>7 DEF RestoreBegin
  <2> QED BY <1>0, <1>7, <2>1, Beginning DEF Sound, InFlight
<1>8. ASSUME NEW q \in Requests, LoginOk(q) PROVE Sound'
  BY <1>0, <1>8, LoggingIn, Records DEF Sound, InFlight
<1>9. CASE Others
  BY <1>0, <1>9, OthersAreOrdinary DEF Ordinary, Sound, InFlight, NoAuth
<1> QED BY <1>1, <1>2, <1>3, <1>4, <1>5, <1>6, <1>7, <1>8, <1>9, NextCases

\* The store never has a user without a token.
LEMMA TokenStep ==
    ASSUME TypeOK, Sound, NoUserWithoutToken, [Next]_vars
    PROVE  NoUserWithoutToken'
<1>1. ASSUME NEW q \in Requests, Unauthorized(q) PROVE NoUserWithoutToken'
  BY <1>1, Refreshing DEF Unauthorized, NoUserWithoutToken
<1>2. ASSUME NEW r \in Refreshes, RefreshServed(r) \/ RestoreNoToken(r) \/ RestoreBegin(r)
      PROVE  NoUserWithoutToken'
  BY <1>2 DEF RefreshServed, RestoreNoToken, RestoreBegin, NoUserWithoutToken
<1>3. ASSUME NEW r \in Refreshes, SharedOk(r) PROVE NoUserWithoutToken'
  BY <1>3, Shared DEF Sound, NoUserWithoutToken
<1>4. CASE Load
  BY <1>4, Loaded DEF NoUserWithoutToken, Private
<1>5. ASSUME NEW r \in Refreshes, NEW q \in Requests, RestoreToken(r, q)
      PROVE  NoUserWithoutToken'
  <2>1. page' = page
    BY <1>5 DEF RestoreToken
  <2>2. auth'.user = auth.user /\ auth'.token \in {auth.token, refresh[r].owner}
    BY <1>5, Restoring
  <2>3. refresh[r].owner # Nobody
    BY <1>5 DEF RestoreToken, Sound
  <2> QED BY <2>1, <2>2, <2>3 DEF NoUserWithoutToken
<1>6. ASSUME NEW q \in Requests, LoginOk(q) PROVE NoUserWithoutToken'
  BY <1>6, LoggingIn DEF NoUserWithoutToken
<1>7. CASE Others
  BY <1>7, OthersAreOrdinary DEF Ordinary, Sound, NoUserWithoutToken, NoAuth
<1> QED BY <1>1, <1>2, <1>3, <1>4, <1>5, <1>6, <1>7, NextCases

\* Of the shared refreshes only the remembered one is in flight.
LEMMA SharedStep ==
    ASSUME TypeOK, Sound, OneSharedRefresh, [Next]_vars
    PROVE  OneSharedRefresh'
<1>0. Nobody \notin Refreshes
  BY ClientAssumption
<1>1. ASSUME NEW q \in Requests, Unauthorized(q) PROVE OneSharedRefresh'
  BY <1>0, <1>1, Refreshing DEF Unauthorized, OneSharedRefresh, InFlight
<1>2. ASSUME NEW r \in Refreshes, RefreshServed(r) PROVE OneSharedRefresh'
  <2>1. auth' = auth /\ crossed' = crossed
    BY <1>2 DEF RefreshServed
  <2> QED BY <1>2, <2>1, Exchanged DEF OneSharedRefresh, InFlight
<1>3. ASSUME NEW r \in Refreshes, SharedOk(r) PROVE OneSharedRefresh'
  <2>1. refresh[r].shared /\ crossed' = crossed
    BY <1>3 DEF SharedOk
  <2> QED BY <1>0, <1>3, <2>1, Shared DEF OneSharedRefresh, InFlight, NoRefresh
<1>4. CASE Load
  BY <1>4, Loaded DEF OneSharedRefresh
<1>5. ASSUME NEW r \in Refreshes, NEW q \in Requests, RestoreToken(r, q)
      PROVE  OneSharedRefresh'
  <2>1. crossed' = crossed
    BY <1>5 DEF RestoreToken
  <2> QED BY <1>5, <2>1, Restoring DEF OneSharedRefresh, InFlight, NoRefresh
<1>6. ASSUME NEW r \in Refreshes, RestoreNoToken(r) PROVE OneSharedRefresh'
  BY <1>6 DEF RestoreNoToken, OneSharedRefresh, InFlight, NoRefresh, TypeOK
<1>7. ASSUME NEW r \in Refreshes, RestoreBegin(r) PROVE OneSharedRefresh'
  <2>1. auth' = auth /\ crossed' = crossed
    BY <1>7 DEF RestoreBegin
  <2> QED BY <1>0, <1>7, <2>1, Beginning DEF Sound, OneSharedRefresh, InFlight
<1>8. ASSUME NEW q \in Requests, LoginOk(q) PROVE OneSharedRefresh'
  BY <1>8, LoggingIn DEF OneSharedRefresh, InFlight
<1>9. CASE Others
  BY <1>9, OthersAreOrdinary DEF Ordinary, OneSharedRefresh, InFlight
<1> QED BY <1>1, <1>2, <1>3, <1>4, <1>5, <1>6, <1>7, <1>8, <1>9, NextCases

\* Everything stays one account's; a login and a load choose it anew.
LEMMA OwnerStep ==
    ASSUME TypeOK, Sound, SingleOwner, [Next]_vars
    PROVE  SingleOwner'
<1>0. /\ row \in [Tokens -> Anyone] /\ cookie \in 0..MaxTokens /\ login \in Anyone
      /\ \A r \in Refreshes : refresh[r].cookie \in 0..MaxTokens /\ refresh[r].got \in 0..MaxTokens
      /\ \A k \in 0..MaxTokens : k # 0 => k \in Tokens
      /\ Nobody \in Anyone /\ Nobody \notin Requests /\ Refreshes \cap Requests = {}
      /\ NoAuth.token = Nobody /\ NoAuth.user = Nobody
  BY ClientAssumption DEF TypeOK, Refresh, Anyone, Tokens, NoAuth
<1>1. ASSUME NEW q \in Requests, LoginOk(q), ~crossed', NEW u \in Anyone, u = login
      PROVE  Owned(u)'
  <2>1. InFlight = {} /\ InFlight' = {}
    BY <1>1, LoggingIn DEF InFlight
  <2> QED BY <1>0, <1>1, <2>1, LoggingIn, Records DEF Owned, Of
<1>2. ASSUME Load, UNCHANGED <<cookie, server, out>> PROVE \E u \in Anyone : Owned(u)'
  <2>1. PICK u \in Anyone : Of(cookie, u)
    BY <1>0 DEF Of
  <2>2. row' = row /\ cookie' = cookie
    BY <1>2 DEF server
  <2>3. Owned(u)'
    BY <1>0, <1>2, <2>1, <2>2, Loaded DEF Owned, Of
  <2> QED BY <2>3
<1>3. ASSUME NEW u \in Anyone, Owned(u), ~crossed,
             \/ \E q \in Requests : Unauthorized(q)
             \/ \E r \in Refreshes : \/ RefreshServed(r) \/ SharedOk(r) \/ RestoreNoToken(r)
                                     \/ RestoreBegin(r) \/ \E q \in Requests : RestoreToken(r, q)
             \/ Others
      PROVE  Owned(u)'
  <2>1. ASSUME NEW q \in Requests, Unauthorized(q) PROVE Owned(u)'
    <3>1. row' = row /\ cookie' = cookie /\ restore' = restore
      BY <2>1 DEF Unauthorized, server
    <3> QED BY <1>0, <1>3, <2>1, <3>1, Refreshing DEF Owned, Of, InFlight
  <2>2. ASSUME NEW r \in Refreshes, RefreshServed(r) PROVE Owned(u)'
    <3>1. /\ cookie' = cookie /\ restore' = restore /\ auth' = auth /\ request' = request
      BY <2>2 DEF RefreshServed
    <3>2. row[refresh[r].cookie] = u /\ r \in InFlight
      BY <1>3, <2>2, Exchanged DEF Owned, Of, InFlight, Tokens
    <3>3. \A k \in 0..MaxTokens : Of(k, u) => Of(k, u)'
      BY <1>0, <2>2, <3>2, Exchanged DEF Of
    <3> QED BY <1>0, <1>3, <2>2, <3>1, <3>2, <3>3, Exchanged DEF Owned, Of, InFlight
  <2>3. ASSUME NEW r \in Refreshes, SharedOk(r) PROVE Owned(u)'
    <3>1. row' = row /\ r \in InFlight
      BY <2>3, Shared DEF SharedOk, server, InFlight
    <3> QED BY <1>0, <1>3, <2>3, <3>1, Shared, Records DEF Owned, Of, InFlight, NoRefresh
  <2>4. ASSUME NEW r \in Refreshes, RestoreNoToken(r) PROVE Owned(u)'
    <3>1. /\ auth' = auth /\ row' = row /\ cookie' = cookie /\ request' = request
          /\ restore' \in {Off, restore}
          /\ InFlight' \subseteq InFlight
          /\ \A p \in InFlight' : refresh'[p] = refresh[p]
      BY <2>4 DEF RestoreNoToken, server, InFlight, NoRefresh, TypeOK
    <3> QED BY <1>0, <1>3, <3>1, Records DEF Owned, Of
  <2>5. ASSUME NEW r \in Refreshes, RestoreBegin(r) PROVE Owned(u)'
    <3>1. auth' = auth /\ row' = row /\ cookie' = cookie /\ request' = request
      BY <2>5 DEF RestoreBegin, server
    <3> QED BY <1>0, <1>3, <2>5, <3>1, Beginning DEF Owned, Of, InFlight
  <2>6. ASSUME NEW r \in Refreshes, NEW q \in Requests, RestoreToken(r, q) PROVE Owned(u)'
    <3>1. row' = row /\ r \in InFlight
      BY <2>6, Restoring DEF RestoreToken, server, InFlight
    <3> QED BY <1>0, <1>3, <2>6, <3>1, Restoring DEF Owned, Of, InFlight, NoRefresh
  <2>7. CASE Others
    BY <1>0, <1>3, <2>7, OthersAreOrdinary DEF Ordinary, Owned, Of, InFlight
  <2> QED BY <1>3, <2>1, <2>2, <2>3, <2>4, <2>5, <2>6, <2>7
<1>4. CASE Load /\ UNCHANGED <<cookie, server, out>>
  BY <1>2, <1>4 DEF SingleOwner
<1>5. ASSUME NEW q \in Requests, LoginOk(q) PROVE SingleOwner'
  BY <1>0, <1>1, <1>5 DEF SingleOwner
<1>6. ASSUME \/ \E q \in Requests : Unauthorized(q)
             \/ \E r \in Refreshes : \/ RefreshServed(r) \/ SharedOk(r) \/ RestoreNoToken(r)
                                     \/ RestoreBegin(r) \/ \E q \in Requests : RestoreToken(r, q)
             \/ Others
      PROVE  SingleOwner'
  <2>1. crossed => crossed'
    BY <1>6, OthersAreOrdinary DEF Unauthorized, RefreshServed, SharedOk, RestoreNoToken,
                                   RestoreBegin, RestoreToken, Ordinary
  <2> QED BY <1>3, <1>6, <2>1 DEF SingleOwner
<1> QED BY <1>4, <1>5, <1>6, NextCases

\* After a logout nothing brings a session back.
LEMMA EndedStep ==
    ASSUME TypeOK, Sound, Ended, [Next]_vars
    PROVE  Ended'
<1>0. /\ Nobody \notin Requests /\ Refreshes \cap Requests = {}
      /\ NoAuth.user = Nobody /\ out \in BOOLEAN
  BY ClientAssumption DEF NoAuth, TypeOK
<1>1. ASSUME NEW q \in Requests, Unauthorized(q) PROVE Ended'
  <2>1. cookie' = cookie /\ restore' = restore /\ login' = login /\ out' = out
    BY <1>1 DEF Unauthorized
  <2> QED BY <1>0, <1>1, <2>1, Refreshing DEF Ended, InFlight
<1>2. ASSUME NEW r \in Refreshes, RefreshServed(r) PROVE Ended'
  <2>1. out' = out /\ refresh[r].at = "sent" /\ refresh[r].cookie # 0
    BY <1>2 DEF RefreshServed
  <2> QED BY <1>2, <2>1 DEF Ended, InFlight
<1>3. ASSUME NEW r \in Refreshes, SharedOk(r) PROVE Ended'
  <2>1. out' = out /\ refresh[r].at = "ok"
    BY <1>3 DEF SharedOk
  <2> QED BY <2>1 DEF Ended, InFlight
<1>4. CASE Load /\ UNCHANGED <<cookie, server, out>>
  BY <1>0, <1>4, Loaded DEF Ended
<1>5. ASSUME NEW r \in Refreshes, NEW q \in Requests, RestoreToken(r, q) PROVE Ended'
  <2>1. out' = out /\ refresh[r].at = "ok"
    BY <1>5 DEF RestoreToken
  <2> QED BY <2>1 DEF Ended, InFlight
<1>6. ASSUME NEW r \in Refreshes, RestoreNoToken(r) PROVE Ended'
  <2>1. /\ auth' = auth /\ cookie' = cookie /\ login' = login /\ out' = out
        /\ restore' \in {Off, restore}
        /\ InFlight' \subseteq InFlight
        /\ \A p \in InFlight' : refresh'[p] = refresh[p]
    BY <1>6 DEF RestoreNoToken, InFlight, NoRefresh, TypeOK
  <2> QED BY <1>0, <2>1, Records DEF Ended
<1>7. ASSUME NEW r \in Refreshes, RestoreBegin(r) PROVE Ended'
  <2>1. auth' = auth /\ cookie' = cookie /\ login' = login /\ out' = out
    BY <1>7 DEF RestoreBegin
  <2> QED BY <1>0, <1>7, <2>1, Beginning DEF Ended, InFlight
<1>8. ASSUME NEW q \in Requests, LoginOk(q) PROVE Ended'
  BY <1>8, LoggingIn DEF Ended
<1>9. CASE Others
  BY <1>0, <1>9, OthersAreOrdinary DEF Ordinary, Ended, InFlight
<1> QED BY <1>1, <1>2, <1>3, <1>4, <1>5, <1>6, <1>7, <1>8, <1>9, NextCases

-----------------------------------------------------------------------------
(* Results                                                                 *)

\* SessionInv: the invariant behind the results is inductive.
THEOREM Invariance == Spec => []SessionInv
<1>1. Init => SessionInv
  <2> SUFFICES ASSUME Init PROVE SessionInv
    OBVIOUS
  <2>1. TypeOK
    <3>1. 0 \in 0..MaxTokens /\ Nobody \in Anyone /\ "/login" \in Pages
      BY ClientAssumption DEF Anyone, Pages
    <3> QED BY <3>1, Records DEF Init, TypeOK
  <2>2. /\ InFlight = {} /\ ~out
        /\ auth.token = Nobody /\ auth.user = Nobody /\ auth.refresh = Nobody
        /\ restore.call = Nobody /\ restore.token = Nobody /\ restore.user = Nobody
        /\ \A r \in Refreshes : refresh[r].at = "idle"
        /\ cookie = 0 /\ page \notin Private
    BY Records DEF Init, InFlight, NoAuth, NoRefresh, Private
  <2>3. Owned(Nobody) /\ Nobody \in Anyone /\ Nobody \notin Requests
    BY <2>2, ClientAssumption DEF Owned, Of, Anyone
  <2> QED BY <2>1, <2>2, <2>3
          DEF SessionInv, Sound, NoUserWithoutToken, OneSharedRefresh, SingleOwner, Ended
<1>2. SessionInv /\ [Next]_vars => SessionInv'
  BY TypesStep, SoundStep, TokenStep, SharedStep, OwnerStep, EndedStep DEF SessionInv
<1> QED BY <1>1, <1>2, PTL DEF Spec

\* TypeOK: every variable of ClientSession keeps its type.
THEOREM TypeCorrect == Spec => []TypeOK
<1>1. SessionInv => TypeOK
  BY DEF SessionInv
<1> QED BY <1>1, Invariance, PTL

\* OneSharedRefresh: parallel 401s wait for one refresh, of any number of calls.
THEOREM RefreshIsShared == Spec => []OneSharedRefresh
<1>1. SessionInv => OneSharedRefresh
  BY DEF SessionInv
<1> QED BY <1>1, Invariance, PTL

\* OneOwner: the name on the screen, the access token and the refresh cookie are
\* one account's, and a logout ends its session.
THEOREM AccountsDoNotMix == Spec => []OneOwner
<1>1. SessionInv => OneOwner
  <2> SUFFICES ASSUME SessionInv PROVE OneOwner
    OBVIOUS
  <2>1. SameAccount
    <3> SUFFICES ASSUME ~crossed, auth.user # Nobody
                 PROVE  auth.token = auth.user /\ (cookie # 0 => row[cookie] \in {auth.user, Nobody})
      BY DEF SameAccount
    <3>1. PICK u \in Anyone : Owned(u)
      BY DEF SessionInv, SingleOwner
    <3> QED BY <3>1 DEF Owned, Of, SessionInv, NoUserWithoutToken
  <2>2. LogoutEnds
    BY DEF SessionInv, Ended, LogoutEnds
  <2> QED BY <2>1, <2>2 DEF OneOwner, SessionInv
<1> QED BY <1>1, Invariance, PTL
=============================================================================
