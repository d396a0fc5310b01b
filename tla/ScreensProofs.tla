--------------------------- MODULE ScreensProofs ----------------------------
(***************************************************************************)
(* Theorems about the screens, each for any number of what it is about:    *)
(* orders, sockets, servers, calls, messages, and for a day of any length. *)
(* A step of Screens is a step of one screen and leaves the others alone;  *)
(* so every screen has an invariant of its own, and a theorem that follows *)
(* from it.  The profile page and the user's form share the account.       *)
(***************************************************************************)
EXTENDS Screens, TrafficChartProofs

-----------------------------------------------------------------------------
(* One screen at a time                                                    *)

\* A step of the whole is a step of a screen, or leaves what it has alone.
LEMMA Projection ==
    ASSUME [Next]_vars
    PROVE  /\ [ServerFormNext]_serverVars
           /\ [KeysNext]_keyVars
           /\ [ChartNext]_chartVars
           /\ [CardNext]_cardVars
           /\ [LiveNext]_liveVars
           /\ [NoticesNext]_noticeVars
           /\ (screen = "profile" /\ ProfileNext /\ UNCHANGED formVars)
              \/ (screen = "user_form" /\ FormNext /\ UNCHANGED profileVars)
              \/ UNCHANGED <<now, account, formVars, profileVars>>
           /\ UNCHANGED screen
BY DEF Next, vars, OnProfile, OnUserForm, OnServerForm, OnKeys, OnChart, OnCard, OnLive, OnNotices

-----------------------------------------------------------------------------
(* The form for a server                                                   *)

\* A form that names a host and a port has the URL of both.
UrlKept == serverForm.mode # "closed" /\ Host(serverForm) # Blank /\ serverForm.port # 0
           => serverForm.url = UrlOf(serverForm, serverForm.url.tls)

ServerTypes == server \in Server /\ serverForm \in ServerFields
               /\ serverForm.url \in Built \cup {NoUrl}
               /\ asSent \in ServerFields

ServerInv == ServerTypes /\ UrlKept /\ UrlFollowsHost

LEMMA UrlHasScheme ==
    /\ \A u \in Built \cup {NoUrl} : u.tls \in BOOLEAN
    /\ \A u \in Urls : u.tls \in BOOLEAN
<1>1. \A u \in Built : u.tls \in BOOLEAN
  BY DEF Built
<1>2. NoUrl.tls = FALSE
  BY DEF NoUrl
<1> QED BY <1>1, <1>2, ServerAssumption DEF Urls

LEMMA UrlIsBuilt ==
    ASSUME NEW f \in ServerFields, Host(f) # Blank, f.port # 0, NEW tls \in BOOLEAN
    PROVE  UrlOf(f, tls) \in Built /\ UrlOf(f, tls).tls = tls
<1>1. Host(f) \in Hosts
  BY DEF Host, Hosts, ServerFields, Domains, Blank
<1>2. f.port \in Ports
  BY DEF ServerFields
<1> QED BY <1>1, <1>2 DEF UrlOf, Built

\* Of the fields, only the TLS button touches the URL.
LEMMA Filled ==
    ASSUME NEW before \in ServerFields, NEW f \in ServerFields,
           before.url \in Built \cup {NoUrl}, f.url \in Built \cup {NoUrl},
           f.mode = before.mode,
           Host(before) # Blank /\ before.port # 0 => before.url = UrlOf(before, before.url.tls),
           f.url = before.url \/ f.url.tls # before.url.tls
    PROVE  LET g == Rebuilt(before, f)
           IN /\ g \in ServerFields /\ g.url \in Built \cup {NoUrl} /\ g.mode = f.mode
              /\ Host(g) # Blank /\ g.port # 0 => g.url = UrlOf(g, g.url.tls)
<1>1. f.url.tls \in BOOLEAN
  BY UrlHasScheme
<1>2. CASE Host(f) = Blank \/ f.port = 0
  BY <1>2 DEF Rebuilt
<1>3. CASE ~(Host(f) = Blank \/ f.port = 0)
  <2>1. UrlOf(f, f.url.tls) \in Built /\ UrlOf(f, f.url.tls).tls = f.url.tls
    BY <1>1, <1>3, UrlIsBuilt
  <2>2. CASE Rebuilt(before, f) = f
    <3>1. \/ <<f.domain, f.ip, f.port, f.url.tls>>
               = <<before.domain, before.ip, before.port, before.url.tls>>
          \/ f = [f EXCEPT !.url = UrlOf(f, f.url.tls)]
      BY <1>3, <2>2 DEF Rebuilt
    <3>2. f.url = UrlOf(f, f.url.tls)
      <4>1. CASE f = [f EXCEPT !.url = UrlOf(f, f.url.tls)]
        BY <4>1 DEF ServerFields
      <4>2. CASE <<f.domain, f.ip, f.port, f.url.tls>>
                    = <<before.domain, before.ip, before.port, before.url.tls>>
        BY <1>3, <4>2 DEF Host, UrlOf
      <4> QED BY <3>1, <4>1, <4>2
    <3> QED BY <2>2, <3>2
  <2>3. CASE Rebuilt(before, f) = [f EXCEPT !.url = UrlOf(f, f.url.tls)]
    <3> DEFINE g == Rebuilt(before, f)
    <3>1. /\ g.url = UrlOf(f, f.url.tls) /\ g.domain = f.domain /\ g.ip = f.ip
          /\ g.port = f.port /\ g.mode = f.mode /\ g.named = f.named /\ g.text = f.text
      BY <2>3 DEF ServerFields
    <3>2. g \in ServerFields
      BY <2>1, <2>3 DEF ServerFields, Urls
    <3>3. UrlOf(g, g.url.tls) = UrlOf(f, f.url.tls)
      BY <2>1, <3>1 DEF UrlOf, Host
    <3> QED BY <2>1, <3>1, <3>2, <3>3
  <2> QED BY <2>2, <2>3 DEF Rebuilt
<1> QED BY <1>2, <1>3

LEMMA ServerStarts == ServerFormInit => ServerInv
<1> SUFFICES ASSUME ServerFormInit PROVE ServerInv OBVIOUS
<1>1. NoServerForm \in ServerFields /\ NoServerForm.url = NoUrl /\ NoServerForm.mode = "closed"
  BY DEF NoServerForm, ServerFields, Texts, Urls, Domains, Blank, NoUrl
<1>2. server \in Server
  <2>1. PICK i \in Ips, p \in Ports, u \in Strange :
            server = [domain |-> Blank, ip |-> i, port |-> p, url |-> u]
    BY DEF ServerFormInit
  <2> QED BY <2>1 DEF Server, Urls
<1> QED BY <1>1, <1>2 DEF ServerFormInit, ServerInv, ServerTypes, UrlKept, UrlFollowsHost

\* A step that fills the form, or closes it, and sends nothing.
LEMMA ServerFilled ==
    ASSUME ServerInv, NEW f \in ServerFields, f.url \in Built \cup {NoUrl},
           f.mode # "closed" /\ Host(f) # Blank /\ f.port # 0 => f.url = UrlOf(f, f.url.tls),
           serverForm' = f, asSent' = NoServerForm, UNCHANGED server
    PROVE  ServerInv'
<1>1. NoServerForm \in ServerFields /\ NoServerForm.mode = "closed"
  BY DEF NoServerForm, ServerFields, Texts, Urls, Domains, Blank, NoUrl
<1>2. ServerTypes'
  BY <1>1 DEF ServerInv, ServerTypes
<1>3. UrlKept'
  BY DEF UrlKept
<1>4. UrlFollowsHost'
  BY <1>1 DEF UrlFollowsHost
<1> QED BY <1>2, <1>3, <1>4 DEF ServerInv

\* What leaves the form: the fields of one that passed the schema.
LEMMA ServerSent ==
    ASSUME ServerInv, serverForm.mode # "closed", ServerValid(serverForm)
    PROVE  LET r == ServerPayload(serverForm)
           IN /\ r \in ServerFields /\ r.mode = serverForm.mode /\ r.url \in Built
              /\ r.url = UrlOf(r, r.url.tls)
              /\ Saved(r) \in Server \/ ~ServerAccepted(r)
<1> DEFINE r == ServerPayload(serverForm)
<1>1. serverForm \in ServerFields /\ UrlKept
  BY DEF ServerInv, ServerTypes
<1>2. /\ r \in ServerFields /\ r.mode = serverForm.mode /\ r.url = serverForm.url
      /\ r.domain = serverForm.domain /\ r.ip = serverForm.ip /\ r.port = serverForm.port
      /\ r.text \in Texts /\ r.text.protocol = serverForm.text.protocol
      /\ r.mode = "create" => r.text.label = TRUE
  BY <1>1 DEF ServerPayload, ServerFields, Texts
<1>3. serverForm.ip \in Ips /\ serverForm.domain # "bad" /\ serverForm.port # 0
  BY DEF ServerValid
<1>4. Host(serverForm) # Blank
  BY <1>3, ServerAssumption DEF Host, Blank
<1>5. r.url = UrlOf(serverForm, serverForm.url.tls) /\ r.url \in Built
  <2>1. serverForm.url.tls \in BOOLEAN
    BY UrlHasScheme DEF ServerInv, ServerTypes
  <2> QED BY <1>1, <1>2, <1>3, <1>4, <2>1, UrlIsBuilt DEF UrlKept
<1>6. r.url = UrlOf(r, r.url.tls)
  BY <1>1, <1>2, <1>3, <1>4, <1>5 DEF UrlOf, Host, UrlKept
<1>7. r.mode = "edit" \/ r.mode = "create"
  BY <1>2 DEF ServerFields
<1>8. r.port \in Ports /\ r.domain \in {Blank, "host", "long"}
  BY <1>1, <1>2, <1>3 DEF ServerFields, Domains
<1>9. Saved(r) \in Server
  <2>1. CASE r.mode = "create"
    BY <2>1 DEF Saved, ServerInv, ServerTypes
  <2>2. CASE r.mode = "edit"
    BY <1>2, <1>3, <1>5, <1>8, <2>2 DEF Saved, Server, Urls
  <2> QED BY <1>7, <2>1, <2>2
<1> QED BY <1>2, <1>5, <1>6, <1>9

LEMMA ServerSteps == ServerInv /\ [ServerFormNext]_serverVars => ServerInv'
<1> SUFFICES ASSUME ServerInv, [ServerFormNext]_serverVars PROVE ServerInv' OBVIOUS
<1> USE DEF Filling
<1>0. /\ server \in Server /\ serverForm \in ServerFields /\ UrlKept
      /\ serverForm.url \in Built \cup {NoUrl} /\ serverForm.url.tls \in BOOLEAN
  BY UrlHasScheme DEF ServerInv, ServerTypes
<1>1. NoServerForm \in ServerFields /\ NoServerForm.url = NoUrl /\ NoServerForm.mode = "closed"
      /\ NoServerForm.domain = Blank /\ NoServerForm.ip = Blank
  BY DEF NoServerForm, ServerFields, Texts, Urls, Domains, Blank, NoUrl
<1>2. CASE OpenServer
  <2> DEFINE f == [NoServerForm EXCEPT !.mode = "edit", !.domain = server.domain,
                     !.ip = server.ip, !.port = server.port, !.url = server.url, !.named = TRUE]
             g == [f EXCEPT !.url = UrlOf(f, f.url.tls)]
  <2>1. server.domain \in {Blank, "host", "long"} /\ server.ip \in Ips /\ server.port \in Ports
        /\ server.url \in Urls /\ server.url.tls \in BOOLEAN
    BY <1>0, UrlHasScheme DEF Server
  <2>2. f \in ServerFields /\ f.domain = server.domain /\ f.ip = server.ip /\ f.port = server.port
        /\ f.url = server.url
    BY <1>1, <2>1 DEF ServerFields, Domains
  <2>3. Host(f) # Blank /\ f.port # 0
    BY <2>1, <2>2, ServerAssumption DEF Host, Blank
  <2>4. UrlOf(f, f.url.tls) \in Built /\ UrlOf(f, f.url.tls).tls = f.url.tls
    BY <2>1, <2>2, <2>3, UrlIsBuilt
  <2>5. g \in ServerFields /\ g.url = UrlOf(f, f.url.tls) /\ g.domain = f.domain
        /\ g.ip = f.ip /\ g.port = f.port
    BY <2>2, <2>4 DEF ServerFields, Urls
  <2>6. UrlOf(g, g.url.tls) = UrlOf(f, f.url.tls)
    BY <2>4, <2>5 DEF UrlOf, Host
  <2>7. serverForm' = g /\ asSent' = NoServerForm /\ UNCHANGED server
    BY <1>2 DEF OpenServer
  <2> HIDE DEF f, g
  <2> QED BY <2>4, <2>5, <2>6, <2>7, ServerFilled
<1>3. CASE OpenNewServer
  <2>1. PICK p \in Ports : serverForm' = [NoServerForm EXCEPT !.mode = "create", !.port = p]
    BY <1>3 DEF OpenNewServer
  <2> DEFINE f == [NoServerForm EXCEPT !.mode = "create", !.port = p]
  <2>2. f \in ServerFields /\ f.url = NoUrl /\ f.domain = Blank /\ f.ip = Blank
    BY <1>1 DEF ServerFields
  <2>3. asSent' = NoServerForm /\ UNCHANGED server
    BY <1>3 DEF OpenNewServer
  <2>4. Host(f) = Blank
    BY <2>2 DEF Host
  <2> HIDE DEF f
  <2> QED BY <2>1, <2>2, <2>3, <2>4, ServerFilled DEF f
<1>4. CASE CloseServer
  BY <1>1, <1>4, ServerFilled DEF CloseServer
<1>5. ASSUME serverForm.mode # "closed",
             NEW f \in ServerFields, Fill(f), f.mode = serverForm.mode,
             f.url \in Built \cup {NoUrl},
             f.url = serverForm.url \/ f.url.tls # serverForm.url.tls
      PROVE  ServerInv'
  <2> DEFINE g == Rebuilt(serverForm, f)
  <2>1. /\ g \in ServerFields /\ g.url \in Built \cup {NoUrl} /\ g.mode = f.mode
        /\ Host(g) # Blank /\ g.port # 0 => g.url = UrlOf(g, g.url.tls)
    BY <1>0, <1>5, Filled DEF UrlKept
  <2>2. serverForm' = g /\ asSent' = NoServerForm /\ UNCHANGED server
    BY <1>5 DEF Fill
  <2> HIDE DEF g
  <2> QED BY <2>1, <2>2, ServerFilled
<1>6. ASSUME NEW d \in Domains, TypeDomain(d) PROVE ServerInv'
  <2> DEFINE f == [serverForm EXCEPT !.domain = d]
  <2>1. f \in ServerFields /\ f.mode = serverForm.mode /\ f.url = serverForm.url
    BY <1>0, <1>6 DEF ServerFields
  <2> QED BY <1>0, <1>5, <1>6, <2>1 DEF TypeDomain
<1>7. ASSUME NEW i \in Ips \cup {Blank, "bad_ip"}, TypeIp(i) PROVE ServerInv'
  <2> DEFINE f == [serverForm EXCEPT !.ip = i]
  <2>1. f \in ServerFields /\ f.mode = serverForm.mode /\ f.url = serverForm.url
    BY <1>0, <1>7 DEF ServerFields
  <2> QED BY <1>0, <1>5, <1>7, <2>1 DEF TypeIp
<1>8. ASSUME NEW p \in Ports \cup {0}, TypePort(p) PROVE ServerInv'
  <2> DEFINE f == [serverForm EXCEPT !.port = p]
  <2>1. f \in ServerFields /\ f.mode = serverForm.mode /\ f.url = serverForm.url
    BY <1>0, <1>8 DEF ServerFields
  <2> QED BY <1>0, <1>5, <1>8, <2>1 DEF TypePort
<1>9. ASSUME NEW t \in Texts, TypeText(t) PROVE ServerInv'
  <2> DEFINE f == [serverForm EXCEPT !.text = t]
  <2>1. f \in ServerFields /\ f.mode = serverForm.mode /\ f.url = serverForm.url
    BY <1>0, <1>9 DEF ServerFields
  <2> QED BY <1>0, <1>5, <1>9, <2>1 DEF TypeText
<1>10. CASE TypePlace
  <2> DEFINE f == [serverForm EXCEPT !.named = ~@]
  <2>1. f \in ServerFields /\ f.mode = serverForm.mode /\ f.url = serverForm.url
    BY <1>0 DEF ServerFields
  <2> QED BY <1>0, <1>5, <1>10, <2>1 DEF TypePlace
<1>11. CASE ToggleTls
  <2> DEFINE u == [serverForm.url EXCEPT !.tls = ~@]
             f == [serverForm EXCEPT !.url = u]
  <2>1. u \in Built /\ u.tls # serverForm.url.tls
    BY <1>0, <1>11 DEF ToggleTls, Built
  <2>2. f \in ServerFields /\ f.mode = serverForm.mode /\ f.url = u
    BY <1>0, <2>1 DEF ServerFields, Urls
  <2>3. Fill(f) /\ serverForm.mode # "closed"
    BY <1>11 DEF ToggleTls
  <2> HIDE DEF f, u
  <2> QED BY <1>5, <2>1, <2>2, <2>3
<1>12. CASE SubmitServer \/ SubmitServerLost
  <2> DEFINE r == ServerPayload(serverForm)
  <2>1. serverForm.mode # "closed" /\ ServerValid(serverForm) /\ asSent' = r
    BY <1>12 DEF SubmitServer, SubmitServerLost
  <2>2. /\ serverForm' = serverForm \/ serverForm' = NoServerForm
        /\ server' = server \/ (server' = Saved(r) /\ ServerAccepted(r))
    BY <1>12 DEF SubmitServer, SubmitServerLost
  <2>3. /\ r \in ServerFields /\ r.mode = serverForm.mode /\ r.url = UrlOf(r, r.url.tls)
        /\ Saved(r) \in Server \/ ~ServerAccepted(r)
    BY <2>1, ServerSent
  <2> HIDE DEF r
  <2>4. ServerTypes'
    BY <1>0, <1>1, <2>1, <2>2, <2>3 DEF ServerTypes
  <2>5. UrlKept'
    BY <1>0, <1>1, <2>2 DEF UrlKept
  <2>6. UrlFollowsHost'
    BY <2>1, <2>3 DEF UrlFollowsHost
  <2> QED BY <2>4, <2>5, <2>6 DEF ServerInv
<1>13. CASE ServerElsewhere
  <2>1. server' \in Server
    BY <1>0, <1>13 DEF ServerElsewhere, Server, Urls, Blank
  <2>2. UNCHANGED <<serverForm, asSent>>
    BY <1>13 DEF ServerElsewhere
  <2> QED BY <2>1, <2>2 DEF ServerInv, ServerTypes, UrlKept, UrlFollowsHost
<1>14. CASE UNCHANGED serverVars
  BY <1>14 DEF serverVars, ServerInv, ServerTypes, UrlKept, UrlFollowsHost
<1> QED BY <1>2, <1>3, <1>4, <1>6, <1>7, <1>8, <1>9, <1>10, <1>11, <1>12, <1>13, <1>14
        DEF ServerFormNext

\* However the fields of a server's form were filled, cleared and filled again,
\* its effect has the URL follow the host and the port by the time they are sent.
THEOREM UrlOfWhatIsSent == Spec => []UrlFollowsHost
<1>1. Init => ServerInv
  BY ServerStarts DEF Init
<1>2. ServerInv /\ [Next]_vars => ServerInv'
  BY Projection, ServerSteps
<1>3. ServerInv => UrlFollowsHost
  BY DEF ServerInv
<1> QED BY <1>1, <1>2, <1>3, PTL DEF Spec

-----------------------------------------------------------------------------
(* The value of an input of type datetime-local                            *)

Minutes == Day \div Minute
HourMinutes == Hour \div Minute

\* A day, an hour and Moscow's lead are so many minutes.
LEMMA WholeMinutes ==
    /\ Minutes \in Nat \ {0} /\ Day = Minute * Minutes
    /\ HourMinutes \in Nat \ {0} /\ Hour = Minute * HourMinutes
    /\ \E i \in Nat : Offset = Minute * i
<1> USE TimeAssumption
<1>1. Day % Minute = 0 /\ Offset % Minute = 0
  BY MultipleOfMultiple
<1>2. ASSUME NEW a \in Nat, a % Minute = 0
      PROVE  a \div Minute \in Nat /\ a = Minute * (a \div Minute)
  <2>1. a \div Minute \in Int /\ a = Minute * (a \div Minute) + (a % Minute)
    BY Quotient, QuotientRemainder
  <2>2. 0 \div Minute = 0
    BY QuotientUnique
  <2>3. a \div Minute >= 0
    BY <2>2, QuotientMonotonic
  <2> QED BY <1>2, <2>1, <2>3
<1>3. Day = Minute * Minutes /\ Minutes \in Nat
  BY <1>1, <1>2 DEF Minutes
<1>4. Hour = Minute * HourMinutes /\ HourMinutes \in Nat
  BY <1>2 DEF HourMinutes
<1>5. Offset \div Minute \in Nat /\ Offset = Minute * (Offset \div Minute)
  BY <1>1, <1>2
<1>6. Minutes # 0 /\ HourMinutes # 0
  BY <1>3, <1>4
<1> QED BY <1>3, <1>4, <1>5, <1>6

\* The clock of a moment: the days of Moscow, the minutes of the day, the rest.
LEMMA ClockOfMoment ==
    ASSUME NEW e \in Int, -Offset <= e
    PROVE  \E d \in Nat, m \in 0..(Minutes - 1), r \in 0..(Minute - 1) :
              /\ d = (e + Offset) \div Day
              /\ m = ((e + Offset) % Day) \div Minute
              /\ r = e % Minute
              /\ e = d * Day + m * Minute + r - Offset
<1> USE TimeAssumption
<1> DEFINE d == (e + Offset) \div Day
           w == (e + Offset) % Day
           m == w \div Minute
           r == w % Minute
<1>1. d \in Int /\ w \in 0..(Day - 1) /\ e + Offset = Day * d + w
  <2>1. e + Offset \in Int /\ Day \in Nat \ {0}
    OBVIOUS
  <2> QED BY <2>1, Quotient, QuotientRemainder
<1>2. 0 \div Day = 0 /\ 0 \div Minute = 0
  BY QuotientUnique
<1>3. d >= 0
  BY <1>2, QuotientMonotonic
<1>4. m \in Int /\ r \in 0..(Minute - 1) /\ w = Minute * m + r
  BY <1>1, Quotient, QuotientRemainder
<1>5. m >= 0
  BY <1>1, <1>2, QuotientMonotonic
<1> HIDE DEF d, w, m, r
<1>6. m < Minutes
  <2>1. Minute * m < Minute * Minutes
    BY <1>1, <1>4, WholeMinutes
  <2> QED BY <1>4, <2>1, WholeMinutes
<1>7. PICK i \in Nat : Offset = Minute * i
  BY WholeMinutes
<1>8. PICK k \in Int : k = Minutes * d + m - i
  BY <1>1, <1>4, WholeMinutes
<1>9. Day * d = Minute * (Minutes * d)
  BY <1>1, WholeMinutes
<1>10. e = Minute * k + r
  <2>1. Minutes * d \in Int
    BY <1>1, WholeMinutes
  <2>2. Minute * k = Minute * (Minutes * d) + Minute * m - Minute * i
    BY <1>4, <1>8, <2>1
  <2> QED BY <1>1, <1>4, <1>7, <1>9, <2>1, <2>2
<1>11. e % Minute = r
  BY <1>4, <1>8, <1>10, QuotientUnique
<1>12. d * Day = Day * d /\ m * Minute = Minute * m
  BY <1>1, <1>4
<1>13. e = d * Day + m * Minute + r - Offset
  BY <1>1, <1>4, <1>12
<1>14. d \in Nat /\ m \in 0..(Minutes - 1) /\ r \in 0..(Minute - 1)
  BY <1>1, <1>3, <1>4, <1>5, <1>6, WholeMinutes
<1>15. d = (e + Offset) \div Day /\ m = ((e + Offset) % Day) \div Minute
  BY DEF d, m, w
<1> QED BY <1>11, <1>13, <1>14, <1>15

\* What a moment looks like in the input, and what is read from it again: no
\* earlier a minute, or nothing.
LEMMA RoundTrip ==
    ASSUME NEW e \in Int, -Offset <= e
    PROVE  LET v == ToInput(e)
           IN /\ e <= MaxExpiry => v \in Inputs
              /\ v # None
              /\ Readable(v) => FromInput(v) \in Int /\ FromInput(v) >= FullMinute(e)
<1> USE TimeAssumption, AccountAssumption
<1> DEFINE v == ToInput(e)
<1>1. PICK d \in Nat, m \in 0..(Minutes - 1), r \in 0..(Minute - 1) :
              /\ d = (e + Offset) \div Day
              /\ m = ((e + Offset) % Day) \div Minute
              /\ r = e % Minute
              /\ e = d * Day + m * Minute + r - Offset
  BY ClockOfMoment
<1>2. e # None
  OBVIOUS
<1>3. v = [day |-> d, minute |-> IF Hour24 /\ m < HourMinutes THEN m + Minutes ELSE m]
  BY <1>1, <1>2 DEF ToInput, Minutes, HourMinutes
<1>4. PICK n \in Nat : v.day = d /\ v.minute = n /\ (n = m \/ (n = m + Minutes /\ m < HourMinutes))
                       /\ v = [day |-> d, minute |-> n]
  <2>1. m \in Nat /\ m + Minutes \in Nat
    <3>1. Minutes \in Nat
      BY WholeMinutes
    <3> QED BY <3>1
  <2>2. CASE Hour24 /\ m < HourMinutes
    BY <1>3, <2>1, <2>2
  <2>3. CASE ~(Hour24 /\ m < HourMinutes)
    BY <1>3, <2>1, <2>3
  <2> QED BY <2>2, <2>3
<1>5. v # None
  BY <1>4
<1>6. e <= MaxExpiry => v \in Inputs
  <2>1. e <= MaxExpiry => d <= (MaxExpiry + Offset) \div Day /\ (MaxExpiry + Offset) \div Day \in Int
    <3>1. e + Offset \in Int /\ MaxExpiry + Offset \in Int /\ Day \in Nat \ {0}
      OBVIOUS
    <3>2. e <= MaxExpiry => e + Offset <= MaxExpiry + Offset
      OBVIOUS
    <3> QED BY <1>1, <3>1, <3>2, Quotient, QuotientMonotonic
  <2>2. n \in 0..(Minutes + HourMinutes)
    BY <1>1, <1>4, WholeMinutes
  <2> QED BY <1>4, <2>1, <2>2 DEF Inputs, Minutes, HourMinutes
<1>7. ASSUME Readable(v) PROVE FromInput(v) \in Int /\ FromInput(v) >= FullMinute(e)
  <2>1. n <= Minutes /\ FromInput(v) = d * Day + n * Minute - Offset
    BY <1>4, <1>7 DEF Readable, FromInput, Minutes
  <2>2. n >= m
    BY <1>1, <1>4, WholeMinutes
  <2>3. FullMinute(e) = d * Day + m * Minute - Offset
    <3>1. d * Day \in Int /\ m * Minute \in Int
      <4>1. d \in Int /\ m \in Int /\ Day \in Int /\ Minute \in Int
        BY <1>1
      <4> QED BY <4>1
    <3> QED BY <1>1, <1>2, <3>1 DEF FullMinute
  <2>4. n * Minute >= m * Minute /\ n * Minute \in Int /\ d * Day \in Int
    <3>1. d \in Int /\ m \in Int /\ n \in Int /\ Day \in Int /\ Minute \in Nat
      BY <1>1, <1>4
    <3> QED BY <2>2, <3>1
  <2> QED BY <2>1, <2>3, <2>4
<1> HIDE DEF v
<1> QED BY <1>5, <1>6, <1>7 DEF v

\* What is read from an input is a moment since the epoch of Moscow's clock.
LEMMA MomentOfInput ==
    ASSUME NEW v \in Inputs
    PROVE  FromInput(v) = None \/ (FromInput(v) \in Int /\ FromInput(v) >= -Offset)
<1> USE TimeAssumption, AccountAssumption
<1>1. CASE ~Readable(v)
  BY <1>1 DEF FromInput
<1>2. CASE Readable(v)
  <2>1. v \in [day : 0..((MaxExpiry + Offset) \div Day), minute : 0..(Day \div Minute + Hour \div Minute)]
    BY <1>2 DEF Inputs, Readable
  <2>2. v.day \in Nat /\ v.minute \in Nat
    BY <2>1
  <2>3. v.day * Day \in Nat /\ v.minute * Minute \in Nat
    BY <2>2
  <2> QED BY <1>2, <2>3 DEF FromInput
<1> QED BY <1>1, <1>2

-----------------------------------------------------------------------------
(* The account                                                             *)

AccountTypes == now \in 0..MaxTime /\ account \in Account

LEMMA AccountStarts == AccountInit => AccountTypes
<1> SUFFICES ASSUME AccountInit PROVE AccountTypes OBVIOUS
<1> USE TimeAssumption, AccountAssumption
<1>1. PICK e \in Expiries \cup {None}, a \in BOOLEAN :
          account = [allowed |-> TRUE, active |-> a, expires |-> e]
  BY DEF AccountInit
<1>2. e \in Moments \cup {None}
  BY DEF Moments
<1> QED BY <1>1, <1>2 DEF AccountTypes, AccountInit, Account

LEMMA AccountSteps ==
    ASSUME AccountTypes, AccountNext
    PROVE  account' \in Account
<1> USE TimeAssumption, AccountAssumption
<1>1. CASE Credit
  <2> DEFINE from == IF Running(account.expires, now) THEN account.expires ELSE now
  <2>1. from \in Int /\ -Offset <= from
    BY DEF AccountTypes, Account, Moments, Running
  <2>2. from + Period <= MaxExpiry /\ account' = [account EXCEPT !.active = TRUE, !.expires = from + Period]
    BY <1>1 DEF Credit
  <2> HIDE DEF from
  <2>3. from + Period \in Moments
    BY <2>1, <2>2 DEF Moments
  <2> QED BY <2>2, <2>3 DEF AccountTypes, Account
<1>2. CASE Deactivate
  BY <1>2 DEF Deactivate, AccountTypes, Account
<1> QED BY <1>1, <1>2 DEF AccountNext

-----------------------------------------------------------------------------
(* The form for a user                                                     *)

FormTypes == form \in Form

\* A date that nobody has typed is no earlier than the end of the row that was
\* clicked, if it can be read at all, and it is not empty.
BaseKept ==
    form.by # "other" /\ form.base # None =>
        /\ form.expires # None
        /\ Readable(form.expires) => FromInput(form.expires) >= FullMinute(form.base)

FormInv == FormTypes /\ BaseKept

LEMMA ClosedForm ==
    Closed \in Form /\ Closed.mode = "closed" /\ Closed.expires = None /\ Closed.base = None
BY AccountAssumption DEF Closed, Form, Tabs, Names, Passwords, Inputs

\* A step that uses the form and leaves the date and what it was alone, or sets it.
LEMMA FormSet ==
    ASSUME AccountTypes, NEW new \in Form, Set(new),
           \/ new.by = "other" \/ new.base = None
           \/ /\ new.expires # None
              /\ Readable(new.expires) => FromInput(new.expires) >= FullMinute(new.base)
    PROVE  AccountTypes' /\ FormInv'
<1> DEFINE drawn == [new EXCEPT !.drawn = now]
<1>1. /\ drawn \in Form /\ drawn.by = new.by
      /\ drawn.expires = new.expires /\ drawn.base = new.base
  BY DEF AccountTypes, Form
<1>2. form' = drawn /\ UNCHANGED <<now, account>>
  BY DEF Set
<1> HIDE DEF drawn
<1> QED BY <1>1, <1>2 DEF FormInv, FormTypes, BaseKept, AccountTypes

\* The button that prolongs: the date it sets is later by more than a minute,
\* and so what is read from it is not earlier, to the minute.
LEMMA ExtendedDate ==
    ASSUME FormTypes, NEW s \in Shifts, Extend(s)
    PROVE  LET v == ToInput(AddDays(FromInput(form.expires), s))
           IN /\ Readable(form.expires) /\ v \in Inputs /\ v # None
              /\ Readable(v) => FromInput(v) >= FromInput(form.expires)
              /\ FromInput(v) \in Int \cup {None} /\ FromInput(form.expires) \in Int
<1> USE TimeAssumption, AccountAssumption, FormAssumption
<1> DEFINE e == FromInput(form.expires)
           t == AddDays(e, s)
           v == ToInput(t)
<1>1. QuickDays * Day \in Int /\ s \in Int /\ QuickDays * Day + s > Minute
  OBVIOUS
<1>2. e # None /\ t <= MaxExpiry
  BY DEF Extend, HasActiveSubscription, Running
<1>3. form.expires \in Inputs /\ Readable(form.expires)
  BY <1>2 DEF FormTypes, Form, FromInput
<1>4. e \in Int /\ e >= -Offset
  BY <1>2, <1>3, MomentOfInput
<1> HIDE DEF e
<1>5. t \in Int /\ t > e + Minute /\ -Offset <= t
  BY <1>1, <1>4 DEF AddDays
<1> HIDE DEF t
<1>6. v \in Inputs /\ v # None /\ (Readable(v) => FromInput(v) \in Int /\ FromInput(v) >= FullMinute(t))
  BY <1>2, <1>5, RoundTrip
<1>7. FullMinute(t) > t - Minute
  <2>1. t % Minute \in 0..(Minute - 1)
    BY <1>5, QuotientRemainder
  <2> QED BY <1>5, <2>1 DEF FullMinute
<1>8. FullMinute(t) \in Int
  <2>1. t % Minute \in 0..(Minute - 1)
    BY <1>5, QuotientRemainder
  <2> QED BY <1>5, <2>1 DEF FullMinute
<1> HIDE DEF v
<1>9. Readable(v) => FromInput(v) >= e
  BY <1>4, <1>5, <1>6, <1>7, <1>8
<1>10. FromInput(v) \in Int \cup {None}
  BY <1>6, MomentOfInput
<1> QED BY <1>3, <1>4, <1>6, <1>9, <1>10 DEF e, t, v

LEMMA FormStarts == FormInit => FormInv
BY ClosedForm DEF FormInit, FormInv, FormTypes, BaseKept

LEMMA FormSteps ==
    ASSUME AccountTypes, FormInv, FormNext
    PROVE  AccountTypes' /\ FormInv'
<1> USE TimeAssumption, AccountAssumption, FormAssumption
<1>0. /\ form \in Form /\ BaseKept /\ now \in 0..MaxTime /\ account \in Account
      /\ account.expires \in Moments \cup {None}
      /\ form.base \in Moments \cup {None}
  BY DEF FormInv, FormTypes, AccountTypes, Account, Form
<1>1. CASE OpenEdit
  <2> DEFINE v == ToInput(account.expires)
             f == [Closed EXCEPT !.mode = "edit", !.active = account.active,
                     !.expires = v, !.base = account.expires]
  <2>1. CASE account.expires = None
    <3>1. v \in Inputs
      BY <2>1 DEF ToInput, Inputs
    <3> HIDE DEF v
    <3>2. f \in Form /\ f.base = None
      BY <1>0, <2>1, <3>1, ClosedForm DEF Form, Account
    <3>3. Set(f)
      BY <1>1 DEF OpenEdit, v
    <3> HIDE DEF f
    <3> QED BY <3>2, <3>3, FormSet
  <2>2. CASE account.expires \in Moments
    <3>1. /\ v \in Inputs /\ v # None
          /\ Readable(v) => FromInput(v) >= FullMinute(account.expires)
      BY <2>2, RoundTrip DEF Moments
    <3> HIDE DEF v
    <3>2. f \in Form /\ f.base = account.expires /\ f.expires = v
      BY <1>0, <3>1, ClosedForm DEF Form, Account
    <3>3. Set(f)
      BY <1>1 DEF OpenEdit, v
    <3> HIDE DEF f
    <3> QED BY <3>1, <3>2, <3>3, FormSet
  <2> QED BY <1>0, <2>1, <2>2
<1>2. CASE OpenCreate
  <2> DEFINE f == [Closed EXCEPT !.mode = "create"]
  <2>1. f \in Form /\ f.base = None
    BY ClosedForm DEF Form
  <2>2. Set(f)
    BY <1>2 DEF OpenCreate
  <2> HIDE DEF f
  <2> QED BY <2>1, <2>2, FormSet
<1>3. CASE Close
  BY <1>3, ClosedForm DEF Close, AccountTypes, FormInv, FormTypes, BaseKept
<1>4. ASSUME NEW f \in Form, Set(f), f.expires = form.expires, f.base = form.base, f.by = form.by
      PROVE  AccountTypes' /\ FormInv'
  BY <1>0, <1>4, FormSet DEF BaseKept
<1>5. ASSUME NEW tab \in Tabs, GoTab(tab) PROVE AccountTypes' /\ FormInv'
  <2> DEFINE f == [form EXCEPT !.tab = tab]
  <2>1. f \in Form /\ f.expires = form.expires /\ f.base = form.base /\ f.by = form.by
    BY <1>0 DEF Form
  <2> QED BY <1>4, <1>5, <2>1 DEF GoTab
<1>6. CASE SetActive
  <2> DEFINE f == [form EXCEPT !.active = ~form.active]
  <2>1. f \in Form /\ f.expires = form.expires /\ f.base = form.base /\ f.by = form.by
    BY <1>0 DEF Form
  <2> QED BY <1>4, <1>6, <2>1 DEF SetActive
<1>7. ASSUME NEW n \in Names, TypeName(n) PROVE AccountTypes' /\ FormInv'
  <2> DEFINE f == [form EXCEPT !.name = n]
  <2>1. f \in Form /\ f.expires = form.expires /\ f.base = form.base /\ f.by = form.by
    BY <1>0 DEF Form
  <2> QED BY <1>4, <1>7, <2>1 DEF TypeName
<1>8. ASSUME NEW p \in Passwords, TypePassword(p) PROVE AccountTypes' /\ FormInv'
  <2> DEFINE f == [form EXCEPT !.password = p]
  <2>1. f \in Form /\ f.expires = form.expires /\ f.base = form.base /\ f.by = form.by
    BY <1>0 DEF Form
  <2> QED BY <1>4, <1>8, <2>1 DEF TypePassword
<1>9. ASSUME NEW v \in Typed \cup {None}, TypeExpires(v) PROVE AccountTypes' /\ FormInv'
  <2> DEFINE f == [form EXCEPT !.expires = v, !.by = "other"]
  <2>1. v \in Inputs
    <3>1. Day \div Minute \in Nat /\ Hour \div Minute \in Nat
      BY WholeMinutes DEF Minutes, HourMinutes
    <3> QED BY <3>1 DEF Inputs
  <2>2. f \in Form /\ f.by = "other"
    BY <1>0, <2>1 DEF Form
  <2>3. Set(f)
    BY <1>9 DEF TypeExpires
  <2> HIDE DEF f
  <2> QED BY <2>2, <2>3, FormSet
<1>10. ASSUME NEW s \in Shifts, Extend(s) PROVE AccountTypes' /\ FormInv'
  <2> DEFINE t == AddDays(FromInput(form.expires), s)
             v == ToInput(t)
             f == Extended(t)
  <2>1. /\ Readable(form.expires) /\ v \in Inputs /\ v # None
        /\ Readable(v) => FromInput(v) >= FromInput(form.expires)
        /\ FromInput(v) \in Int \cup {None} /\ FromInput(form.expires) \in Int
    BY <1>10, ExtendedDate DEF FormInv
  <2>2. Set(f)
    BY <1>10 DEF Extend
  <2> HIDE DEF t
  <2>3. /\ f \in Form /\ f.expires = v /\ f.base = form.base
        /\ f.by # "other" => form.by # "other"
    BY <1>0, <2>1 DEF Extended, Form
  <2> HIDE DEF f, v
  <2>4. ASSUME form.by # "other", form.base # None, Readable(v)
        PROVE  FromInput(v) >= FullMinute(form.base)
    <3>1. FromInput(form.expires) >= FullMinute(form.base)
      BY <1>0, <2>1, <2>4 DEF BaseKept
    <3>2. FullMinute(form.base) \in Int
      <4>1. form.base \in Int
        BY <1>0, <2>4 DEF Moments
      <4>2. form.base % Minute \in Int
        <5>1. Minute \in Nat \ {0}
          OBVIOUS
        <5>2. form.base % Minute \in 0..(Minute - 1)
          BY <4>1, <5>1, QuotientRemainder
        <5> QED BY <5>1, <5>2
      <4> QED BY <4>1, <4>2, <2>4 DEF FullMinute
    <3>3. FromInput(v) \in Int
      <4>1. FromInput(v) # None
        <5>1. v.day \in Int /\ v.minute \in Int
          BY <2>1 DEF Inputs
        <5>2. v.day * Day + v.minute * Minute - Offset \in Int
          BY <5>1
        <5> QED BY <2>4, <5>2 DEF FromInput
      <4> QED BY <2>1, <4>1
    <3> QED BY <2>1, <2>4, <3>1, <3>2, <3>3
  <2> QED BY <2>1, <2>2, <2>3, <2>4, FormSet
<1>11. ASSUME NEW s \in Shifts, Start(s) PROVE AccountTypes' /\ FormInv'
  <2> DEFINE t == AddDays(form.drawn, s)
             v == ToInput(t)
             f == [form EXCEPT !.active = TRUE, !.expires = v, !.by = "other"]
  <2>1. t <= MaxExpiry /\ Set(f)
    BY <1>11 DEF Start
  <2>2. v \in Inputs
    <3>1. QuickDays * Day \in Int /\ s \in Int /\ QuickDays * Day + s > Minute
      OBVIOUS
    <3>2. form.drawn \in Int /\ form.drawn >= 0
      BY <1>0 DEF Form
    <3>3. t \in Int /\ -Offset <= t
      BY <3>1, <3>2 DEF AddDays
    <3> HIDE DEF t
    <3> QED BY <2>1, <3>3, RoundTrip
  <2> HIDE DEF v
  <2>3. f \in Form /\ f.by = "other"
    BY <1>0, <2>2 DEF Form
  <2> HIDE DEF f
  <2> QED BY <2>1, <2>3, FormSet
<1>12. CASE Submit \/ SubmitFails
  <2> DEFINE created == [Closed EXCEPT !.mode = "created", !.drawn = now]
             kept == [form EXCEPT !.drawn = now]
  <2>1. account' \in {account, Written(form)} /\ Written(form) \in Account /\ UNCHANGED now
    BY <1>12 DEF Submit, SubmitFails, Saves
  <2>2. form' \in {Closed, created, kept}
    BY <1>12 DEF Submit, SubmitFails
  <2>3. /\ created \in Form /\ created.base = None
        /\ kept \in Form /\ kept.expires = form.expires
        /\ kept.base = form.base /\ kept.by = form.by
    BY <1>0, ClosedForm DEF Form
  <2> HIDE DEF created, kept
  <2>4. FormTypes' /\ BaseKept'
    BY <1>0, <2>2, <2>3, ClosedForm DEF FormTypes, BaseKept
  <2> QED BY <1>0, <2>1, <2>4 DEF FormInv, AccountTypes
<1>13. CASE FormWaits
  BY <1>0, <1>13 DEF FormWaits, AccountTypes, formVars, FormInv, FormTypes, BaseKept
<1>14. CASE AccountNext /\ UNCHANGED <<now, formVars>>
  BY <1>0, <1>14, AccountSteps DEF AccountTypes, formVars, FormInv, FormTypes, BaseKept
<1> QED BY <1>1, <1>2, <1>3, <1>5, <1>6, <1>7, <1>8, <1>9, <1>10, <1>11, <1>12, <1>13, <1>14
        DEF FormNext

-----------------------------------------------------------------------------
(* What the pages say of the end of a subscription                         *)

\* Days left: the difference of two days of the Moscow calendar.
LEMMA DaysBetween ==
    ASSUME NEW e \in Int, NEW t \in Int
    PROVE  /\ DaysUntil(e, t) \in Int
           /\ e >= t => DaysUntil(e, t) >= 0
<1>0. Day \in Nat \ {0} /\ Offset \in Nat /\ 0 \in 0..(Day - 1)
  BY TimeAssumption
<1> DEFINE p == (e + Offset) \div Day
           q == (t + Offset) \div Day
<1>1. p \in Int /\ q \in Int
  BY <1>0, Quotient
<1>2. e >= t => p >= q
  BY <1>0, QuotientMonotonic
<1>3. DaysUntil(e, t) = ((p * Day - Offset) - (q * Day - Offset)) \div Day
  <2>1. e # None
    BY TimeAssumption
  <2> QED BY <2>1 DEF DaysUntil, Midnight
<1> HIDE DEF p, q
<1>4. PICK k \in Int : k = p - q
  BY <1>1
<1>5. (p * Day - Offset) - (q * Day - Offset) = Day * k + 0
  BY <1>0, <1>1, <1>4
<1>6. DaysUntil(e, t) = k
  <2>1. (Day * k + 0) \div Day = k
    BY <1>0, <1>4, QuotientUnique
  <2> QED BY <1>3, <1>5, <2>1
<1> QED BY <1>1, <1>2, <1>4, <1>6

LEMMA CountdownType ==
    ASSUME NEW e \in Int \cup {None}, NEW t \in Int
    PROVE  /\ Countdown(e, t) \in Nat \cup {None}
           /\ Countdown(e, t) = None <=> ~Running(e, t)
<1> USE TimeAssumption
<1>1. CASE Running(e, t)
  <2>1. e \in Int /\ 0 <= e - t
    BY <1>1 DEF Running
  <2>2. 0 \div Minute = 0
    BY QuotientUnique
  <2>3. (e - t) \div Minute \in Nat
    BY <2>1, <2>2, Quotient, QuotientMonotonic
  <2> QED BY <1>1, <2>3 DEF Countdown
<1>2. CASE ~Running(e, t)
  BY <1>2 DEF Countdown
<1> QED BY <1>1, <1>2

LEMMA TileType ==
    ASSUME NEW e \in Int \cup {None}, NEW t \in Int, NEW l \in Nat \cup {None}
    PROVE  LET tile == Tile(e, DaysUntil(e, t), l, Tier(e, t))
           IN /\ tile \in Said \X Int
              /\ tile[1] = "ended" => e # None /\ e < t
<1> DEFINE d == DaysUntil(e, t)
           tier == Tier(e, t)
<1>1. CASE e = None
  BY <1>1 DEF Tile, Said
<1>2. CASE e \in Int
  <2>1. e # None /\ d \in Int /\ (e >= t => d >= 0)
    BY <1>2, DaysBetween, TimeAssumption
  <2> HIDE DEF d, tier
  <2>2. CASE d < 0
    <3>1. Tile(e, d, l, tier) = <<"ended", 0>>
      BY <2>1, <2>2 DEF Tile
    <3> QED BY <1>2, <2>1, <2>2, <3>1 DEF Said, d, tier
  <2>3. CASE d = 0 /\ l # None
    <3>1. Tile(e, d, l, tier) = <<IF l < Hour \div Minute THEN "last_hour" ELSE "last_day", l>>
      BY <2>1, <2>3 DEF Tile
    <3> QED BY <2>3, <3>1 DEF Said, d, tier
  <2>4. CASE ~(d < 0) /\ ~(d = 0 /\ l # None)
    <3>1. Tile(e, d, l, tier) = <<IF tier \in {"critical", "warning"} THEN "soon" ELSE "days", d>>
      BY <2>1, <2>4 DEF Tile
    <3> QED BY <2>1, <3>1 DEF Said, d, tier
  <2> QED BY <2>2, <2>3, <2>4
<1> QED BY <1>1, <1>2

\* The dashboard, the table's filter and the badge look at the same days.
LEMMA SameLists ==
    ASSUME NEW e \in Int \cup {None}, NEW t \in Int, Running(e, t)
    PROVE  /\ OnBoard(e, t) <=> InFilter(e, t)
           /\ OnBoard(e, t) <=> Tier(e, t) \in {"critical", "warning"}
<1> USE TimeAssumption
<1> DEFINE d == DaysUntil(e, t)
<1>1. e # None /\ e \in Int /\ e > t
  BY DEF Running
<1>2. d \in Int /\ d >= 0
  BY <1>1, DaysBetween
<1> HIDE DEF d
<1>3. OnBoard(e, t) <=> d <= Warning
  BY DEF OnBoard, d
<1>4. InFilter(e, t) <=> d <= Warning
  BY <1>1, <1>2 DEF InFilter, d
<1>5. CASE d <= Critical
  <2>1. Tier(e, t) = "critical"
    BY <1>1, <1>5 DEF Tier, d
  <2> QED BY <1>2, <1>3, <1>4, <1>5, <2>1
<1>6. CASE d > Critical /\ d <= Warning
  <2>1. Tier(e, t) = "warning"
    BY <1>1, <1>2, <1>6 DEF Tier, d
  <2> QED BY <1>2, <1>3, <1>4, <1>6, <2>1
<1>7. CASE d > Warning
  <2>1. Tier(e, t) = "ok"
    BY <1>1, <1>2, <1>7 DEF Tier, d
  <2> QED BY <1>2, <1>3, <1>4, <1>7, <2>1
<1> QED BY <1>2, <1>5, <1>6, <1>7

ProfileTypes ==
    /\ me \in Account \cup {None} /\ user \in Account /\ asked \in {"idle", "asked", "failed"}
    /\ left \in Nat \cup {None} /\ timer \in Nat \cup {None} /\ page \in Page

\* The next tick is at most a minute away, and the last was a minute before it.
TickSet ==
    IF Known.expires = None THEN timer = None
    ELSE timer \in now..(now + Minute) /\ left = Countdown(Known.expires, timer - Minute)

\* The tile is of a moment t in the past; while the subscription runs, of one
\* after the last tick, with the countdown of that tick.
TileOf(t, l) ==
    /\ t <= now
    /\ page.tile = Tile(Known.expires, DaysUntil(Known.expires, t), l, Tier(Known.expires, t))
    /\ Running(Known.expires, now) => timer - Minute <= t /\ l = left

TileKnown == Drawing => \E t \in Int, l \in Nat \cup {None} : TileOf(t, l)

ProfileInv ==
    /\ ProfileTypes
    /\ IF screen = "profile" THEN TickSet /\ TileKnown ELSE page = Spinner

LEMMA MomentIsInteger == Moments \subseteq Int
BY TimeAssumption, AccountAssumption DEF Moments

LEMMA KnownType ==
    ASSUME me \in Account \cup {None}, user \in Account
    PROVE  Known \in Account /\ Known.expires \in Int \cup {None}
BY MomentIsInteger DEF Known, Account

LEMMA DrawnPage ==
    ASSUME NEW p \in Account, NEW l \in Nat \cup {None}, now \in Nat
    PROVE  /\ Drawn(p, l) \in Page /\ Drawn(p, l).view = "profile"
           /\ Drawn(p, l).tile = Tile(p.expires, DaysUntil(p.expires, now), l, Tier(p.expires, now))
<1>1. p.expires \in Int \cup {None}
  BY MomentIsInteger DEF Account
<1>2. Tile(p.expires, DaysUntil(p.expires, now), l, Tier(p.expires, now)) \in Said \X Int
  <2>1. now \in Int
    OBVIOUS
  <2> QED BY <1>1, <2>1, TileType
<1>3. (p.expires = None) \in BOOLEAN /\ (p.allowed /\ p.active) \in BOOLEAN
  OBVIOUS
<1> QED BY <1>2, <1>3 DEF Drawn, Page

LEMMA SpinnerType == Spinner \in Page /\ Spinner.view = "loading"
BY DEF Spinner, Page, Said

\* Whatever is drawn now is true now.
LEMMA DrawnIsKnown ==
    ASSUME ProfileTypes', TickSet', now \in Nat, UNCHANGED now, Draw
    PROVE  page' \in Page /\ TileKnown'
<1>1. Known' \in Account /\ Known'.expires \in Int \cup {None}
  BY MomentIsInteger DEF ProfileTypes, Known, Account
<1>2. left' \in Nat \cup {None} /\ (timer' # None => timer' \in Nat)
  BY DEF ProfileTypes
<1>3. CASE page' = Spinner
  BY <1>3, SpinnerType DEF TileKnown, Drawing
<1>4. CASE page' = Drawn(Known', left')
  <2>1. /\ page' \in Page
        /\ page'.tile = Tile(Known'.expires, DaysUntil(Known'.expires, now), left', Tier(Known'.expires, now))
    BY <1>1, <1>2, <1>4, DrawnPage
  <2>2. Running(Known'.expires, now) => timer' - Minute <= now
    BY TimeAssumption DEF TickSet, Running
  <2>3. \E t \in Int, l \in Nat \cup {None} :
           /\ t <= now'
           /\ page'.tile = Tile(Known'.expires, DaysUntil(Known'.expires, t), l, Tier(Known'.expires, t))
           /\ Running(Known'.expires, now') => timer' - Minute <= t /\ l = left'
    BY <1>2, <2>1, <2>2
  <2> QED BY <2>1, <2>3 DEF TileKnown, TileOf
<1> QED BY <1>3, <1>4 DEF Draw

LEMMA MinuteIsPositive == Minute \in Nat \ {0} /\ None \notin Int
BY TimeAssumption

LEMMA ProfileStarts ==
    ASSUME AccountTypes, ProfileInit, now = 0
    PROVE  ProfileInv
<1> USE MinuteIsPositive
<1>1. /\ user \in Account /\ me = None /\ Known = user /\ user.expires \in Int \cup {None}
      /\ account.expires \in Int \cup {None}
  BY MomentIsInteger DEF AccountTypes, ProfileInit, Known, Account
<1>2. left = Countdown(user.expires, now) /\ left \in Nat \cup {None}
  <2>1. now \in Int
    OBVIOUS
  <2> QED BY <1>1, <2>1, CountdownType DEF ProfileInit
<1>3. timer = IF user.expires = None THEN None ELSE now + Minute
  BY DEF ProfileInit
<1>4. ProfileTypes
  BY <1>1, <1>2, <1>3, SpinnerType DEF ProfileTypes, ProfileInit
<1>5. TickSet
  <2>1. CASE user.expires = None
    BY <1>1, <1>3, <2>1 DEF TickSet
  <2>2. CASE user.expires # None
    <3>1. timer = now + Minute /\ timer - Minute = now
      BY <1>3, <2>2
    <3>2. timer \in now..(now + Minute)
      BY <3>1
    <3>3. left = Countdown(Known.expires, timer - Minute)
      BY <1>1, <1>2, <3>1
    <3> QED BY <1>1, <2>2, <3>2, <3>3 DEF TickSet
  <2> QED BY <2>1, <2>2
<1>6. page = Spinner /\ TileKnown
  BY SpinnerType DEF ProfileInit, TileKnown, Drawing
<1> QED BY <1>4, <1>5, <1>6 DEF ProfileInv

\* Nothing that the page depends on has changed, and no tick is missed.
LEMMA ProfileKept ==
    ASSUME ProfileTypes, TickSet, TileKnown, now \in Nat, UNCHANGED profileVars,
           now' \in Nat, now' = now \/ (now' = now + 1 /\ timer # now)
    PROVE  ProfileTypes' /\ TickSet' /\ TileKnown'
<1> USE MinuteIsPositive
<1>1. UNCHANGED <<me, asked, user, left, timer, page>>
  BY DEF profileVars
<1>2. Known' = Known /\ Known \in Account /\ Known.expires \in Int \cup {None}
  BY <1>1, KnownType DEF Known, ProfileTypes
<1>3. ProfileTypes'
  BY <1>1 DEF ProfileTypes
<1>4. TickSet'
  <2>1. CASE Known.expires = None
    BY <1>1, <1>2, <2>1 DEF TickSet
  <2>2. CASE Known.expires # None
    <3>1. timer \in now..(now + Minute) /\ left = Countdown(Known.expires, timer - Minute)
      BY <2>2 DEF TickSet
    <3>2. timer \in Int /\ now <= timer /\ timer <= now + Minute
      BY <3>1
    <3>3. now' <= timer /\ timer <= now' + Minute
      <4>1. CASE now' = now
        BY <3>2, <4>1
      <4>2. CASE now' = now + 1 /\ timer # now
        BY <3>2, <4>2
      <4> QED BY <4>1, <4>2
    <3>4. timer \in now'..(now' + Minute)
      <4>1. \A x, y, z \in Int : x <= y /\ y <= z => y \in x..z
        OBVIOUS
      <4>2. now' \in Int /\ now' + Minute \in Int
        OBVIOUS
      <4> QED BY <3>2, <3>3, <4>1, <4>2
    <3> QED BY <1>1, <1>2, <3>1, <3>4 DEF TickSet
  <2> QED BY <2>1, <2>2
<1>5. TileKnown'
  <2> SUFFICES ASSUME Drawing' PROVE TileKnown' BY DEF TileKnown
  <2>1. Drawing
    BY <1>1 DEF Drawing
  <2>2. PICK t \in Int, l \in Nat \cup {None} : TileOf(t, l)
    BY <2>1 DEF TileKnown
  <2>3. t <= now' /\ (Running(Known.expires, now') => Running(Known.expires, now))
    BY <1>2, <2>2 DEF TileOf, Running
  <2>4. /\ t <= now'
        /\ page'.tile = Tile(Known'.expires, DaysUntil(Known'.expires, t), l, Tier(Known'.expires, t))
        /\ Running(Known'.expires, now') => timer' - Minute <= t /\ l = left'
    BY <1>1, <1>2, <2>2, <2>3 DEF TileOf
  <2> QED BY <2>4 DEF TileKnown, TileOf
<1> QED BY <1>3, <1>4, <1>5

LEMMA ProfileSteps ==
    ASSUME AccountTypes, ProfileTypes, TickSet, TileKnown, ProfileNext
    PROVE  AccountTypes' /\ ProfileTypes' /\ TickSet' /\ TileKnown'
<1> USE MinuteIsPositive
<1>0. /\ now \in Nat /\ now \in Int /\ account \in Account
      /\ account.expires \in Int \cup {None}
      /\ Known \in Account /\ Known.expires \in Int \cup {None}
  <2>1. now \in Nat /\ now \in Int /\ account \in Account
    BY AccountAssumption DEF AccountTypes
  <2>2. account.expires \in Int \cup {None}
    BY <2>1, MomentIsInteger DEF Account
  <2> QED BY <2>1, <2>2, KnownType DEF ProfileTypes
<1>1. CASE MeOk
  <2>1. me' = account /\ asked' = "idle" /\ UNCHANGED <<now, account, user>> /\ Retime /\ Draw
    BY <1>1 DEF MeOk
  <2>2. Known' \in Account /\ Known'.expires \in Int \cup {None}
    BY <1>0, <2>1, MomentIsInteger DEF Known, ProfileTypes, Account
  <2>3. TickSet' /\ left' \in Nat \cup {None} /\ timer' \in Nat \cup {None}
    <3>1. CASE Known'.expires = Known.expires
      <4>1. UNCHANGED <<left, timer>>
        BY <2>1, <3>1 DEF Retime
      <4> QED BY <2>1, <3>1, <4>1 DEF TickSet, ProfileTypes
    <3>2. CASE Known'.expires # Known.expires /\ Known'.expires = None
      <4>1. timer' = None /\ UNCHANGED left
        BY <2>1, <3>2 DEF Retime
      <4> QED BY <3>2, <4>1 DEF TickSet, ProfileTypes
    <3>3. CASE Known'.expires # Known.expires /\ Known'.expires # None
      <4>1. left' = Countdown(Known'.expires, now) /\ timer' = now + Minute
        BY <2>1, <3>3 DEF Retime
      <4>2. timer' - Minute = now /\ timer' \in now'..(now' + Minute) /\ timer' \in Nat
        BY <1>0, <2>1, <4>1
      <4>3. left' \in Nat \cup {None}
        BY <1>0, <2>2, <4>1, CountdownType
      <4> QED BY <3>3, <4>1, <4>2, <4>3 DEF TickSet
    <3> QED BY <3>1, <3>2, <3>3
  <2>4. page' \in Page
    <3>1. CASE page' = Spinner
      BY <3>1, SpinnerType
    <3>2. CASE page' = Drawn(Known', left')
      BY <1>0, <2>2, <2>3, <3>2, DrawnPage
    <3> QED BY <2>1, <3>1, <3>2 DEF Draw
  <2>5. ProfileTypes'
    BY <1>0, <2>1, <2>3, <2>4 DEF ProfileTypes
  <2>6. TileKnown'
    BY <1>0, <2>1, <2>3, <2>5, DrawnIsKnown
  <2>7. AccountTypes'
    BY <2>1 DEF AccountTypes
  <2> QED BY <2>3, <2>5, <2>6, <2>7
<1>2. ASSUME UNCHANGED <<now, account, user, me>>, Draw, asked' \in {"idle", "asked", "failed"},
             TickSet', left' \in Nat \cup {None}, timer' \in Nat \cup {None}
      PROVE  AccountTypes' /\ ProfileTypes' /\ TickSet' /\ TileKnown'
  <2>1. Known' = Known
    BY <1>2 DEF Known
  <2>2. page' \in Page
    <3>1. CASE page' = Spinner
      BY <3>1, SpinnerType
    <3>2. CASE page' = Drawn(Known', left')
      BY <1>0, <1>2, <2>1, <3>2, DrawnPage
    <3> QED BY <1>2, <3>1, <3>2 DEF Draw
  <2>3. ProfileTypes'
    BY <1>2, <2>2 DEF ProfileTypes
  <2>4. TileKnown'
    BY <1>0, <1>2, <2>3, DrawnIsKnown
  <2> QED BY <1>2, <2>3, <2>4 DEF AccountTypes
<1>3. CASE MeFails \/ AskMe \/ Redraw
  <2>1. /\ UNCHANGED <<now, account, user, me, left, timer>> /\ Draw
        /\ asked' \in {asked, "asked", "failed"}
    BY <1>3 DEF MeFails, AskMe, Redraw
  <2>2. Known' = Known
    BY <2>1 DEF Known
  <2>3. TickSet'
    BY <2>1, <2>2 DEF TickSet
  <2> QED BY <1>2, <2>1, <2>3 DEF ProfileTypes
<1>4. CASE Ticks
  <2>1. /\ timer = now /\ left' = Countdown(Known.expires, now) /\ timer' = now + Minute
        /\ UNCHANGED <<now, account, user, me, asked>>
    BY <1>4 DEF Ticks
  <2>2. Known' = Known /\ Known.expires # None
    BY <1>0, <2>1 DEF Known, TickSet
  <2>3. left' \in Nat \cup {None} /\ (left' = None <=> ~Running(Known.expires, now))
    BY <1>0, <2>1, CountdownType
  <2>4. timer' - Minute = now /\ timer' \in now'..(now' + Minute) /\ timer' \in Nat
    BY <1>0, <2>1
  <2>5. TickSet'
    BY <2>1, <2>2, <2>4 DEF TickSet
  <2>6. CASE Draw
    BY <1>2, <2>1, <2>3, <2>4, <2>5, <2>6 DEF ProfileTypes
  <2>7. CASE left = None /\ left' = None /\ UNCHANGED page
    <3>1. ProfileTypes' /\ AccountTypes'
      BY <2>1, <2>3, <2>4, <2>7 DEF ProfileTypes, AccountTypes
    <3>2. TileKnown'
      <4> SUFFICES ASSUME Drawing' PROVE TileKnown' BY DEF TileKnown
      <4>1. PICK t \in Int, l \in Nat \cup {None} : TileOf(t, l)
        BY <2>7 DEF TileKnown, Drawing
      <4>2. ~Running(Known'.expires, now')
        BY <2>1, <2>2, <2>3, <2>7
      <4>3. /\ t <= now'
            /\ page'.tile = Tile(Known'.expires, DaysUntil(Known'.expires, t), l, Tier(Known'.expires, t))
        BY <2>1, <2>2, <2>7, <4>1 DEF TileOf
      <4> QED BY <4>2, <4>3 DEF TileKnown, TileOf
    <3> QED BY <2>5, <3>1, <3>2
  <2> QED BY <1>4, <2>6, <2>7 DEF Ticks
<1>5. CASE Passes
  <2>1. now < MaxTime /\ timer # now /\ now' = now + 1 /\ UNCHANGED account /\ UNCHANGED profileVars
    BY <1>5 DEF Passes
  <2>2. AccountTypes'
    BY <2>1, AccountAssumption DEF AccountTypes
  <2> QED BY <1>0, <2>1, <2>2, ProfileKept
<1>6. CASE AccountNext /\ UNCHANGED <<now, profileVars>>
  <2>1. now' = now /\ UNCHANGED profileVars
    BY <1>6
  <2>2. AccountTypes'
    BY <1>6, <2>1, AccountSteps DEF AccountTypes
  <2> QED BY <1>0, <2>1, <2>2, ProfileKept
<1> QED BY <1>1, <1>3, <1>4, <1>5, <1>6 DEF ProfileNext

-----------------------------------------------------------------------------
(* The two screens that show the account                                   *)

SharedInv == AccountTypes /\ FormInv /\ ProfileInv

LEMMA SharedInvariant == Spec => []SharedInv
<1>1. Init => SharedInv
  <2> SUFFICES ASSUME Init PROVE SharedInv OBVIOUS
  <2>1. AccountTypes /\ FormInv /\ now = 0
    BY AccountStarts, FormStarts DEF Init, AccountInit
  <2> QED BY <2>1, ProfileStarts DEF Init, SharedInv
<1>2. SharedInv /\ [Next]_vars => SharedInv'
  <2> SUFFICES ASSUME SharedInv, [Next]_vars PROVE SharedInv' OBVIOUS
  <2>0. AccountTypes /\ FormInv /\ ProfileInv /\ ProfileTypes /\ UNCHANGED screen
    BY Projection DEF SharedInv, ProfileInv
  <2>1. CASE screen = "profile" /\ ProfileNext /\ UNCHANGED formVars
    <3>1. TickSet /\ TileKnown
      BY <2>0, <2>1 DEF ProfileInv
    <3>2. AccountTypes' /\ ProfileTypes' /\ TickSet' /\ TileKnown'
      BY <2>0, <2>1, <3>1, ProfileSteps
    <3>3. FormInv'
      BY <2>0, <2>1 DEF formVars, FormInv, FormTypes, BaseKept
    <3> QED BY <2>0, <2>1, <3>2, <3>3 DEF SharedInv, ProfileInv
  <2>2. CASE screen = "user_form" /\ FormNext /\ UNCHANGED profileVars
    <3>1. AccountTypes' /\ FormInv'
      BY <2>0, <2>2, FormSteps
    <3>2. UNCHANGED <<me, asked, user, left, timer, page>>
      BY <2>2 DEF profileVars
    <3>3. ProfileTypes'
      BY <2>0, <3>2 DEF ProfileTypes
    <3>4. ProfileInv'
      BY <2>0, <2>2, <3>2, <3>3 DEF ProfileInv
    <3> QED BY <3>1, <3>4 DEF SharedInv
  <2>3. CASE UNCHANGED <<now, account, formVars, profileVars>>
    <3>1. UNCHANGED now /\ UNCHANGED account /\ UNCHANGED formVars /\ UNCHANGED profileVars
      BY <2>3
    <3>2. AccountTypes' /\ FormInv'
      BY <2>0, <3>1 DEF AccountTypes, formVars, FormInv, FormTypes, BaseKept
    <3>3. UNCHANGED <<me, asked, user, left, timer, page>>
      BY <3>1 DEF profileVars
    <3>4. ProfileTypes'
      BY <2>0, <3>3 DEF ProfileTypes
    <3>5. CASE screen = "profile"
      <4>1. TickSet /\ TileKnown /\ now \in Nat
        BY <2>0, <3>5, AccountAssumption DEF ProfileInv, AccountTypes
      <4>2. ProfileTypes' /\ TickSet' /\ TileKnown'
        BY <2>0, <3>1, <4>1, ProfileKept
      <4> QED BY <2>0, <3>2, <3>5, <4>2 DEF SharedInv, ProfileInv
    <3>6. CASE screen # "profile"
      BY <2>0, <3>2, <3>3, <3>4, <3>6 DEF SharedInv, ProfileInv
    <3> QED BY <3>5, <3>6
  <2> QED BY <2>1, <2>2, <2>3, Projection
<1> QED BY <1>1, <1>2, PTL DEF Spec

\* A form whose date was not typed takes no time away from an account that is as
\* it was when the form was opened, whether the browser writes the hour after
\* midnight as 0 or as 24 and wherever a summer time moves its clock:
\* toInputDatetimeLocal and fromInputDatetimeLocal lose less than a minute, the
\* schema stops a date that Date does not read, the button adds to the date.
THEOREM FormTakesNoTime == Spec => NoTimeTaken
<1>1. SharedInv /\ [Next]_vars
        => [/\ form.base # None /\ form.base = account.expires /\ form.by # "other"
            /\ Submit \/ SubmitFails
            => account'.expires # None
               /\ account'.expires >= FullMinute(form.base)]_<<account, form>>
  <2> SUFFICES ASSUME SharedInv, form.base # None, form.base = account.expires,
                      form.by # "other", Submit \/ SubmitFails
               PROVE  account'.expires # None /\ account'.expires >= FullMinute(form.base)
    OBVIOUS
  <2> USE TimeAssumption, AccountAssumption
  <2>1. /\ form \in Form /\ account \in Account /\ form.expires # None
        /\ Readable(form.expires) => FromInput(form.expires) >= FullMinute(form.base)
    BY DEF SharedInv, FormInv, FormTypes, BaseKept, AccountTypes
  <2>2. form.base \in Int
    BY <2>1 DEF Form, Moments
  <2>3. CASE account' = account
    <3>1. form.base % Minute \in 0..(Minute - 1)
      BY <2>2, QuotientRemainder
    <3>2. FullMinute(form.base) = form.base - (form.base % Minute)
      BY DEF FullMinute
    <3> QED BY <2>2, <2>3, <3>1, <3>2
  <2>4. CASE account' = Written(form)
    <3>1. account'.expires = FromInput(form.expires)
      BY <2>1, <2>4 DEF Written, Account
    <3>2. Readable(form.expires)
      BY <2>1 DEF Submit, SubmitFails, Saves, Valid
    <3>3. FromInput(form.expires) # None
      <4>1. form.expires.day \in Int /\ form.expires.minute \in Int
        BY <2>1, <3>2 DEF Form, Inputs, Readable
      <4>2. form.expires.day * Day + form.expires.minute * Minute - Offset \in Int
        BY <4>1
      <4> QED BY <3>2, <4>2 DEF FromInput
    <3> QED BY <2>1, <3>1, <3>2, <3>3
  <2>5. account' = account \/ account' = Written(form)
    BY DEF Submit, SubmitFails
  <2> QED BY <2>3, <2>4, <2>5
<1> QED BY <1>1, SharedInvariant, PTL DEF Spec, NoTimeTaken

\* What the pages say of the end of a running subscription is true, or was a
\* minute ago, in whatever order answers, ticks, payments and drawings come.
THEOREM PagesTellTheTime == Spec => []TileIsTrue
<1>1. SharedInv => TileIsTrue
  <2> SUFFICES ASSUME SharedInv PROVE TileIsTrue OBVIOUS
  <2> USE MinuteIsPositive
  <2>1. now \in Int /\ account.expires \in Int \cup {None}
    <3>1. now \in Int /\ account \in Account
      BY AccountAssumption DEF SharedInv, AccountTypes
    <3> QED BY <3>1, MomentIsInteger DEF Account
  <2>2. ListsAgree
    BY <2>1, SameLists DEF ListsAgree
  <2>3. CASE ~Drawing
    BY <2>2, <2>3 DEF TileIsTrue, TileTimely, TileNotEarly
  <2>4. CASE Drawing
    <3>1. ProfileTypes /\ TickSet /\ TileKnown
      BY <2>4, SpinnerType DEF SharedInv, ProfileInv, Drawing
    <3>2. Known.expires \in Int \cup {None}
      BY <3>1, KnownType DEF ProfileTypes
    <3>3. PICK t \in Int, l \in Nat \cup {None} : TileOf(t, l)
      BY <2>4, <3>1 DEF TileKnown
    <3>4. TileNotEarly
      <4>1. page.tile[1] = "ended" => Known.expires # None /\ Known.expires < t
        BY <3>2, <3>3, TileType DEF TileOf
      <4>2. Known.expires # None /\ Known.expires < t => Known.expires <= now
        BY <2>1, <3>2, <3>3 DEF TileOf
      <4> QED BY <4>1, <4>2 DEF TileNotEarly
    <3>5. ASSUME Running(Known.expires, now)
          PROVE  \E a, b \in Recent :
                    page.tile = Tile(Known.expires, DaysUntil(Known.expires, a),
                                     Countdown(Known.expires, b), Tier(Known.expires, a))
      <4>1. timer \in now..(now + Minute) /\ left = Countdown(Known.expires, timer - Minute)
        BY <3>1, <3>5 DEF TickSet, Running
      <4>2. t \in Recent /\ timer - Minute \in Recent
        BY <2>1, <3>3, <3>5, <4>1 DEF TileOf, Recent
      <4>3. page.tile = Tile(Known.expires, DaysUntil(Known.expires, t),
                             Countdown(Known.expires, timer - Minute), Tier(Known.expires, t))
        BY <3>3, <3>5, <4>1 DEF TileOf
      <4> QED BY <4>2, <4>3
    <3>6. TileTimely
      BY <3>5 DEF TileTimely
    <3> QED BY <2>2, <3>4, <3>6 DEF TileIsTrue
  <2> QED BY <2>3, <2>4
<1> QED BY <1>1, SharedInvariant, PTL

-----------------------------------------------------------------------------
(* The choice of a server                                                  *)

Consistent(st) == st.selected \in st.servers \cup {NoServer} /\ st.urls \subseteq st.servers

KeyTypes == live \subseteq Servers /\ store \in Store /\ run \in [Runs -> Run] /\ confused \in BOOLEAN

\* What a call that nobody has upset finds in the store: the choice it has read,
\* or one from its list, which is the list that is there.
AloneInStore(r) ==
    run[r].alone =>
        /\ run[r].at = "asked" => store.selected = run[r].snapshot
        /\ run[r].at = "listed" =>
              /\ store.servers = run[r].list
              /\ store.selected \in run[r].list \cup {NoServer, run[r].snapshot}

ListedInRun(r) ==
    /\ run[r].urls \subseteq run[r].list /\ run[r].waits \subseteq run[r].list
    /\ run[r].at # "listed" => run[r].list = {}

KeysInv ==
    /\ KeyTypes
    /\ \A r \in Runs : AloneInStore(r) /\ ListedInRun(r)
    /\ ~confused => Consistent(store)

LEMMA IdleRun == Idle \in Run /\ Idle.at = "idle" /\ Idle.urls = {} /\ Idle.list = {}
                 /\ Idle.waits = {}
BY DEF Idle, Run, Choice

LEMMA KeysStart == KeysInit => KeysInv
<1> SUFFICES ASSUME KeysInit PROVE KeysInv OBVIOUS
<1>1. \A r \in Runs : run[r] = Idle
  BY DEF KeysInit
<1>2. KeyTypes /\ Consistent(store)
  BY IdleRun DEF KeysInit, KeyTypes, Consistent
<1> QED BY <1>1, <1>2, IdleRun DEF KeysInv, AloneInStore, ListedInRun

\* A write to the store changes nothing of a call but whether it is alone.
LEMMA RunsAfter ==
    ASSUME run \in [Runs -> Run], NEW st
    PROVE  /\ After(st) \in [Runs -> Run]
           /\ \A r \in Runs :
                 /\ After(st)[r].at = run[r].at /\ After(st)[r].list = run[r].list
                 /\ After(st)[r].urls = run[r].urls /\ After(st)[r].waits = run[r].waits
                 /\ After(st)[r].snapshot = run[r].snapshot
                 /\ After(st)[r].alone <=> run[r].alone /\ ~Upset(r, st)
<1>1. \A r \in Runs : Upset(r, st) \in BOOLEAN
  BY DEF Upset
<1>2. \A r \in Runs : (run[r].alone /\ ~Upset(r, st)) \in BOOLEAN
  OBVIOUS
<1> QED BY <1>1, <1>2 DEF After, Run

\* The others, whoever has written to the store.
LEMMA OthersAfter ==
    ASSUME KeysInv, NEW st \in Store, NEW q \in Runs, store' = st, run'[q] = After(st)[q]
    PROVE  AloneInStore(q)' /\ ListedInRun(q)'
<1>1. run \in [Runs -> Run] /\ AloneInStore(q) /\ ListedInRun(q)
  BY DEF KeysInv, KeyTypes
<1>2. /\ run'[q].at = run[q].at /\ run'[q].list = run[q].list
      /\ run'[q].urls = run[q].urls /\ run'[q].waits = run[q].waits
      /\ run'[q].snapshot = run[q].snapshot
      /\ run'[q].alone => run[q].alone /\ ~Upset(q, st)
  BY <1>1, RunsAfter
<1>3. ListedInRun(q)'
  BY <1>1, <1>2 DEF ListedInRun
<1>4. AloneInStore(q)'
  BY <1>1, <1>2 DEF AloneInStore, Upset
<1> QED BY <1>3, <1>4

\* The store after the last answer, of a call that was not upset.
LEMMA SettledStore ==
    ASSUME KeysInv, NEW r \in Runs, run[r].at = "listed", run[r].alone,
           NEW s \in Choose(r)
    PROVE  Consistent([store EXCEPT !.urls = run[r].urls, !.selected = s])
<1>1. /\ store \in Store /\ store.servers = run[r].list
      /\ store.selected \in run[r].list \cup {NoServer, run[r].snapshot}
      /\ run[r].urls \subseteq run[r].list
  BY DEF KeysInv, KeyTypes, AloneInStore, ListedInRun
<1>2. s \in run[r].list \cup {NoServer}
  BY <1>1 DEF Choose, FirstOf
<1> DEFINE st == [store EXCEPT !.urls = run[r].urls, !.selected = s]
<1>3. st.servers = store.servers /\ st.urls = run[r].urls /\ st.selected = s
  BY <1>1 DEF Store
<1> QED BY <1>1, <1>2, <1>3 DEF Consistent

LEMMA KeysSteps == KeysInv /\ [KeysNext]_keyVars => KeysInv'
<1> SUFFICES ASSUME KeysInv, [KeysNext]_keyVars PROVE KeysInv' OBVIOUS
<1>0. /\ live \subseteq Servers /\ store \in Store /\ run \in [Runs -> Run] /\ confused \in BOOLEAN
      /\ \A r \in Runs : AloneInStore(r) /\ ListedInRun(r) /\ run[r] \in Run
      /\ ~confused => Consistent(store)
  BY DEF KeysInv, KeyTypes
<1>1. ASSUME NEW r \in Runs, Begin(r) PROVE KeysInv'
  <2> DEFINE new == [Idle EXCEPT !.at = "asked", !.snapshot = store.selected]
  <2>1. run' = [run EXCEPT ![r] = new] /\ UNCHANGED <<live, store, confused>>
    BY <1>1 DEF Begin
  <2>2. /\ new \in Run /\ new.at = "asked" /\ new.snapshot = store.selected
        /\ new.urls = {} /\ new.waits = {} /\ new.list = {}
    BY <1>0, IdleRun DEF Run, Store
  <2> HIDE DEF new
  <2>3. run' \in [Runs -> Run] /\ run'[r] = new /\ \A q \in Runs : q # r => run'[q] = run[q]
    BY <1>0, <2>1, <2>2
  <2>4. AloneInStore(r)' /\ ListedInRun(r)'
    BY <2>1, <2>2, <2>3 DEF AloneInStore, ListedInRun
  <2>5. \A q \in Runs \ {r} : AloneInStore(q)' /\ ListedInRun(q)'
    BY <1>0, <2>1, <2>3 DEF AloneInStore, ListedInRun
  <2> QED BY <1>0, <2>1, <2>3, <2>4, <2>5 DEF KeysInv, KeyTypes
<1>2. ASSUME NEW r \in Runs, Listed(r) PROVE KeysInv'
  <2> DEFINE new == [run[r] EXCEPT !.at = "listed", !.list = live, !.waits = live]
             st == [store EXCEPT !.servers = live]
  <2>1. /\ run[r].at = "asked" /\ store' = st /\ run' = [After(st) EXCEPT ![r] = new]
        /\ confused' = TRUE /\ UNCHANGED live
    BY <1>2 DEF Listed
  <2>2. /\ new \in Run /\ new.at = "listed" /\ new.list = live /\ new.waits = live
        /\ new.urls = run[r].urls /\ new.snapshot = run[r].snapshot /\ new.alone = run[r].alone
    BY <1>0 DEF Run
  <2>3. st \in Store /\ st.servers = live /\ st.selected = store.selected
    BY <1>0 DEF Store
  <2> HIDE DEF new, st
  <2>4. run' \in [Runs -> Run] /\ run'[r] = new /\ \A q \in Runs : q # r => run'[q] = After(st)[q]
    BY <1>0, <2>1, <2>2, RunsAfter
  <2>5. KeyTypes'
    BY <1>0, <2>1, <2>3, <2>4 DEF KeyTypes
  <2>6. AloneInStore(r)' /\ ListedInRun(r)'
    BY <1>0, <2>1, <2>2, <2>3, <2>4 DEF AloneInStore, ListedInRun
  <2>7. \A q \in Runs \ {r} : AloneInStore(q)' /\ ListedInRun(q)'
    BY <2>1, <2>3, <2>4, OthersAfter
  <2> QED BY <2>1, <2>5, <2>6, <2>7 DEF KeysInv
<1>3. ASSUME NEW r \in Runs, ListLost(r) PROVE KeysInv'
  <2>1. run' = [run EXCEPT ![r] = Idle] /\ UNCHANGED <<live, store, confused>>
    BY <1>3 DEF ListLost
  <2>2. run' \in [Runs -> Run] /\ run'[r] = Idle /\ \A q \in Runs : q # r => run'[q] = run[q]
    BY <1>0, <2>1, IdleRun
  <2>3. AloneInStore(r)' /\ ListedInRun(r)'
    BY <2>2, IdleRun DEF AloneInStore, ListedInRun
  <2>4. \A q \in Runs \ {r} : AloneInStore(q)' /\ ListedInRun(q)'
    BY <1>0, <2>1, <2>2 DEF AloneInStore, ListedInRun
  <2> QED BY <1>0, <2>1, <2>2, <2>3, <2>4 DEF KeysInv, KeyTypes
<1>4. ASSUME NEW r \in Runs, NEW s \in Servers, UrlServed(r, s) PROVE KeysInv'
  <2>1. PICK got \in {{}, {s}} :
            run' = [run EXCEPT ![r].waits = @ \ {s}, ![r].urls = @ \cup got]
    BY <1>4 DEF UrlServed
  <2> DEFINE new == [run[r] EXCEPT !.waits = @ \ {s}, !.urls = @ \cup got]
  <2>2. /\ new \in Run /\ new.at = run[r].at /\ new.list = run[r].list
        /\ new.waits = run[r].waits \ {s} /\ new.urls = run[r].urls \cup got
        /\ new.snapshot = run[r].snapshot /\ new.alone = run[r].alone
    BY <1>0 DEF Run
  <2>3. run' = [run EXCEPT ![r] = new]
    BY <1>0, <2>1
  <2>4. s \in run[r].waits /\ UNCHANGED <<live, store, confused>>
    BY <1>4 DEF UrlServed
  <2> HIDE DEF new
  <2>5. run' \in [Runs -> Run] /\ run'[r] = new /\ \A q \in Runs : q # r => run'[q] = run[q]
    BY <1>0, <2>2, <2>3
  <2>6. KeyTypes'
    BY <1>0, <2>4, <2>5 DEF KeyTypes
  <2>7. AloneInStore(r)'
    BY <1>0, <2>2, <2>4, <2>5 DEF AloneInStore
  <2>8. ListedInRun(r)'
    BY <1>0, <2>2, <2>4, <2>5 DEF ListedInRun
  <2>9. \A q \in Runs \ {r} : AloneInStore(q)' /\ ListedInRun(q)'
    BY <1>0, <2>2, <2>4, <2>5 DEF AloneInStore, ListedInRun
  <2> QED BY <1>0, <2>4, <2>6, <2>7, <2>8, <2>9 DEF KeysInv
<1>5. ASSUME NEW r \in Runs, Settled(r) PROVE KeysInv'
  <2>1. PICK s \in Choose(r) : store' = [store EXCEPT !.urls = run[r].urls, !.selected = s]
    BY <1>5 DEF Settled
  <2> DEFINE st == [store EXCEPT !.urls = run[r].urls, !.selected = s]
  <2>2. /\ run[r].at = "listed" /\ store' = st /\ run' = [After(st) EXCEPT ![r] = Idle]
        /\ confused' = ~run[r].alone /\ UNCHANGED live
    BY <1>5, <2>1 DEF Settled
  <2>3. st \in Store
    <3>1. s \in Choice /\ run[r].urls \subseteq Servers
      BY <1>0 DEF Choose, FirstOf, Run, Choice, Store
    <3> QED BY <1>0, <3>1 DEF Store
  <2>4. run[r].alone => Consistent(st)
    BY <2>2, SettledStore
  <2>5. run[r].alone \in BOOLEAN
    BY <1>0 DEF Run
  <2> HIDE DEF st
  <2>6. run' \in [Runs -> Run] /\ run'[r] = Idle /\ \A q \in Runs : q # r => run'[q] = After(st)[q]
    BY <1>0, <2>2, RunsAfter, IdleRun
  <2>7. KeyTypes'
    BY <1>0, <2>2, <2>3, <2>5, <2>6 DEF KeyTypes
  <2>8. AloneInStore(r)' /\ ListedInRun(r)'
    BY <2>6, IdleRun DEF AloneInStore, ListedInRun
  <2>9. \A q \in Runs \ {r} : AloneInStore(q)' /\ ListedInRun(q)'
    BY <2>2, <2>3, <2>6, OthersAfter
  <2>10. (~confused => Consistent(store))'
    BY <2>2, <2>4 DEF Consistent
  <2> QED BY <2>7, <2>8, <2>9, <2>10 DEF KeysInv
<1>6. ASSUME NEW st \in Store, store' = st, run' = After(st), UNCHANGED live,
             confused' \in BOOLEAN, ~confused' => Consistent(st)
      PROVE  KeysInv'
  <2>1. KeyTypes'
    BY <1>0, <1>6, RunsAfter DEF KeyTypes
  <2>2. \A r \in Runs : AloneInStore(r)' /\ ListedInRun(r)'
    BY <1>6, OthersAfter
  <2> QED BY <1>6, <2>1, <2>2 DEF KeysInv, Consistent
<1>7. ASSUME NEW s \in Servers, Select(s) PROVE KeysInv'
  <2> DEFINE st == [store EXCEPT !.selected = s]
  <2>1. /\ s \in store.servers /\ store' = st
        /\ run' = After(st) /\ UNCHANGED <<live, confused>>
    BY <1>7 DEF Select
  <2>2. st \in Store /\ st.selected = s /\ st.servers = store.servers /\ st.urls = store.urls
    BY <1>0, <2>1 DEF Store, Choice
  <2> HIDE DEF st
  <2>3. ~confused' => Consistent(st)
    BY <1>0, <2>1, <2>2 DEF Consistent
  <2> QED BY <1>0, <1>6, <2>1, <2>2, <2>3
<1>8. CASE ClearServer
  <2>1. store' = NoStore /\ run' = After(NoStore) /\ confused' = FALSE /\ UNCHANGED live
    BY <1>8 DEF ClearServer
  <2>2. NoStore \in Store /\ Consistent(NoStore)
    BY DEF NoStore, Store, Choice, Consistent
  <2> QED BY <1>6, <2>1, <2>2
<1>9. CASE Restart
  <2>1. run' = [r \in Runs |-> Idle] /\ UNCHANGED <<live, store, confused>>
    BY <1>9 DEF Restart
  <2>2. KeyTypes' /\ \A r \in Runs : run'[r] = Idle
    BY <1>0, <2>1, IdleRun DEF KeyTypes
  <2>3. \A r \in Runs : AloneInStore(r)' /\ ListedInRun(r)'
    BY <2>2, IdleRun DEF AloneInStore, ListedInRun
  <2> QED BY <1>0, <2>1, <2>2, <2>3 DEF KeysInv
<1>10. CASE Administered \/ UNCHANGED keyVars
  <2>1. live' \subseteq Servers /\ UNCHANGED <<store, run, confused>>
    BY <1>0, <1>10 DEF Administered, keyVars
  <2> QED BY <1>0, <2>1 DEF KeysInv, KeyTypes, AloneInStore, ListedInRun
<1> QED BY <1>1, <1>2, <1>3, <1>4, <1>5, <1>7, <1>8, <1>9, <1>10 DEF KeysNext

\* Any number of calls of initServerData may overlap, with clicks and logouts
\* between: once one has ended that found in the store the choice it had read, or
\* one of its list, the card shows a server of the list or none.  A choice that
\* changed before the list came is not judged (useServers.ts:199), nor is it here.
THEOREM ChoiceIsOnTheList == Spec => []SelectedIsListed
<1>1. Init => KeysInv
  BY KeysStart DEF Init
<1>2. KeysInv /\ [Next]_vars => KeysInv'
  BY Projection, KeysSteps
<1>3. KeysInv => SelectedIsListed
  BY DEF KeysInv, Consistent, SelectedIsListed
<1> QED BY <1>1, <1>2, <1>3, PTL DEF Spec

-----------------------------------------------------------------------------
(* The payment card                                                        *)

Live(o) == order[o] \in {"asking", "payable"}

\* While nobody has hurried, the only order that Lava is asked for is the one
\* the button waits for, and it is asked for when there is no other to pay.
OneOnItsWay ==
    ~hurried =>
        /\ \A o \in Orders : order[o] = "asking" => button = [at |-> "asking", order |-> o]
        /\ \A o, p \in Orders : Live(o) /\ Live(p) => o = p

CardInv == order \in [Orders -> Stages] /\ OneOnItsWay

LEMMA CardStarts == CardInit => CardInv
BY DEF CardInit, CardInv, OneOnItsWay, Live, Stages

\* Orders only end: nobody asks Lava who did not before.
LEMMA OrdersEnd ==
    ASSUME CardInv, order' \in [Orders -> Stages],
           \A o \in Orders : order'[o] = order[o] \/ order'[o] = "over",
           hurried' \/ ~hurried, hurried' \/ button' = button
    PROVE  CardInv'
<1>1. \A o \in Orders : /\ (order'[o] = "asking" => order[o] = "asking")
                        /\ Live(o)' => Live(o)
  BY DEF Live
<1> QED BY <1>1 DEF CardInv, OneOnItsWay

LEMMA CardSteps == CardInv /\ [CardNext]_cardVars => CardInv'
<1> SUFFICES ASSUME CardInv, [CardNext]_cardVars PROVE CardInv' OBVIOUS
<1>0. order \in [Orders -> Stages] /\ OneOnItsWay
  BY DEF CardInv
\* What the button does when Lava is not asked for anything.
<1>1. ASSUME UNCHANGED order, hurried' \/ ~hurried,
             hurried' \/ button' = button \/ button.at # "asking"
      PROVE  CardInv'
  <2>1. button.at # "asking" /\ ~hurried => \A o \in Orders : order[o] # "asking"
    BY <1>0 DEF OneOnItsWay
  <2> QED BY <1>0, <1>1, <2>1 DEF CardInv, OneOnItsWay, Live
<1>2. CASE ReadsOrder
  BY <1>1, <1>2 DEF ReadsOrder
<1>3. CASE Continue
  BY <1>1, <1>3 DEF Continue
<1>4. CASE Pay
  BY <1>1, <1>4 DEF Pay, NotSent
<1>5. CASE Created
  <2>1. button.at = "sent" /\ UNCHANGED hurried
    BY <1>5 DEF Created
  <2>2. CASE UNCHANGED order
    BY <1>1, <2>1, <2>2
  <2>3. CASE Existing = {} /\ \E o \in Orders : order' = [order EXCEPT ![o] = "asking"]
                                             /\ button' = [at |-> "asking", order |-> o]
    <3>1. PICK o \in Orders : /\ order' = [order EXCEPT ![o] = "asking"]
                              /\ button' = [at |-> "asking", order |-> o]
      BY <2>3
    <3>2. ~hurried => \A p \in Orders : ~Live(p)
      BY <1>0, <2>1, <2>3 DEF OneOnItsWay, Live, Existing, Payable
    <3>3. order' \in [Orders -> Stages] /\ order'[o] = "asking"
          /\ \A p \in Orders : p # o => order'[p] = order[p]
      BY <1>0, <3>1 DEF Stages
    <3> QED BY <2>1, <3>1, <3>2, <3>3 DEF CardInv, OneOnItsWay, Live
  <2> QED BY <1>5, <2>2, <2>3 DEF Created
<1>6. ASSUME NEW o \in Orders, LavaAnswers(o) PROVE CardInv'
  <2>1. PICK stage \in {"payable", "pageless", "over"} : order' = [order EXCEPT ![o] = stage]
    BY <1>6 DEF LavaAnswers
  <2>2. order[o] = "asking" /\ UNCHANGED hurried
    BY <1>6 DEF LavaAnswers
  <2>3. order' \in [Orders -> Stages] /\ order'[o] = stage
        /\ \A p \in Orders : p # o => order'[p] = order[p]
    BY <1>0, <2>1 DEF Stages
  <2>4. ~hurried => \A p \in Orders : p # o => ~Live(p)
    BY <1>0, <2>2 DEF OneOnItsWay, Live
  <2> QED BY <2>2, <2>3, <2>4 DEF CardInv, OneOnItsWay, Live
<1>7. CASE CreateEnds
  BY <1>1, <1>7 DEF CreateEnds
<1>8. CASE Back
  BY <1>1, <1>8 DEF Back
<1>9. CASE LoadAgain
  BY <1>1, <1>9 DEF LoadAgain
<1>10. ASSUME NEW o \in Orders, Paid(o) PROVE CardInv'
  BY <1>0, <1>10, OrdersEnd DEF Paid, Stages
<1>11. CASE Lapses
  BY <1>0, <1>11, OrdersEnd DEF Lapses, Stages, PendingOrders
<1>12. CASE UNCHANGED cardVars
  BY <1>1, <1>12 DEF cardVars
<1> QED BY <1>2, <1>3, <1>4, <1>5, <1>6, <1>7, <1>8, <1>9, <1>10, <1>11, <1>12 DEF CardNext

\* However many orders there may be, whoever waits for the button has at most
\* one that can be paid or is about to: it is disabled while Lava is asked, and
\* create_sbp_payment gives the invoice there is.
THEOREM ButtonMakesOneInvoice == Spec => []OneInvoice
<1>1. Init => CardInv
  BY CardStarts DEF Init
<1>2. CardInv /\ [Next]_vars => CardInv'
  BY Projection, CardSteps
<1>3. CardInv => OneInvoice
  <2> SUFFICES ASSUME CardInv, ~hurried
               PROVE  Cardinality({o \in Orders : order[o] \in {"asking", "payable"}}) <= 1
    BY DEF OneInvoice
  <2> DEFINE S == {o \in Orders : order[o] \in {"asking", "payable"}}
  <2>1. \A x, y \in S : x = y
    BY DEF CardInv, OneOnItsWay, Live
  <2> HIDE DEF S
  <2>2. Cardinality(S) <= 1
    BY <2>1, AtMostOne
  <2> QED BY <2>2 DEF S
<1> QED BY <1>1, <1>2, <1>3, PTL DEF Spec

\* What the card shows and the button waits for.
CardTypes == order \in [Orders -> Stages] /\ card \in Card /\ button \in Sent

LEMMA LatestIsThere ==
    ASSUME NEW S \in SUBSET Orders, S # {}
    PROVE  Latest(S) \in S
<1>0. IsFiniteSet(S) /\ S \subseteq Nat
  BY CardAssumption, FS_Subset
<1> DEFINE P == {T \in SUBSET S : T = {} \/ \E m \in T : \A p \in T : p <= m}
<1>1. P \in SUBSET (SUBSET S) /\ {} \in P
  OBVIOUS
<1>2. ASSUME NEW T \in SUBSET S, T # {}, \A x \in T : T \ {x} \in P
      PROVE  T \in P
  <2>1. PICK x \in T : TRUE
    BY <1>2
  <2>2. (\A p \in T : p \in Nat) /\ T \ {x} \in P
    BY <1>0, <1>2
  <2>3. CASE T \ {x} = {}
    <3>1. \A p \in T : p = x
      BY <2>3
    <3>2. \A p \in T : p <= x
      BY <2>2, <3>1
    <3> QED BY <3>2
  <2>4. CASE T \ {x} # {}
    <3>1. PICK m \in T : \A p \in T \ {x} : p <= m
      BY <2>2, <2>4
    <3>2. \A p \in T : p = x \/ p <= m
      BY <3>1
    <3>3. CASE x <= m
      BY <3>2, <3>3
    <3>4. CASE ~(x <= m)
      <4>1. \A p \in T : p <= x
        BY <2>2, <3>2, <3>4
      <4> QED BY <4>1
    <3> QED BY <3>3, <3>4
  <2> QED BY <2>3, <2>4
<1> HIDE DEF P
<1>3. S \in P
  <2>1. IsFiniteSet(S) /\ P \in SUBSET SUBSET S /\ {} \in P
    BY <1>0, <1>1
  <2>2. \A T \in SUBSET S : T # {} /\ (\A x \in T : T \ {x} \in P) => T \in P
    BY <1>2, Zenon
  <2>3. \A T \in SUBSET S : T \in P
    BY <2>1, <2>2, SubsetInduction, Zenon
  <2>4. S \in SUBSET S
    OBVIOUS
  <2> QED BY <2>3, <2>4, Zenon
<1>4. \E m \in S : \A p \in S : p <= m
  BY <1>3 DEF P
<1> QED BY <1>4 DEF Latest

LEMMA SentFacts ==
    /\ NotSent \in Sent /\ [NotSent EXCEPT !.at = "sent"] \in Sent
    /\ [NotSent EXCEPT !.at = "error"] \in Sent
    /\ \A o \in Orders, at \in {"asking", "page"} : [at |-> at, order |-> o] \in Sent
    /\ \A b \in Sent : b.order \in Orders => [b EXCEPT !.at = "page"] \in Sent
BY CardAssumption DEF NotSent, Sent

LEMMA CardTypesKept == CardTypes /\ [CardNext]_cardVars => CardTypes'
<1> SUFFICES ASSUME CardTypes, [CardNext]_cardVars PROVE CardTypes' OBVIOUS
<1>0. order \in [Orders -> Stages] /\ card \in Card /\ button \in Sent /\ NoOrder \in Card
  BY DEF CardTypes, Card
<1> USE DEF CardTypes
<1>1. CASE ReadsOrder
  <2>1. CurrentOrder \in Card
    <3>1. CASE PendingOrders = {}
      BY <1>0, <3>1 DEF CurrentOrder
    <3>2. CASE PendingOrders # {}
      <4>1. Latest(PendingOrders) \in Orders
        BY <3>2, LatestIsThere DEF PendingOrders
      <4> QED BY <3>2, <4>1 DEF CurrentOrder, Card
    <3> QED BY <3>1, <3>2
  <2> QED BY <1>0, <1>1, <2>1 DEF ReadsOrder
<1>2. CASE Continue
  BY <1>0, <1>2 DEF Continue
<1>3. CASE Pay
  BY <1>0, <1>3, SentFacts DEF Pay
<1>4. CASE Created
  <2>1. CASE Fails /\ UNCHANGED order
    BY <1>0, <1>4, <2>1, SentFacts DEF Created, Fails
  <2>2. CASE Existing # {} /\ button' = [at |-> "page", order |-> Latest(Existing)]
             /\ UNCHANGED order
    <3>1. Latest(Existing) \in Orders
      BY <2>2, LatestIsThere DEF Existing, Payable
    <3> QED BY <1>0, <1>4, <2>2, <3>1, SentFacts DEF Created
  <2>3. CASE \E o \in Orders : order' = [order EXCEPT ![o] = "asking"]
                               /\ button' = [at |-> "asking", order |-> o]
    <3>1. PICK o \in Orders : order' = [order EXCEPT ![o] = "asking"]
                              /\ button' = [at |-> "asking", order |-> o]
      BY <2>3
    <3>2. order' \in [Orders -> Stages]
      BY <1>0, <3>1 DEF Stages
    <3> QED BY <1>0, <1>4, <3>1, <3>2, SentFacts DEF Created
  <2> QED BY <1>4, <2>1, <2>2, <2>3 DEF Created
<1>5. ASSUME NEW o \in Orders, LavaAnswers(o) PROVE CardTypes'
  <2>1. PICK stage \in {"payable", "pageless", "over"} :
           /\ order' = [order EXCEPT ![o] = stage]
           /\ IF button.order # o THEN UNCHANGED button
              ELSE IF stage = "payable" THEN button' = [button EXCEPT !.at = "page"] ELSE Fails
    BY <1>5 DEF LavaAnswers
  <2>2. order' \in [Orders -> Stages] /\ UNCHANGED card
    BY <1>0, <1>5, <2>1 DEF Stages, LavaAnswers
  <2>3. CASE button.order # o
    BY <1>0, <2>1, <2>2, <2>3
  <2>4. CASE button.order = o
    <3>1. button' = [button EXCEPT !.at = "page"] \/ Fails
      BY <2>1, <2>4
    <3> QED BY <1>0, <2>2, <2>4, <3>1, SentFacts DEF Fails
  <2> QED BY <2>3, <2>4
<1>6. CASE CreateEnds
  BY <1>0, <1>6, SentFacts DEF CreateEnds
<1>7. CASE Back
  BY <1>0, <1>7 DEF Back
<1>8. CASE LoadAgain
  BY <1>0, <1>8, SentFacts DEF LoadAgain
<1>9. ASSUME NEW o \in Orders, Paid(o) PROVE CardTypes'
  BY <1>0, <1>9 DEF Paid, Stages
<1>10. CASE Lapses
  BY <1>0, <1>10 DEF Lapses, Stages
<1>11. CASE UNCHANGED cardVars
  BY <1>0, <1>11 DEF cardVars
<1> QED BY <1>1, <1>2, <1>3, <1>4, <1>5, <1>6, <1>7, <1>8, <1>9, <1>10, <1>11 DEF CardNext

LEMMA CardTypesStart == CardInit => CardTypes
BY SentFacts DEF CardInit, CardTypes, Card, Stages

-----------------------------------------------------------------------------
(* Live updates                                                            *)

Alive == There \cup Waiting

\* While no token is replaced under a socket: one socket, or one timer that will
\* open it, and the refs know it; none once the hook is unmounted.
OneAlive ==
    ~swapped =>
        IF mounted
        THEN /\ \A s, t \in Alive : s = t
             /\ starting => Alive = {}
             /\ \A s \in Opened : current = s
             /\ \A s \in Waiting : retry = s
        ELSE Opened = {} /\ Waiting = {}

LiveTypes ==
    /\ socket \in [Sockets -> Socket] /\ token \in Tokens /\ delay \in FirstDelay..LastDelay
    /\ current \in Sockets \cup {NoSocket} /\ retry \in Sockets \cup {NoSocket}
    /\ mounted \in BOOLEAN /\ guard \in BOOLEAN /\ starting \in BOOLEAN
    /\ renewing \in BOOLEAN /\ swapped \in BOOLEAN

LiveInv ==
    /\ LiveTypes
    /\ guard <=> ~mounted
    /\ ~mounted => ~starting
    /\ NeverStranded
    /\ OneAlive

LEMMA LiveStarts == LiveInit => LiveInv
<1> SUFFICES ASSUME LiveInit PROVE LiveInv OBVIOUS
<1>1. /\ socket \in [Sockets -> Socket] /\ mounted = TRUE /\ guard = FALSE /\ starting = TRUE
      /\ \A s \in Sockets : socket[s].at = "none"
  BY DEF LiveInit, Socket
<1>2. There = {} /\ Waiting = {} /\ Opened = {}
  BY <1>1 DEF There, Waiting, Opened
<1>3. LiveTypes
  <2>1. delay = FirstDelay /\ FirstDelay \in FirstDelay..LastDelay
    BY LiveAssumption DEF LiveInit
  <2>2. token \in Tokens /\ current = NoSocket /\ retry = NoSocket
        /\ renewing = FALSE /\ swapped = FALSE
    BY DEF LiveInit
  <2> QED BY <1>1, <2>1, <2>2 DEF LiveTypes
<1> QED BY <1>1, <1>2, <1>3 DEF LiveInv, NeverStranded, OneAlive, Alive

LEMMA CleanedSockets ==
    ASSUME socket \in [Sockets -> Socket]
    PROVE  /\ Cleaned \in [Sockets -> Socket]
           /\ \A s \in Sockets :
                Cleaned[s].at = IF s = retry /\ socket[s].at = "waiting" THEN "none"
                                ELSE IF s = current /\ s \in There THEN "closing"
                                ELSE socket[s].at
<1> SUFFICES ASSUME NEW s \in Sockets
             PROVE  /\ Cleaned[s] \in Socket
                    /\ Cleaned[s].at = IF s = retry /\ socket[s].at = "waiting" THEN "none"
                                       ELSE IF s = current /\ s \in There THEN "closing"
                                       ELSE socket[s].at
  BY DEF Cleaned
<1> DEFINE at == CASE s = retry /\ socket[s].at = "waiting" -> "none"
                   [] s = current /\ s \in There -> "closing"
                   [] OTHER -> socket[s].at
<1>1. Cleaned[s] = [socket[s] EXCEPT !.at = at]
  BY DEF Cleaned
<1>2. socket[s] \in Socket
  OBVIOUS
<1>3. s \in There => socket[s].at # "waiting"
  BY DEF There
<1>4. at = IF s = retry /\ socket[s].at = "waiting" THEN "none"
           ELSE IF s = current /\ s \in There THEN "closing"
           ELSE socket[s].at
  BY <1>3
<1>5. at \in {"none", "connecting", "open", "closing", "waiting"}
  BY <1>2, <1>4 DEF Socket
<1> HIDE DEF at
<1> QED BY <1>1, <1>2, <1>4, <1>5 DEF Socket

\* The cleanup ends or closes everything that the refs know.
LEMMA CleanedUp ==
    ASSUME LiveInv, socket' = Cleaned
    PROVE  /\ socket' \in [Sockets -> Socket]
           /\ \A s \in Opened' : s \in Opened /\ s # current
           /\ \A s \in Waiting' : s \in Waiting /\ s # retry
           /\ \A s \in There' : s \in There
<1>1. socket \in [Sockets -> Socket]
  BY DEF LiveInv, LiveTypes
<1> QED BY <1>1, CleanedSockets DEF Opened, Waiting, There

LEMMA TokenReplaced ==
    ASSUME LiveInv, mounted, NewToken, renewing' \in BOOLEAN
    PROVE  LiveInv'
<1>1. /\ socket' = Cleaned /\ guard' = FALSE /\ starting' = TRUE /\ mounted' = mounted
      /\ swapped' = (swapped \/ There # {})
  BY DEF NewToken
<1>2. /\ socket' \in [Sockets -> Socket]
      /\ \A s \in Opened' : s \in Opened
      /\ \A s \in Waiting' : s \in Waiting /\ s # retry
      /\ \A s \in There' : s \in There
  BY <1>1, CleanedUp
<1>3. NeverStranded'
  BY <1>1 DEF NeverStranded
<1>4. ASSUME ~swapped' PROVE There' = {} /\ Waiting' = {} /\ Opened' = {}
  <2>1. There = {} /\ ~swapped
    BY <1>1, <1>4
  <2>2. \A s \in Waiting : retry = s
    BY <2>1 DEF LiveInv, OneAlive
  <2>3. Opened \subseteq There
    BY DEF Opened, There
  <2> QED BY <1>2, <2>1, <2>2, <2>3
<1>5. OneAlive'
  BY <1>1, <1>4 DEF OneAlive, Alive
<1>6. LiveTypes'
  BY <1>1, <1>2, LiveAssumption DEF NewToken, LiveInv, LiveTypes
<1> QED BY <1>1, <1>3, <1>5, <1>6 DEF LiveInv

LEMMA HookUnmounted ==
    ASSUME LiveInv, mounted, Unmount, renewing' \in BOOLEAN
    PROVE  LiveInv'
<1>1. /\ socket' = Cleaned /\ guard' = TRUE /\ starting' = FALSE /\ mounted' = FALSE
      /\ swapped' = swapped
  BY DEF Unmount
<1>2. /\ socket' \in [Sockets -> Socket]
      /\ \A s \in Opened' : s \in Opened /\ s # current
      /\ \A s \in Waiting' : s \in Waiting /\ s # retry
  BY <1>1, CleanedUp
<1>3. OneAlive'
  BY <1>1, <1>2 DEF OneAlive, LiveInv
<1>4. LiveTypes'
  BY <1>1, <1>2, LiveAssumption DEF Unmount, LiveInv, LiveTypes
<1> QED BY <1>1, <1>3, <1>4 DEF LiveInv, NeverStranded

\* One socket moves and the others stay where they are.
Moves(s, to) == /\ socket' \in [Sockets -> Socket] /\ socket'[s].at = to
                /\ \A t \in Sockets : t # s => socket'[t] = socket[t]

LEMMA SocketMoved ==
    ASSUME NEW s \in Sockets, NEW to, Moves(s, to)
    PROVE  /\ \A t \in Sockets : t # s => /\ t \in There' <=> t \in There
                                          /\ t \in Opened' <=> t \in Opened
                                          /\ t \in Waiting' <=> t \in Waiting
           /\ s \in There' <=> to \in {"connecting", "open", "closing"}
           /\ s \in Opened' <=> to \in {"connecting", "open"}
           /\ s \in Waiting' <=> to = "waiting"
BY DEF Moves, There, Opened, Waiting

LEMMA Connects ==
    ASSUME LiveInv, NEW s \in Sockets, NEW t \in Tokens, Connect(s, t)
    PROVE  Moves(s, "connecting") /\ current' = s
<1>1. [at |-> "connecting", token |-> t] \in Socket
  BY DEF Socket
<1> QED BY <1>1 DEF Connect, Moves, LiveInv, LiveTypes

LEMMA MovesOnly ==
    ASSUME LiveInv, NEW s \in Sockets, NEW to \in {"none", "open", "closing", "waiting"},
           socket' = [socket EXCEPT ![s].at = to]
    PROVE  Moves(s, to)
BY DEF LiveInv, LiveTypes, Moves, Socket

LEMMA LiveSteps == LiveInv /\ [LiveNext]_liveVars => LiveInv'
<1> SUFFICES ASSUME LiveInv, [LiveNext]_liveVars PROVE LiveInv' OBVIOUS
<1> USE LiveAssumption
<1>0. /\ LiveTypes /\ (guard <=> ~mounted) /\ (~mounted => ~starting)
      /\ NeverStranded /\ OneAlive
      /\ Opened \subseteq There /\ Alive = There \cup Waiting
      /\ There \subseteq Sockets /\ Waiting \subseteq Sockets
  BY DEF LiveInv, Opened, There, Alive, Waiting
\* A step that touches none of the hook's flags.
<1>1. ASSUME UNCHANGED <<token, mounted, guard, swapped>>,
             socket' \in [Sockets -> Socket], current' \in Sockets \cup {NoSocket},
             retry' \in Sockets \cup {NoSocket}, delay' \in FirstDelay..LastDelay,
             starting' = starting \/ starting' = FALSE, renewing' \in BOOLEAN,
             NeverStranded', OneAlive'
      PROVE  LiveInv'
  <2>1. token' \in Tokens /\ mounted' \in BOOLEAN /\ guard' \in BOOLEAN /\ swapped' \in BOOLEAN
    BY <1>0, <1>1 DEF LiveTypes
  <2>2. starting' \in BOOLEAN /\ (~mounted' => ~starting')
    <3>1. CASE starting' = starting
      BY <1>0, <1>1, <3>1 DEF LiveTypes
    <3>2. CASE starting' = FALSE
      BY <3>2
    <3> QED BY <1>1, <3>1, <3>2
  <2>3. LiveTypes'
    BY <1>1, <2>1, <2>2 DEF LiveTypes
  <2>4. guard' <=> ~mounted'
    BY <1>0, <1>1
  <2> QED BY <1>1, <2>2, <2>3, <2>4 DEF LiveInv
<1>2. ASSUME UNCHANGED <<token, mounted, guard, starting, socket, current, retry, delay, swapped>>,
             renewing' = renewing \/ (~mounted /\ renewing' = FALSE)
      PROVE  LiveInv'
  BY <1>0, <1>2 DEF LiveInv, LiveTypes, NeverStranded, OneAlive, Alive, There, Opened, Waiting
<1>3. CASE FirstConnect
  <2>1. CASE guard
    BY <1>0, <1>3, <2>1 DEF FirstConnect
  <2>2. CASE ~guard
    <3>1. PICK s \in Sockets : socket[s].at = "none" /\ Connect(s, token)
      BY <1>3, <2>2 DEF FirstConnect
    <3>2. /\ starting /\ starting' = FALSE
          /\ UNCHANGED <<token, mounted, guard, retry, renewing, delay, swapped>>
      BY <1>3 DEF FirstConnect
    <3>3. Moves(s, "connecting") /\ current' = s
      BY <1>0, <3>1, Connects DEF LiveTypes
    <3>4. s \in There' /\ s \in Opened' /\ s \notin Waiting'
          /\ \A t \in Sockets : t # s => /\ t \in There' <=> t \in There
                                         /\ t \in Opened' <=> t \in Opened
                                         /\ t \in Waiting' <=> t \in Waiting
      BY <3>3, SocketMoved
    <3>5. NeverStranded'
      BY <3>4 DEF NeverStranded
    <3>6. ~swapped /\ mounted => \A t \in Sockets : t \notin There /\ t \notin Waiting
      BY <1>0, <3>2 DEF OneAlive
    <3>7. There' \subseteq Sockets /\ Waiting' \subseteq Sockets /\ Opened' \subseteq There'
      BY DEF There, Waiting, Opened
    <3>8. OneAlive'
      BY <1>0, <2>2, <3>2, <3>3, <3>4, <3>6, <3>7 DEF OneAlive, Alive
    <3> QED BY <1>0, <1>1, <3>2, <3>3, <3>5, <3>8 DEF Moves, LiveTypes
  <2> QED BY <2>1, <2>2
<1>4. ASSUME NEW s \in Sockets, Onopen(s) PROVE LiveInv'
  <2>1. /\ socket[s].at = "connecting" /\ socket' = [socket EXCEPT ![s].at = "open"]
        /\ delay' = FirstDelay
        /\ UNCHANGED <<token, mounted, guard, starting, current, retry, renewing, swapped>>
    BY <1>4 DEF Onopen
  <2>2. Moves(s, "open")
    BY <2>1, MovesOnly
  <2>3. There' = There /\ Opened' = Opened /\ Waiting' = Waiting
    BY <2>1, <2>2 DEF Moves, There, Opened, Waiting
  <2>4. NeverStranded' /\ OneAlive'
    BY <1>0, <2>1, <2>3 DEF NeverStranded, OneAlive, Alive
  <2>5. delay' \in FirstDelay..LastDelay
    BY <2>1
  <2> QED BY <1>0, <1>1, <2>1, <2>2, <2>4, <2>5 DEF Moves, LiveTypes
<1>5. ASSUME NEW s \in Sockets, Onerror(s) PROVE LiveInv'
  <2>1. /\ s \in Opened /\ socket' = [socket EXCEPT ![s].at = "closing"]
        /\ UNCHANGED <<token, mounted, guard, starting, current, retry, delay, renewing, swapped>>
    BY <1>5 DEF Onerror
  <2>2. Moves(s, "closing")
    BY <2>1, MovesOnly
  <2>3. There' = There /\ Opened' \subseteq Opened /\ Waiting' = Waiting
    BY <2>1, <2>2 DEF Moves, There, Opened, Waiting
  <2>4. NeverStranded' /\ OneAlive'
    BY <1>0, <2>1, <2>3 DEF NeverStranded, OneAlive, Alive
  <2> QED BY <1>0, <1>1, <2>1, <2>2, <2>4 DEF Moves, LiveTypes
<1>6. ASSUME NEW s \in Sockets, Onclose(s) PROVE LiveInv'
  <2>1. s \in There /\ UNCHANGED <<token, mounted, guard, starting, current, delay, swapped>>
    BY <1>6 DEF Onclose
  <2>2. CASE socket' = [socket EXCEPT ![s].at = "none"] /\ UNCHANGED retry
             /\ ((guard /\ UNCHANGED renewing) \/ renewing' = TRUE)
    <3>1. Moves(s, "none")
      BY <2>2, MovesOnly
    <3>2. There' \subseteq There /\ Opened' \subseteq Opened /\ Waiting' \subseteq Waiting
      BY <3>1 DEF Moves, There, Opened, Waiting
    <3>3. NeverStranded'
      BY <1>0, <2>1, <2>2 DEF NeverStranded
    <3>4. OneAlive'
      BY <1>0, <2>1, <2>2, <3>2 DEF OneAlive, Alive
    <3> QED BY <1>0, <1>1, <2>1, <2>2, <3>1, <3>3, <3>4 DEF Moves, LiveTypes
  <2>3. CASE ~guard /\ socket' = [socket EXCEPT ![s].at = "waiting"]
             /\ retry' = s /\ UNCHANGED renewing
    <3>1. Moves(s, "waiting")
      BY <2>3, MovesOnly
    <3>2. /\ Waiting' = Waiting \cup {s} /\ There' = There \ {s} /\ Opened' = Opened \ {s}
      BY <1>0, <3>1 DEF Moves, There, Opened, Waiting
    <3>3. NeverStranded'
      BY <2>1, <2>3, <3>2 DEF NeverStranded
    <3>4. OneAlive'
      BY <1>0, <2>1, <2>3, <3>2 DEF OneAlive, Alive
    <3> QED BY <1>0, <1>1, <2>1, <2>3, <3>1, <3>3, <3>4 DEF Moves, LiveTypes
  <2> QED BY <1>6, <2>2, <2>3 DEF Onclose
<1>7. ASSUME NEW s \in Sockets, Again(s) PROVE LiveInv'
  <2>1. s \in Waiting /\ UNCHANGED <<token, mounted, guard, starting, retry, renewing, swapped>>
    BY <1>7 DEF Again
  <2>2. CASE guard
    <3>1. socket' = [socket EXCEPT ![s].at = "none"] /\ UNCHANGED <<current, delay>>
      BY <1>7, <2>2 DEF Again
    <3>2. Moves(s, "none")
      BY <3>1, MovesOnly
    <3>3. Opened' \subseteq Opened /\ Waiting' \subseteq Waiting
      BY <3>2 DEF Moves, Opened, Waiting
    <3>4. NeverStranded' /\ OneAlive'
      BY <1>0, <2>1, <2>2, <3>3 DEF NeverStranded, OneAlive
    <3> QED BY <1>0, <1>1, <2>1, <3>1, <3>2, <3>4 DEF Moves, LiveTypes
  <2>3. CASE ~guard
    <3>1. Connect(s, socket[s].token)
          /\ delay' = IF 2 * delay > LastDelay THEN LastDelay ELSE 2 * delay
      BY <1>7, <2>3 DEF Again
    <3>2. socket[s].token \in Tokens
      BY <1>0 DEF LiveTypes, Socket
    <3>3. Moves(s, "connecting") /\ current' = s
      BY <3>1, <3>2, Connects
    <3>4. Waiting' = Waiting \ {s} /\ There' = There \cup {s} /\ Opened' = Opened \cup {s}
      BY <1>0, <3>3 DEF Moves, There, Opened, Waiting
    <3>5. NeverStranded'
      BY <3>4 DEF NeverStranded
    <3>6. OneAlive'
      BY <1>0, <2>1, <2>3, <3>3, <3>4 DEF OneAlive, Alive
    <3>7. delay' \in FirstDelay..LastDelay
      BY <1>0, <3>1 DEF LiveTypes
    <3> QED BY <1>0, <1>1, <2>1, <3>3, <3>5, <3>6, <3>7 DEF Moves, LiveTypes
  <2> QED BY <2>2, <2>3
<1>8. CASE Renewed
  <2>1. CASE mounted
    BY <1>8, <2>1, TokenReplaced, HookUnmounted DEF Renewed
  <2>2. CASE ~mounted
    BY <1>2, <1>8, <2>2 DEF Renewed
  <2> QED BY <2>1, <2>2
<1>9. CASE Elsewhere
  BY <1>0, <1>9, TokenReplaced, HookUnmounted DEF Elsewhere, LiveTypes
<1>10. ASSUME NEW s \in Sockets, Message(s) PROVE LiveInv'
  BY <1>2, <1>10 DEF Message
<1>11. CASE MeAnswer
  <2>1. CASE UNCHANGED <<token, mounted, guard, starting, socket, current, retry, delay, swapped>>
    BY <1>2, <1>11, <2>1 DEF MeAnswer
  <2>2. CASE mounted /\ Unmount
    BY <1>0, <1>11, <2>2, HookUnmounted DEF MeAnswer, LiveTypes
  <2> QED BY <1>11, <2>1, <2>2 DEF MeAnswer
<1>12. CASE UNCHANGED liveVars
  BY <1>2, <1>12 DEF liveVars
<1> QED BY <1>3, <1>4, <1>5, <1>6, <1>7, <1>8, <1>9, <1>10, <1>11, <1>12 DEF LiveNext

\* A mounted hook has one connection or will have it, and has one only unless a
\* token is replaced under a socket, however many sockets and tokens there are:
\* the refs know whatever the cleanup has to end.
THEOREM HookKeepsOneSocket == Spec => []OneSocket
<1>1. Init => LiveInv
  BY LiveStarts DEF Init
<1>2. LiveInv /\ [Next]_vars => LiveInv'
  BY Projection, LiveSteps
<1>3. LiveInv => OneSocket
  <2> SUFFICES ASSUME LiveInv PROVE NeverTwo
    BY DEF LiveInv, OneSocket
  <2> SUFFICES ASSUME ~swapped
               PROVE  Cardinality(Opened \cup Waiting) <= IF mounted THEN 1 ELSE 0
    BY DEF NeverTwo
  <2>1. CASE mounted
    <3>1. \A x, y \in Opened \cup Waiting : x = y
      BY <2>1 DEF LiveInv, OneAlive, Alive, Opened, There
    <3> DEFINE S == Opened \cup Waiting
    <3> HIDE DEF S
    <3>2. Cardinality(S) <= 1
      BY <3>1, AtMostOne DEF S
    <3> QED BY <2>1, <3>2 DEF S
  <2>2. CASE ~mounted
    <3>1. Opened \cup Waiting = {}
      BY <2>2 DEF LiveInv, OneAlive
    <3>2. Cardinality(Opened \cup Waiting) = 0
      BY <3>1, FS_EmptySet
    <3> QED BY <2>2, <3>2
  <2> QED BY <2>1, <2>2
<1> QED BY <1>1, <1>2, <1>3, PTL DEF Spec

-----------------------------------------------------------------------------
(* Messages and the banner                                                 *)

\* Every message that was not closed is there, and the ids tell them apart.
Messages ==
    /\ nextId \in 0..MaxToasts /\ toasts \subseteq Toast /\ gone \subseteq 1..nextId
    /\ \A t \in toasts : t.id <= nextId /\ (t.id \in gone <=> ~t.open)
    /\ \A id \in 1..nextId : id \in gone \/ \E t \in toasts : t.id = id /\ t.open

\* As long as the browser stores the keys, the banner knows of every cross.
BannerKnown ==
    /\ banner \in Banner /\ stamp \in Stamps \cup {NoStamp} /\ stored \subseteq closedIn
    /\ last \in Nat
    /\ banner.mounted => stamp # NoStamp
    /\ ~full => stored = closedIn
    /\ banner.mounted /\ ~full => (banner.dismissed <=> stamp \in closedIn)

NoticesInv == Messages /\ BannerKnown

LEMMA NoticesStart == NoticesInit => NoticesInv
<1> SUFFICES ASSUME NoticesInit PROVE NoticesInv OBVIOUS
<1>1. last \in Nat
  BY DEF NoticesInit
<1>2. Messages
  BY NoticesAssumption DEF NoticesInit, Messages
<1>3. BannerKnown
  BY <1>1 DEF NoticesInit, BannerKnown, NoBanner, Banner
<1> QED BY <1>2, <1>3 DEF NoticesInv

LEMMA MessageAdded == ASSUME Messages, Add PROVE Messages'
<1> DEFINE new == [id |-> nextId + 1, open |-> TRUE]
<1>1. /\ nextId' = nextId + 1 /\ nextId' \in 1..MaxToasts /\ nextId \in Nat
      /\ toasts' = toasts \cup {new} /\ gone' = gone
  BY NoticesAssumption DEF Messages, Add, NewId
<1>2. new \in Toast
  BY <1>1 DEF Toast
<1>3. \A t \in toasts : t.id \in 1..MaxToasts
  BY DEF Messages, Toast
<1>4. \A t \in toasts' : t.id <= nextId' /\ (t.id \in gone' <=> ~t.open)
  <2> SUFFICES ASSUME NEW t \in toasts' PROVE t.id <= nextId' /\ (t.id \in gone' <=> ~t.open)
    OBVIOUS
  <2>1. CASE t \in toasts
    BY <1>1, <1>3, <2>1 DEF Messages
  <2>2. CASE t = new
    <3>1. nextId + 1 \notin gone
      BY <1>1 DEF Messages
    <3> QED BY <1>1, <2>2, <3>1
  <2> QED BY <1>1, <2>1, <2>2
<1>5. \A id \in 1..nextId' : id \in gone' \/ \E t \in toasts' : t.id = id /\ t.open
  <2> SUFFICES ASSUME NEW id \in 1..nextId', id \notin gone'
               PROVE  \E t \in toasts' : t.id = id /\ t.open
    OBVIOUS
  <2>1. CASE id = nextId + 1
    <3>1. new.id = id /\ new.open /\ new \in toasts'
      BY <1>1, <2>1
    <3> QED BY <3>1
  <2>2. CASE id \in 1..nextId
    BY <1>1, <2>2 DEF Messages
  <2> QED BY <1>1, <2>1, <2>2
<1>6. toasts' \subseteq Toast
  BY <1>1, <1>2 DEF Messages
<1>7. gone' \subseteq 1..nextId' /\ nextId' \in 0..MaxToasts
  BY <1>1 DEF Messages
<1> QED BY <1>4, <1>5, <1>6, <1>7 DEF Messages

\* Closing touches one message, since no other has its id.
LEMMA MessageClosed ==
    ASSUME Messages, NEW t \in toasts, CloseToast(t) \/ OnRemove(t)
    PROVE  Messages'
<1>1. \A u \in toasts : u.id \in 1..nextId /\ u.open \in BOOLEAN
                        /\ u = [id |-> u.id, open |-> u.open]
  BY NoticesAssumption DEF Messages, Toast
<1>2. nextId' = nextId
  BY DEF CloseToast, OnRemove
<1>3. CASE CloseToast(t)
  <2> DEFINE shut == [t EXCEPT !.open = FALSE]
  <2>1. shut \in Toast /\ shut.id = t.id /\ ~shut.open
    BY DEF Messages, Toast
  <2>2. toasts' = (toasts \ {t}) \cup {shut} /\ gone' = gone \cup {t.id} /\ t.open
    BY <1>3 DEF CloseToast
  <2> HIDE DEF shut
  <2>3. \A u \in toasts : u.id = t.id => u = t
    BY <1>1, <2>2 DEF Messages
  <2>4. \A u \in toasts' : u.id <= nextId' /\ (u.id \in gone' <=> ~u.open)
    BY <1>1, <1>2, <2>1, <2>2, <2>3 DEF Messages
  <2>5. \A id \in 1..nextId : id \in gone' \/ \E u \in toasts' : u.id = id /\ u.open
    <3> SUFFICES ASSUME NEW id \in 1..nextId, id \notin gone'
                 PROVE  \E u \in toasts' : u.id = id /\ u.open
      OBVIOUS
    <3>1. PICK u \in toasts : u.id = id /\ u.open
      BY <2>2 DEF Messages
    <3>2. u # t
      BY <2>2, <3>1
    <3> QED BY <2>2, <3>1, <3>2
  <2>6. toasts' \subseteq Toast /\ gone' \subseteq 1..nextId
    BY <1>1, <2>1, <2>2 DEF Messages
  <2> QED BY <1>2, <2>4, <2>5, <2>6 DEF Messages
<1>4. CASE OnRemove(t)
  <2>1. toasts' = {u \in toasts : u.id # t.id} /\ gone' = gone /\ ~t.open
    BY <1>4 DEF OnRemove
  <2>2. \A id \in 1..nextId : id \in gone \/ \E u \in toasts' : u.id = id /\ u.open
    <3> SUFFICES ASSUME NEW id \in 1..nextId, id \notin gone
                 PROVE  \E u \in toasts' : u.id = id /\ u.open
      OBVIOUS
    <3>1. PICK u \in toasts : u.id = id /\ u.open
      BY DEF Messages
    <3>2. u.id # t.id
      BY <2>1, <3>1 DEF Messages
    <3> QED BY <2>1, <3>1, <3>2
  <2> QED BY <1>2, <2>1, <2>2 DEF Messages
<1> QED BY <1>3, <1>4

LEMMA NoticesSteps == ASSUME NoticesInv, [NoticesNext]_noticeVars PROVE NoticesInv'
<1>0. Messages /\ BannerKnown
  BY DEF NoticesInv
<1>1. ASSUME UNCHANGED <<toasts, nextId, gone>> PROVE Messages'
  BY <1>0, <1>1 DEF Messages
<1>2. ASSUME UNCHANGED <<stamp, stored, banner, last, closedIn, full>> PROVE BannerKnown'
  BY <1>0, <1>2 DEF BannerKnown
<1>3. CASE Add
  <2>1. Messages'
    BY <1>0, <1>3, MessageAdded
  <2> QED BY <1>2, <1>3, <2>1 DEF Add, NoticesInv
<1>4. ASSUME NEW t \in toasts, CloseToast(t) \/ OnRemove(t) PROVE NoticesInv'
  <2>1. Messages'
    BY <1>0, <1>4, MessageClosed
  <2> QED BY <1>2, <1>4, <2>1 DEF CloseToast, OnRemove, NoticesInv
<1>5. CASE Mount
  <2>1. BannerKnown'
    BY <1>0, <1>5 DEF Mount, BannerKnown, Banner, Dismissed
  <2> QED BY <1>1, <1>5, <2>1 DEF Mount, NoticesInv
<1>6. CASE Dismiss
  <2>1. banner.mounted /\ stamp' = stamp /\ closedIn' = closedIn \cup {stamp}
        /\ last' = last
    BY <1>6 DEF Dismiss, Visible
  <2>2. banner' \in Banner /\ banner'.dismissed /\ banner'.mounted = banner.mounted
    BY <1>0, <1>6 DEF Dismiss, BannerKnown, Banner
  <2>3. (stored' = stored \cup {stamp} /\ full' = full) \/ (full' = TRUE /\ stored' = stored)
    BY <1>6 DEF Dismiss
  <2>4. BannerKnown'
    BY <1>0, <2>1, <2>2, <2>3 DEF BannerKnown
  <2> QED BY <1>1, <1>6, <2>4 DEF Dismiss, NoticesInv
<1>7. CASE Leave
  <2>1. BannerKnown'
    BY <1>0, <1>7 DEF Leave, BannerKnown, Banner, NoBanner
  <2> QED BY <1>1, <1>7, <2>1 DEF Leave, NoticesInv
<1>8. CASE LoadPage
  <2>1. BannerKnown'
    BY <1>0, <1>8 DEF LoadPage, BannerKnown, Banner, NoBanner
  <2>2. Messages'
    BY <1>8, NoticesAssumption DEF LoadPage, Messages
  <2> QED BY <2>1, <2>2 DEF NoticesInv
<1>9. ASSUME NEW s \in Stamps, SetAuth(s) PROVE NoticesInv'
  <2>1. s # NoStamp /\ s \in Nat
    BY NoticesAssumption
  <2>2. BannerKnown'
    BY <1>0, <1>9, <2>1 DEF SetAuth, BannerKnown, Banner, Dismissed
  <2> QED BY <1>1, <1>9, <2>2 DEF SetAuth, NoticesInv
<1>10. CASE UNCHANGED noticeVars
  BY <1>1, <1>2, <1>10 DEF noticeVars, NoticesInv
<1> QED BY <1>3, <1>4, <1>5, <1>6, <1>7, <1>8, <1>9, <1>10 DEF NoticesNext

\* A message is there until it is closed, whatever comes and goes around it, and
\* a banner that was closed under a stamp of setAuth is not seen under it again,
\* however many messages, stamps and pages there are.  (A reload makes a new stamp,
\* and the banner comes back with it.)
THEOREM WhatIsClosedStaysClosed == Spec => []ClosedForGood
<1>1. Init => NoticesInv
  BY NoticesStart DEF Init
<1>2. NoticesInv /\ [Next]_vars => NoticesInv'
  BY Projection, NoticesSteps
<1>3. NoticesInv => ClosedForGood
  BY DEF NoticesInv, Messages, BannerKnown, ClosedForGood, Visible
<1> QED BY <1>1, <1>2, <1>3, PTL DEF Spec
-----------------------------------------------------------------------------
(* The traffic chart                                                       *)

\* However wide the chart, long the periods and many the rows: it counts every row
\* once, keeps the highest and the lowest point, fits its axis, names the point
\* nearest to the pointer and puts the labels under the line.  fillBuckets,
\* downsampleTraffic, smoothTraffic, buildYScale and findClosestPointIndexByX work
\* together, whenever the rows, the width and the pointer change.
THEOREM ChartTellsTheTraffic == Spec => []ChartIsTrue
<1>1. Init => ChartInv
  BY ChartStarts DEF Init
<1>2. ChartInv /\ [Next]_vars => ChartInv'
  BY Projection, ChartSteps
<1> QED BY <1>1, <1>2, ChartTrue, PTL DEF Spec

-----------------------------------------------------------------------------
(* All screens                                                             *)

\* What each screen's invariant says, on every screen.
ScreensInv == ServerInv /\ KeysInv /\ ChartInv /\ CardTypes /\ LiveInv /\ NoticesInv

\* The stores and the states of all pages keep their types: TypeOK is what the
\* screens' own invariants say of them.
THEOREM ScreensKeepTypes == Spec => []TypeOK
<1>1. Init => ScreensInv
  BY ServerStarts, KeysStart, ChartStarts, CardTypesStart, LiveStarts, NoticesStart
     DEF Init, ScreensInv
<1>2. ScreensInv /\ [Next]_vars => ScreensInv'
  BY Projection, ServerSteps, KeysSteps, ChartSteps, CardTypesKept, LiveSteps, NoticesSteps
     DEF ScreensInv
<1>3. SharedInv /\ ScreensInv => TypeOK
  <2> SUFFICES ASSUME SharedInv, ScreensInv PROVE TypeOK
    OBVIOUS
  <2>1. AccountTypes /\ FormTypes /\ ProfileTypes
    BY DEF SharedInv, FormInv, ProfileInv
  <2>2. ServerTypes /\ KeyTypes /\ LiveTypes
    BY DEF ScreensInv, ServerInv, KeysInv, LiveInv
  <2>3. ChartTypes /\ hovered \in Nat \cup {NoChart}
    BY HoveredType DEF ScreensInv, ChartInv
  <2>4. CardTypes /\ Messages /\ BannerKnown
    BY DEF ScreensInv, NoticesInv
  <2> QED BY <2>1, <2>2, <2>3, <2>4
          DEF TypeOK, AccountTypes, FormTypes, ProfileTypes, ServerTypes, KeyTypes,
              LiveTypes, ChartTypes, CardTypes, Messages, BannerKnown
<1> QED BY <1>1, <1>2, <1>3, SharedInvariant, PTL DEF Spec
=============================================================================
