----------------------------- MODULE ServerForm -----------------------------
(***************************************************************************)
(* The administrator's forms for a VPN server: the URL at which the backend *)
(* reaches it is put together by the form from the domain or else the IP,  *)
(* the port and the TLS button, which is itself read off that URL; what is *)
(* sent, what the API refuses of it, and the row it writes.                *)
(***************************************************************************)
EXTENDS Naturals

CONSTANTS Ips,          \* bound: well-formed addresses
          Ports,        \* bound: ports from 1 to 65535
          Strange       \* URLs an API client gave the server, or no URL

ASSUME ServerAssumption ==
    /\ "" \notin Ips /\ Ports \subseteq Nat \ {0}
    /\ \A u \in Strange : u.tls \in BOOLEAN

VARIABLES server,       \* the row
          serverForm,   \* the open modal
          asSent        \* the fields of the request just made

serverVars == <<server, serverForm, asSent>>

Blank == ""
Domains == {Blank, "host", "long", "bad"}       \* long: over 240 characters
Hosts == {"host", "long", "bad", "bad_ip"} \cup Ips
\* A URL that the form built, a strange one, or the empty input.
Built == [tls : BOOLEAN, host : Hosts, port : Ports]
NoUrl == [tls |-> FALSE, host |-> Blank, port |-> 0]
Urls == Built \cup Strange \cup {NoUrl}

\* label: not empty; protocol: the same.  No other field can be refused.
Texts == [label : BOOLEAN, protocol : BOOLEAN]
Server == [domain : {Blank, "host", "long"}, ip : Ips, port : Ports, url : Urls]

ServerFields == [mode : {"closed", "edit", "create"}, domain : Domains,
                 ip : Ips \cup {Blank, "bad_ip"}, port : Ports \cup {0}, url : Urls,
                 named : BOOLEAN, text : Texts]
NoServerForm == [mode |-> "closed", domain |-> Blank, ip |-> Blank, port |-> 0, url |-> NoUrl,
                 named |-> FALSE, text |-> [label |-> TRUE, protocol |-> TRUE]]

Host(f) == IF f.domain # Blank THEN f.domain ELSE f.ip
UrlOf(f, tls) == [tls |-> tls, host |-> Host(f), port |-> f.port]

\* Mutant of Rebuilt: the effect does not depend on the domain.
RebuiltUnless(before, f) ==
    IF <<f.ip, f.port, f.url.tls>> = <<before.ip, before.port, before.url.tls>>
       \/ Host(f) = Blank \/ f.port = 0
    THEN f ELSE [f EXCEPT !.url = UrlOf(f, f.url.tls)]

\* The effect after a drawing: it runs when one of the four is another one.
Rebuilt(before, f) ==
    IF <<f.domain, f.ip, f.port, f.url.tls>>
          = <<before.domain, before.ip, before.port, before.url.tls>>
       \/ Host(f) = Blank \/ f.port = 0
    THEN f ELSE [f EXCEPT !.url = UrlOf(f, f.url.tls)]

ServerFormInit ==
    /\ serverForm = NoServerForm /\ asSent = NoServerForm
    /\ \E i \in Ips, p \in Ports, u \in Strange :
          server = [domain |-> Blank, ip |-> i, port |-> p, url |-> u]

-----------------------------------------------------------------------------
(* The modal                                                               *)

Filling == serverForm.mode # "closed"
Fill(f) == /\ serverForm' = Rebuilt(serverForm, f)
           /\ asSent' = NoServerForm
           /\ UNCHANGED server

\* On mounting the effect runs whatever the fields are.
OpenServer ==
    /\ ~Filling
    /\ LET f == [NoServerForm EXCEPT !.mode = "edit", !.domain = server.domain,
                    !.ip = server.ip, !.port = server.port, !.url = server.url,
                    !.named = TRUE]
       IN serverForm' = [f EXCEPT !.url = UrlOf(f, f.url.tls)]
    /\ asSent' = NoServerForm
    /\ UNCHANGED server

OpenNewServer ==
    /\ ~Filling
    /\ \E p \in Ports : serverForm' = [NoServerForm EXCEPT !.mode = "create", !.port = p]
    /\ asSent' = NoServerForm
    /\ UNCHANGED server

CloseServer == Filling /\ serverForm' = NoServerForm /\ asSent' = NoServerForm /\ UNCHANGED server

TypeDomain(d) == Filling /\ Fill([serverForm EXCEPT !.domain = d])
TypeIp(i) == Filling /\ Fill([serverForm EXCEPT !.ip = i])
TypePort(p) == Filling /\ Fill([serverForm EXCEPT !.port = p])
\* The country and the city.
TypePlace == Filling /\ Fill([serverForm EXCEPT !.named = ~@])
TypeText(t) == Filling /\ Fill([serverForm EXCEPT !.text = t])

\* toggleTls swaps the scheme of the text that is there, if it has one.
ToggleTls == /\ Filling /\ serverForm.url # NoUrl
             /\ Fill([serverForm EXCEPT !.url.tls = ~@])

\* createServerSchema, updateServerSchema
ServerValid(f) == f.named /\ f.ip \in Ips /\ f.domain # "bad" /\ f.port # 0

ServerPayload(f) == IF f.mode = "create" THEN [f EXCEPT !.text.label = TRUE] ELSE f

\* CreateServerRequest and UpdateServerRequest: at least one character, and a
\* URL of 255 at most.
ServerAccepted(r) == r.text.label /\ r.text.protocol /\ r.url.host # "long"

Saved(r) == IF r.mode = "create" THEN server
            ELSE [domain |-> r.domain, ip |-> r.ip, port |-> r.port, url |-> r.url]

SubmitServer ==
    /\ Filling /\ ServerValid(serverForm)
    /\ LET r == ServerPayload(serverForm)
       IN /\ asSent' = r
          /\ IF ServerAccepted(r) THEN serverForm' = NoServerForm /\ server' = Saved(r)
             ELSE UNCHANGED <<server, serverForm>>

\* The answer is lost: the modal stays, the row may be written.
SubmitServerLost ==
    /\ Filling /\ ServerValid(serverForm)
    /\ LET r == ServerPayload(serverForm)
       IN /\ ServerAccepted(r)
          /\ asSent' = r
          /\ server' \in {server, Saved(r)}
    /\ UNCHANGED serverForm

\* An API client's PUT with one field leaves the others as they are.
ServerElsewhere ==
    /\ \/ \E u \in Strange : server' = [server EXCEPT !.url = u]
       \/ \E d \in {Blank, "host"} : server' = [server EXCEPT !.domain = d]
    /\ UNCHANGED <<serverForm, asSent>>

ServerFormNext ==
    \/ OpenServer \/ OpenNewServer \/ CloseServer \/ TypePlace \/ ToggleTls
    \/ \E d \in Domains : TypeDomain(d)
    \/ \E i \in Ips \cup {Blank, "bad_ip"} : TypeIp(i)
    \/ \E p \in Ports \cup {0} : TypePort(p)
    \/ \E t \in Texts : TypeText(t)
    \/ SubmitServer \/ SubmitServerLost \/ ServerElsewhere

-----------------------------------------------------------------------------
(* Properties *)

\* However the fields were filled, cleared and filled again, a form sends the
\* URL of the host and the port it sends with it.
UrlFollowsHost ==
    asSent.mode # "closed" => asSent.url = UrlOf(asSent, asSent.url.tls)
=============================================================================
