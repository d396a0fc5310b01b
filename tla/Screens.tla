------------------------------ MODULE Screens -------------------------------
(***************************************************************************)
(* The screens that share nothing but the browser: the profile page and    *)
(* the administrator's form for the account it shows, the choice of a      *)
(* server, the form for a server, the traffic chart, the payment card, the *)
(* socket for live updates, the notices.  A behaviour follows one of them, *)
(* so that the numbers of states add up and do not multiply; the others    *)
(* stand where they would at first.                                        *)
(***************************************************************************)
EXTENDS Profile, UserForm, ServerForm, ServerKeys, TrafficChart, PaymentCard, LiveUpdates, Notices

Screens == {"profile", "user_form", "server_form", "keys", "chart", "card", "live", "notices"}

CONSTANT Shown          \* bound: the screens that behaviours follow

ASSUME ShownAssumption == Shown \subseteq Screens

VARIABLE screen

vars == <<screen, now, account, profileVars, formVars, serverVars, keyVars, chartVars,
          cardVars, liveVars, noticeVars>>

Follows(some) == screen \in some
One(S) == CHOOSE x \in S : TRUE

Init ==
    /\ screen \in Shown
    /\ AccountInit /\ (Follows({"profile", "user_form"}) \/ (account.expires = None /\ account.active))
    /\ ProfileInit /\ FormInit
    /\ ServerFormInit
    /\ Follows({"server_form"}) \/
          <<server.ip, server.port, server.url>> = <<One(Ips), One(Ports), One(Strange)>>
    /\ KeysInit /\ (Follows({"keys"}) \/ (live = {} /\ store = NoStore))
    /\ ChartInit
    /\ Follows({"chart"}) \/ <<traffic, days, width>> = <<One(Histories), One(Periods), One(Widths)>>
    /\ CardInit /\ (Follows({"card"}) \/ due)
    /\ LiveInit /\ (Follows({"live"}) \/ token = One(Tokens))
    /\ NoticesInit

OnProfile == /\ screen = "profile" /\ ProfileNext
             /\ UNCHANGED <<screen, formVars, serverVars, keyVars, chartVars, cardVars, liveVars, noticeVars>>
OnUserForm == /\ screen = "user_form" /\ FormNext
              /\ UNCHANGED <<screen, profileVars, serverVars, keyVars, chartVars, cardVars, liveVars, noticeVars>>
OnServerForm == /\ screen = "server_form" /\ ServerFormNext
                /\ UNCHANGED <<screen, now, account, profileVars, formVars, keyVars, chartVars, cardVars, liveVars, noticeVars>>
OnKeys == /\ screen = "keys" /\ KeysNext
          /\ UNCHANGED <<screen, now, account, profileVars, formVars, serverVars, chartVars, cardVars, liveVars, noticeVars>>
OnChart == /\ screen = "chart" /\ ChartNext
           /\ UNCHANGED <<screen, now, account, profileVars, formVars, serverVars, keyVars, cardVars, liveVars, noticeVars>>

OnCard == /\ screen = "card" /\ CardNext
          /\ UNCHANGED <<screen, now, account, profileVars, formVars, serverVars, keyVars,
                         chartVars, liveVars, noticeVars>>
OnLive == /\ screen = "live" /\ LiveNext
          /\ UNCHANGED <<screen, now, account, profileVars, formVars, serverVars, keyVars,
                         chartVars, cardVars, noticeVars>>
OnNotices == /\ screen = "notices" /\ NoticesNext
             /\ UNCHANGED <<screen, now, account, profileVars, formVars, serverVars, keyVars,
                            chartVars, cardVars, liveVars>>

Next == OnProfile \/ OnUserForm \/ OnServerForm \/ OnKeys \/ OnChart \/ OnCard \/ OnLive \/ OnNotices

Spec == Init /\ [][Next]_vars

-----------------------------------------------------------------------------
(* Properties *)

\* The pages' states and the stores they read keep their types.
TypeOK ==
    /\ now \in 0..MaxTime /\ account \in Account
    /\ me \in Account \cup {None} /\ user \in Account /\ asked \in {"idle", "asked", "failed"}
    /\ left \in Nat \cup {None} /\ timer \in Nat \cup {None} /\ page \in Page
    /\ form \in Form
    /\ server \in Server /\ serverForm \in ServerFields /\ asSent \in ServerFields
    /\ live \subseteq Servers /\ store \in Store /\ run \in [Runs -> Run] /\ confused \in BOOLEAN
    /\ days \in Periods /\ width \in Widths /\ asking \subseteq Periods /\ broken \subseteq Periods
    /\ loaded \in Periods \cup {NoChart}
    /\ hovered \in Nat \cup {NoChart}
    /\ order \in [Orders -> Stages] /\ card \in Card /\ button \in Sent
    /\ socket \in [Sockets -> Socket] /\ token \in Tokens /\ delay \in FirstDelay..LastDelay
    /\ toasts \subseteq Toast /\ stamp \in Stamps \cup {NoStamp} /\ banner \in Banner
    /\ stored \subseteq closedIn /\ last \in Nat
    /\ current \in Sockets \cup {NoSocket} /\ retry \in Sockets \cup {NoSocket}
=============================================================================
