------------------------------ MODULE Profile -------------------------------
(***************************************************************************)
(* The profile page: GET /users/me over the user that the session knows,   *)
(* the countdown that ticks once a minute, and what the page shows.        *)
(*                                                                         *)
(* React draws the page when something it depends on changes, and never    *)
(* because time has passed: useLiveCountdown's tick is such a change only  *)
(* while there is time left, as null after null is none.                   *)
(***************************************************************************)
EXTENDS Account, Sequences

VARIABLES me,           \* the query's data
          asked,        \* the query: "idle", "asked", "failed"
          user,         \* authStore.user
          left,         \* useLiveCountdown: minutes, or None
          timer,        \* when it ticks next, None without a date
          page          \* what was drawn last

profileVars == <<me, asked, user, left, timer, page>>

Known == IF me # None THEN me ELSE user

Said == {"none", "ended", "last_hour", "last_day", "soon", "days"}
Page == [view : {"loading", "profile"}, tile : Said \X Int, guide : BOOLEAN, keys : BOOLEAN]
Spinner == [view |-> "loading", tile |-> <<"none", 0>>, guide |-> FALSE, keys |-> FALSE]

\* The page for the account p: the tile, the guide while there is no date, the
\* connection and the chart only for an account that may connect.
Drawn(p, minutes) ==
    LET e == p.expires
    IN [view |-> "profile", tile |-> Tile(e, DaysUntil(e, now), minutes, Tier(e, now)),
        guide |-> e = None, keys |-> p.allowed /\ p.active]

Draw == page' = IF me' = None /\ asked' = "asked" THEN Spinner ELSE Drawn(Known', left')

ProfileInit ==
    /\ user = account /\ me = None /\ asked = "asked"
    /\ left = Countdown(user.expires, now)
    /\ timer = IF user.expires = None THEN None ELSE now + Minute
    /\ page = Spinner

\* Mutant of Retime: the effect does not depend on the date.
RetimeNever == UNCHANGED <<left, timer>>

\* The effect of useLiveCountdown, run when the date is another one.
Retime ==
    LET e == Known'.expires
    IN IF e = Known.expires THEN UNCHANGED <<left, timer>>
       ELSE IF e = None THEN timer' = None /\ UNCHANGED left
       ELSE left' = Countdown(e, now) /\ timer' = now + Minute

MeOk == /\ asked = "asked"
        /\ me' = account /\ asked' = "idle"
        /\ UNCHANGED <<now, account, user>>
        /\ Retime /\ Draw

MeFails == /\ asked = "asked"
           /\ asked' = "failed"
           /\ UNCHANGED <<now, account, user, me, left, timer>>
           /\ Draw

\* The focus is back, or a payment was created: USER_KEYS.me is asked for again.
AskMe == /\ asked # "asked"
         /\ asked' = "asked"
         /\ UNCHANGED <<now, account, user, me, left, timer>>
         /\ Draw

Ticks == /\ timer = now
         /\ left' = Countdown(Known.expires, now)
         /\ timer' = now + Minute
         /\ UNCHANGED <<now, account, user, me, asked>>
         /\ IF left = None /\ left' = None THEN UNCHANGED page ELSE Draw

\* A click on a status, another server, another query: any other reason to draw.
Redraw == /\ UNCHANGED <<now, account, user, me, asked, left, timer>>
          /\ Draw

\* Timers run on time.
Passes == /\ now < MaxTime /\ timer # now
          /\ now' = now + 1
          /\ UNCHANGED <<account, profileVars>>

ProfileNext == \/ MeOk \/ MeFails \/ AskMe \/ Ticks \/ Redraw \/ Passes
               \/ AccountNext /\ UNCHANGED <<now, profileVars>>

-----------------------------------------------------------------------------
(* Properties *)

Recent == (now - Minute)..now
Drawing == page.view = "profile"

\* As long as the subscription runs, whatever comes in whatever order, the tile
\* lags behind the time by no more than the minute between two ticks.
TileTimely ==
    Drawing /\ Running(Known.expires, now) =>
        LET e == Known.expires
        IN \E t, s \in Recent :
              page.tile = Tile(e, DaysUntil(e, t), Countdown(e, s), Tier(e, t))

\* Nobody is told that a subscription is over which still runs.
TileNotEarly == Drawing /\ page.tile[1] = "ended" => Known.expires <= now

\* As long as a subscription runs, the dashboard lists it as one that ends soon,
\* the table's filter finds it and its badge says so, all three or none.
ListsAgree ==
    LET e == account.expires
    IN Running(e, now) => /\ OnBoard(e, now) <=> InFilter(e, now)
                          /\ OnBoard(e, now) <=> Tier(e, now) \in {"critical", "warning"}

\* What the pages say of the end of a running subscription is true, or was a
\* minute ago, and they agree.
TileIsTrue == TileTimely /\ TileNotEarly /\ ListsAgree
=============================================================================
