----------------------------- MODULE ExpiryTime -----------------------------
(***************************************************************************)
(* When a subscription ends, as the pages say it: days left by the Moscow  *)
(* calendar, urgency, the countdown, the value of an input of type         *)
(* datetime-local.  Moments are ticks of UTC; a day has Day of them.       *)
(***************************************************************************)
EXTENDS Integers

CONSTANTS Minute, Hour, Day,    \* in ticks
          Offset,               \* Moscow is ahead of UTC by so many ticks
          Critical, Warning,    \* days: 3 and 7 in the code
          Hour24,               \* the browser writes the hour after midnight as 24
          None                  \* null, or an empty input

ASSUME TimeAssumption ==
    /\ Minute \in Nat \ {0} /\ Hour \in Nat \ {0} /\ Day \in Nat \ {0} /\ Offset \in Nat
    /\ Hour % Minute = 0 /\ Day % Hour = 0 /\ Offset % Hour = 0
    /\ Critical \in Nat /\ Warning \in Nat /\ Critical <= Warning
    /\ Hour24 \in BOOLEAN
    /\ None \notin Int /\ None \notin [day : Int, minute : Int]

-----------------------------------------------------------------------------
(* Days and urgency                                                        *)

\* moscowMidnightMs
Midnight(t) == ((t + Offset) \div Day) * Day - Offset

Running(e, now) == e # None /\ e > now

DaysUntil(e, now) == IF e = None THEN None ELSE (Midnight(e) - Midnight(now)) \div Day

\* getExpiryTier: expired to the millisecond, the rest by the calendar.
Tier(e, now) ==
    CASE e = None -> "none"
      [] e # None /\ e <= now -> "expired"
      [] Running(e, now) /\ DaysUntil(e, now) <= Critical -> "critical"
      [] Running(e, now) /\ DaysUntil(e, now) \in (Critical + 1)..Warning -> "warning"
      [] OTHER -> "ok"

\* formatDaysLeft: what is said, and the number in it.
DaysLeft(e, now) ==
    LET days == DaysUntil(e, now)
    IN CASE e = None -> <<"unset", 0>>
         [] Running(e, now) /\ days = 0 -> <<"today", 0>>
         [] Running(e, now) /\ days = 1 -> <<"tomorrow", 1>>
         [] Running(e, now) /\ days > 1 -> <<"left", days>>
         [] OTHER -> IF days = 0 THEN <<"ended_today", 0>> ELSE <<"ended", -days>>

\* The dashboard's list, the table's filter, and what the dashboard marks red.
OnBoard(e, now) == Running(e, now) /\ DaysUntil(e, now) <= Warning
InFilter(e, now) == e # None /\ DaysUntil(e, now) \in 0..Warning
Urgent(e, now) == e # None /\ (e <= now \/ DaysUntil(e, now) <= 1)

-----------------------------------------------------------------------------
(* The profile's tile                                                      *)

\* Mutant of Countdown: what is over is counted on.
CountdownPast(e, now) == IF e # None THEN (e - now) \div Minute ELSE None

\* useLiveCountdown.calc with msToTimeComponents: minutes left, at most.
Countdown(e, now) == IF Running(e, now) THEN (e - now) \div Minute ELSE None

\* getSubscriptionValue: what the tile says, and its number.
Tile(e, days, left, tier) ==
    CASE e = None -> <<"none", 0>>
      [] e # None /\ days < 0 -> <<"ended", 0>>
      [] e # None /\ days = 0 /\ left # None ->
             <<IF left < Hour \div Minute THEN "last_hour" ELSE "last_day", left>>
      [] OTHER -> <<IF tier \in {"critical", "warning"} THEN "soon" ELSE "days", days>>

-----------------------------------------------------------------------------
(* datetime-local                                                          *)

\* toInputDatetimeLocal: the Moscow wall clock, without the seconds.  hour12: false
\* leaves it to the browser whether the day's first hour is 00 or 24.
ToInput(e) ==
    LET minute == ((e + Offset) % Day) \div Minute
    IN IF e = None THEN None
       ELSE [day |-> (e + Offset) \div Day,
             minute |-> IF Hour24 /\ minute < Hour \div Minute THEN minute + Day \div Minute
                        ELSE minute]

\* What Date makes of a text: 24:00 is the end of the day, 24:01 no time at all.
Readable(v) == v # None /\ v.minute <= Day \div Minute

\* fromInputDatetimeLocal
FromInput(v) == IF Readable(v) THEN v.day * Day + v.minute * Minute - Offset ELSE None

\* formatDate speaks of UTC, formatTime of Moscow.
DateShown(e) == e \div Day
TimeShown(e) == (e + Offset) % Day
=============================================================================
