----------------------------- MODULE MCScreens ------------------------------
(* Days of two hours, hours of two minutes, minutes of two ticks; buckets of
   two ticks, four to a day of the chart. *)
EXTENDS Screens

\* No URL, and the URL of another host.
MCStrange == {NoUrl, [tls |-> TRUE, host |-> "ip1", port |-> 2]}

\* A summer time of an hour begins between the two dates.
MCShifts == {-4}

\* A date that is over.
MCTyped == {[day |-> 0, minute |-> 2]}

Unit == 504
\* One row, large, and two small ones, early and late: on either side of a thousandth.
MCHistories == {[t \in {8} |-> 30 * Unit],
                [t \in {6, 14} |-> IF t = 6 THEN Unit ELSE 2 * Unit]}
MCIntervals == <<2, 4, 8>>
MCSteps == {m * p : m \in {1, 2, 5}, p \in {10, 100, 1000, 10000}}
=============================================================================
