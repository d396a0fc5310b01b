---------------------------- MODULE RateLimiter ----------------------------
(***************************************************************************)
(* What the two stores of rate_limiter.py share: the monotonic clock and   *)
(* the cleanup thread.  A pass of the cleanup reads the clock once, waits  *)
(* for the lock of each store and then goes by the time it has read.       *)
(***************************************************************************)
EXTENDS Integers, Sequences, FiniteSets

CONSTANTS Keys,     \* IPs and user names, or (endpoint, IP) pairs
          TTL,      \* _STALE_ENTRY_TTL
          MaxTime   \* bound of the clock

ASSUME ClockAssumption == TTL \in Nat /\ MaxTime \in Nat

VARIABLES now,      \* the monotonic clock
          sweep     \* the time a cleanup pass goes by, or Absent between passes

Absent == -1

ClockInit == now = 0 /\ sweep = Absent

SweepStart == sweep = Absent /\ sweep' = now /\ UNCHANGED now

\* The pass is through with a store; what it took away is the store's matter.
SweepOver == sweep # Absent /\ sweep' = Absent /\ UNCHANGED now

Tick == now < MaxTime /\ now' = now + 1 /\ UNCHANGED sweep

\* Which of these times are of the last span seconds.
Within(times, span, at) == {i \in 1..Len(times) : times[i] > at - span}

\* A pass goes by a time that has been.
ClockType == now \in 0..MaxTime /\ sweep \in {Absent} \cup 0..now
=============================================================================
