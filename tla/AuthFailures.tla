---------------------------- MODULE AuthFailures ----------------------------
(***************************************************************************)
(* The failure tracker of rate_limiter.py as login and hysteria_auth use   *)
(* it: ask whether the key is blocked, check the password, record what     *)
(* came out.  Both handlers are coroutines without an await in between, so *)
(* one attempt at a time is under way; the clock and the cleanup thread go *)
(* on meanwhile.  The store is volatile: everything is since the start of  *)
(* the process.                                                            *)
(***************************************************************************)
EXTENDS RateLimiter

CONSTANTS NoKey,         \* no attempt is under way
          MaxFailures,   \* RT_MAX_FAILURES
          Block          \* RT_BLOCK_DURATION, seconds

ASSUME TrackerAssumption == /\ MaxFailures \in Nat \ {0} /\ Block \in Nat
                            /\ TTL >= Block /\ NoKey \notin Keys

VARIABLES fails,     \* fails[k]: failures of the entry, 0 without an entry
          until,     \* until[k]: blocked_until, or Absent
          seen,      \* seen[k]: last_seen, or Absent without an entry
          attempt,   \* the key whose password is being checked, or NoKey
          wrong      \* wrong[k]: times of wrong passwords of k since its last right one

entries == <<fails, until, seen>>
tracker == <<now, sweep, entries, attempt, wrong>>

Blocked(k) == until[k] # Absent /\ now < until[k]
Expired(k) == until[k] # Absent /\ now >= until[k]

TrackerInit == /\ ClockInit
               /\ fails = [k \in Keys |-> 0]
               /\ until = [k \in Keys |-> Absent]
               /\ seen = [k \in Keys |-> Absent]
               /\ attempt = NoKey
               /\ wrong = [k \in Keys |-> <<>>]

Forget(K) == /\ fails' = [k \in Keys |-> IF k \in K THEN 0 ELSE fails[k]]
             /\ until' = [k \in Keys |-> IF k \in K THEN Absent ELSE until[k]]
             /\ seen' = [k \in Keys |-> IF k \in K THEN Absent ELSE seen[k]]

\* is_blocked says no; an expired block goes.  (If it says yes, the request is
\* turned away and nothing changes.)
Ask(k) == /\ attempt = NoKey /\ ~Blocked(k)
          /\ Forget({j \in {k} : Expired(j)})
          /\ attempt' = k
          /\ UNCHANGED <<now, sweep, wrong>>

\* Mutant of Fail: blocked one failure late.
FailOneLate(k) ==
    /\ attempt = k /\ attempt' = NoKey
    /\ wrong' = [wrong EXCEPT ![k] = Append(@, now)]
    /\ LET n == IF Expired(k) THEN 1 ELSE fails[k] + 1 IN
       IF Blocked(k) THEN UNCHANGED entries
       ELSE /\ fails' = [fails EXCEPT ![k] = n]
            /\ until' = [until EXCEPT ![k] = IF n > MaxFailures THEN now + Block ELSE Absent]
            /\ seen' = [seen EXCEPT ![k] = now]
    /\ UNCHANGED <<now, sweep>>

\* record_failure: an active block is left alone, an expired one is reset
\* before the failure counts.
Fail(k) ==
    /\ attempt = k /\ attempt' = NoKey
    /\ wrong' = [wrong EXCEPT ![k] = Append(@, now)]
    /\ LET n == IF Expired(k) THEN 1 ELSE fails[k] + 1 IN
       IF Blocked(k) THEN UNCHANGED entries
       ELSE /\ fails' = [fails EXCEPT ![k] = n]
            /\ until' = [until EXCEPT ![k] = IF n >= MaxFailures THEN now + Block ELSE Absent]
            /\ seen' = [seen EXCEPT ![k] = now]
    /\ UNCHANGED <<now, sweep>>

\* Mutant of Succeed: the entry survives a right password.
SucceedKeepingCount(k) == /\ attempt = k /\ attempt' = NoKey
                          /\ wrong' = [wrong EXCEPT ![k] = <<>>]
                          /\ UNCHANGED <<now, entries, sweep>>

\* record_success
Succeed(k) == /\ attempt = k /\ attempt' = NoKey
              /\ Forget({k})
              /\ wrong' = [wrong EXCEPT ![k] = <<>>]
              /\ UNCHANGED <<now, sweep>>

\* Banned, inactive or expired accounts: nothing is recorded.
Dismiss(k) == attempt = k /\ attempt' = NoKey /\ UNCHANGED <<now, entries, sweep, wrong>>

Stale(k) == seen[k] # Absent /\ seen[k] < sweep - TTL /\ ~(until[k] > sweep)

\* The cleanup gets the lock of this store.
SweepEntries == SweepOver /\ Forget({k \in Keys : Stale(k)}) /\ UNCHANGED <<attempt, wrong>>

TrackerNext == \/ \E k \in Keys : Ask(k) \/ Fail(k) \/ Succeed(k) \/ Dismiss(k)
               \/ SweepEntries
               \/ (SweepStart \/ Tick) /\ UNCHANGED <<entries, attempt, wrong>>

TrackerSpec == TrackerInit /\ [][TrackerNext]_tracker

-----------------------------------------------------------------------------
(* Properties *)

TrackerTypeOK == /\ ClockType
                 /\ fails \in [Keys -> Nat]
                 /\ until \in [Keys -> {Absent} \cup Nat]
                 /\ seen \in [Keys -> {Absent} \cup Nat]
                 /\ attempt \in Keys \cup {NoKey}
                 /\ wrong \in [Keys -> Seq(Nat)]

\* Wrong passwords of k in the last Block seconds, none right since.
Recent(k) == Within(wrong[k], Block, now)

\* Blocking works: no Block seconds ever see more than MaxFailures wrong
\* passwords of a key (without a right one), whatever expires, is reset or is
\* swept in between.
GuessCap == \A k \in Keys : Cardinality(Recent(k)) <= MaxFailures

\* "After RT_MAX_FAILURES consecutive failures": no key is blocked for less.
NoUnearnedBlock == \A k \in Keys : Blocked(k) => Len(wrong[k]) >= MaxFailures
=============================================================================
