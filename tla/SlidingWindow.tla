--------------------------- MODULE SlidingWindow ---------------------------
(***************************************************************************)
(* The sliding-window request limiter of rate_limiter.py: what the store   *)
(* keeps of each key, what the cleanup thread takes away, and what was     *)
(* really admitted.  Requests are dependencies run in the threadpool and   *)
(* the cleanup is a thread; each holds _sliding_lock for its whole pass,   *)
(* but the cleanup reads the clock before it waits for the lock.           *)
(***************************************************************************)
EXTENDS RateLimiter

CONSTANTS Limit,    \* RT_<ENDPOINT>_REQ
          Window,   \* RT_<ENDPOINT>_WIN, seconds
          Horizon   \* the 3600 seconds of _cleanup_stale_entries

ASSUME LimiterAssumption == Limit \in Nat /\ Window \in Nat /\ Horizon \in Nat

VARIABLES admitted, \* admitted[k]: times of all requests of k admitted since the start
          kept,     \* kept[k]: which of them are in the entry's timestamps
          called    \* called[k]: last_seen of the entry, or Absent without one

requests == <<admitted, kept, called>>
limiter == <<now, sweep, requests>>

\* Mutant of Fresh: nothing is evicted.
FreshOrOld(k) == kept[k]

Fresh(k) == {i \in kept[k] : admitted[k][i] > now - Window}

WindowInit == /\ ClockInit
              /\ admitted = [k \in Keys |-> <<>>]
              /\ kept = [k \in Keys |-> {}]
              /\ called = [k \in Keys |-> Absent]

\* Mutant of Admit: one request too many.
AdmitOneMore(k) == /\ Cardinality(Fresh(k)) <= Limit
                   /\ admitted' = [admitted EXCEPT ![k] = Append(@, now)]
                   /\ kept' = [kept EXCEPT ![k] = Fresh(k) \cup {Len(admitted[k]) + 1}]
                   /\ called' = [called EXCEPT ![k] = now]
                   /\ UNCHANGED <<now, sweep>>

\* _check_rate_limit answers True, or False and rate_limit raises 429.
Admit(k) == /\ Cardinality(Fresh(k)) < Limit
            /\ admitted' = [admitted EXCEPT ![k] = Append(@, now)]
            /\ kept' = [kept EXCEPT ![k] = Fresh(k) \cup {Len(admitted[k]) + 1}]
            /\ called' = [called EXCEPT ![k] = now]
            /\ UNCHANGED <<now, sweep>>

Refuse(k) == /\ Cardinality(Fresh(k)) >= Limit
             /\ kept' = [kept EXCEPT ![k] = Fresh(k)]
             /\ called' = [called EXCEPT ![k] = now]
             /\ UNCHANGED <<now, admitted, sweep>>

Quiet(k) == called[k] # Absent /\ called[k] < sweep - TTL

\* The cleanup has swept the other store, and this one when it gets the lock.
SweepRequests ==
    /\ SweepOver
    /\ kept' = [k \in Keys |-> IF Quiet(k) THEN {}
                               ELSE {i \in kept[k] : admitted[k][i] > sweep - Horizon}]
    /\ called' = [k \in Keys |-> IF Quiet(k) THEN Absent ELSE called[k]]
    /\ UNCHANGED admitted

WindowNext == \/ \E k \in Keys : Admit(k) \/ Refuse(k)
              \/ SweepRequests
              \/ (SweepStart \/ Tick) /\ UNCHANGED requests

WindowSpec == WindowInit /\ [][WindowNext]_limiter

-----------------------------------------------------------------------------
(* Properties *)

WindowTypeOK == /\ ClockType
                /\ admitted \in [Keys -> Seq(Nat)]
                /\ kept \in [Keys -> SUBSET (Nat \ {0})]
                /\ called \in [Keys -> {Absent} \cup Nat]

\* Requests of k admitted within the last Window seconds.
InWindow(k) == Within(admitted[k], Window, now)

\* "False if the key has exceeded [limit] requests within the last
\* [window_seconds]": no window ever holds more than Limit admitted requests,
\* whatever the cleanup has forgotten.
CapHolds == \A k \in Keys : Cardinality(InWindow(k)) <= Limit

\* A request within the limit is never refused: what the store counts has
\* really been admitted in the window.
NoneRefusedEarly == [][\A k \in Keys :
    Refuse(k) => Cardinality(InWindow(k)) >= Limit]_limiter
=============================================================================
