--------------------------- MODULE MCRateLimiter ----------------------------
(* Both stores of rate_limiter.py with a named key, for TLC.  They share the
   clock and the cleanup and nothing else: a behaviour follows one of them, so
   that the numbers of states add up. *)
EXTENDS SlidingWindow, AuthFailures

CONSTANT key1

VARIABLE store          \* the store that the behaviour is about

Init == store \in {"requests", "failures"} /\ WindowInit /\ TrackerInit

OnRequests == store = "requests" /\ WindowNext /\ UNCHANGED <<store, entries, attempt, wrong>>
OnFailures == store = "failures" /\ TrackerNext /\ UNCHANGED <<store, requests>>

Next == OnRequests \/ OnFailures

Spec == Init /\ [][Next]_<<store, limiter, entries, attempt, wrong>>
=============================================================================
