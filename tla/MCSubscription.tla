--------------------------- MODULE MCSubscription ---------------------------
(* Subscription with named tasks, for TLC.                                  *)
EXTENDS Subscription

CONSTANTS t1, c1, c2
=============================================================================
