--------------------------- MODULE MCClientSession ---------------------------
(* A subscriber and an account without a subscription share one browser.   *)
EXTENDS ClientSession
CONSTANTS ann, new, r1, r2, q1, q2
=============================================================================
