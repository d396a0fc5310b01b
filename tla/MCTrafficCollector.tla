------------------------- MODULE MCTrafficCollector -------------------------
(* Two accounts on one server.                                             *)
EXTENDS TrafficCollector, TLC
CONSTANTS u1, u2, s1
MCBytes == s1 :> (u1 :> 3 @@ u2 :> 2)
=============================================================================
