---------------------------- MODULE MCAdminPanel ----------------------------
(* Two rows and two calls in flight; rows and calls are interchangeable. *)
EXTENDS AdminPanel, TLC
CONSTANTS a, b, c1, c2
Symmetry == Permutations(Names) \cup Permutations(Calls)
=============================================================================
