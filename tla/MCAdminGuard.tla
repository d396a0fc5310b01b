--------------------------- MODULE MCAdminGuard ----------------------------
(* AdminGuard on two accounts and two concurrent requests, for TLC.        *)
EXTENDS AdminGuard

CONSTANTS root, alice, r1, r2
=============================================================================
