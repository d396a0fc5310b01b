-------------------------- MODULE MCRefreshTokens --------------------------
(* RefreshTokens with a few requests, for TLC.                              *)
EXTENDS RefreshTokens

CONSTANTS c1, c2, w1, m
=============================================================================
