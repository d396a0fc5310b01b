----------------------------- MODULE MCPayments -----------------------------
(* Payments with a named user, for TLC.                                     *)
EXTENDS Payments

CONSTANT alice
=============================================================================
