------------------------------ MODULE Account -------------------------------
(***************************************************************************)
(* One account at the server and the time: what the profile page shows of  *)
(* it and the administrator's form writes to it.                           *)
(***************************************************************************)
EXTENDS ExpiryTime

CONSTANTS MaxTime,      \* bound: the run's last moment
          MaxExpiry,    \* bound: the latest end of a subscription
          Expiries,     \* ends of subscriptions to begin with
          Period        \* what a payment adds

ASSUME AccountAssumption ==
    /\ MaxTime \in Nat /\ MaxExpiry \in Nat /\ Period \in Nat \ {0}
    /\ Expiries \subseteq 0..MaxExpiry

VARIABLES now, account

Moments == (-Offset)..MaxExpiry
Account == [allowed : BOOLEAN, active : BOOLEAN, expires : Moments \cup {None}]

AccountInit ==
    /\ now = 0
    /\ \E e \in Expiries \cup {None}, a \in BOOLEAN :
          account = [allowed |-> TRUE, active |-> a, expires |-> e]

\* apply_successful_payment: from the end of what is left, or from now.
Credit ==
    LET from == IF Running(account.expires, now) THEN account.expires ELSE now
    IN /\ from + Period <= MaxExpiry
       /\ account' = [account EXCEPT !.active = TRUE, !.expires = from + Period]

\* check_and_deactivate_if_expired
Deactivate ==
    /\ account.active /\ account.expires # None /\ account.expires <= now
    /\ account' = [account EXCEPT !.active = FALSE]

AccountNext == Credit \/ Deactivate
=============================================================================
