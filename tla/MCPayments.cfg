\* One order, which no other one touches, and a signing key that is missing or
\* wrong for a while.  PaymentsProofs needs no bound on the orders.
CONSTANTS
  alice = alice
  Users = {alice}
  Nobody = Nobody
  MaxOrders = 1
  Keys = {TRUE, FALSE}
SPECIFICATION FairSpec
INVARIANTS
  CreditedOnce
  PaidEventMeansCredit
PROPERTIES
  PaidNeverLost
  PaymentArrives
  SellsAsPromised
