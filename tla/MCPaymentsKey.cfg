\* The key is missing when a webhook comes first and right when it is repeated.
CONSTANTS
  alice = alice
  Users = {alice}
  Nobody = Nobody
  MaxOrders = 1
  Keys = {TRUE, FALSE}
SPECIFICATION Spec
INVARIANTS
  AcknowledgedIsCredited
