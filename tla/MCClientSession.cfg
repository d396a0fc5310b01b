\* Two accounts, two calls and two refreshes in flight.
CONSTANTS
  ann = ann
  new = new
  r1 = r1
  r2 = r2
  q1 = q1
  q2 = q2
  Users = {ann, new}
  Admins = {}
  Inactive = {new}
  Nobody = Nobody
  Refreshes = {r1, r2}
  Requests = {q1, q2}
  MaxTokens = 2
SPECIFICATION FairSpec
INVARIANTS
  TypeOK
  OneSharedRefresh
  OneOwner
CHECK_DEADLOCK FALSE
PROPERTIES
  CallsSettle
