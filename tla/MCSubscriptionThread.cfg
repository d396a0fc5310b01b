\* An account renewed between require_user's two transactions.
CONSTANTS
  t1 = t1
  c1 = c1
  c2 = c2
  Threads = {t1}
  Coroutines = {c1, c2}
  Free = Free
  Period = 2
  MaxTime = 4
  MaxCredits = 2
  Failures = TRUE
SPECIFICATION SubscriptionSpec
PROPERTIES
  NoLiveDeactivation
