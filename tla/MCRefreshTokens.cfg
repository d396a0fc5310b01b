\* Two handlers on the loop, one threadpool request, the maintenance worker and
\* a login that is refreshed; RefreshTokensProofs needs none of these bounds.
CONSTANTS
  c1 = c1
  c2 = c2
  w1 = w1
  m = m
  Worker = m
  Coroutines = {c1, c2}
  Threads = {w1}
  Nobody = Nobody
  MaxTokens = 2
SPECIFICATION FairSpec
INVARIANTS
  OneLivePerSession
  NoOrphans
PROPERTIES
  NoReplay
  TasksFinish
