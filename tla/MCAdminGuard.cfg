\* Two accounts are enough for a cycle of row locks and for two admins who
\* remove each other; the theorems of AdministrationProofs need no bound.  A
\* third request could keep taking the lock another waits for.
CONSTANTS
  root = root
  alice = alice
  r1 = r1
  r2 = r2
  Users = {root, alice}
  Seed = root
  Requests = {r1, r2}
  Nobody = Nobody
SPECIFICATION FairSpec
INVARIANTS
  SomeAdmin
  CountIsCurrent
PROPERTIES
  RosterSpec
  RequestsFinish
