\* Two accounts, one server, two months; one restart of Hysteria, change, deletion or
\* reset by hand.
CONSTANTS
  u1 = u1
  u2 = u2
  s1 = s1
  None = None
  Users = {u1, u2}
  Servers = {s1}
  Bytes <- MCBytes
  Cap = 1
  MaxEvents = 1
  MaxMonth = 2
SPECIFICATION FairSpec
INVARIANTS
  EachByteOnce
  UsedIsSum
PROPERTIES
  PollsEnd
CHECK_DEADLOCK FALSE
