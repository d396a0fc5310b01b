\* Window, TTL and horizon all equal: the tightest configuration that works.  Two
\* failures block for two seconds; an idle entry goes after two.
CONSTANTS
  key1 = key1
  Keys = {key1}
  NoKey = NoKey
  Limit = 2
  Window = 2
  Horizon = 2
  MaxFailures = 2
  Block = 2
  TTL = 2
  MaxTime = 7
SPECIFICATION Spec
INVARIANTS
  CapHolds
  GuessCap
  NoUnearnedBlock
PROPERTIES
  NoneRefusedEarly
