SPECIFICATION FairPoolSpec
CONSTANTS
  c1 = c1
  c2 = c2
  c3 = c3
  r1 = r1
  Triggers = {c1, c2, c3}
  Readers = {r1}
  NReads = 2
  PoolSize = 2
INVARIANTS
  NoneLeaks
PROPERTIES
  EveryRequestEnds
CHECK_DEADLOCK FALSE
