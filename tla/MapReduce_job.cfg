SPECIFICATION FairSpec
CONSTANTS
  w1 = w1
  w2 = w2
  w3 = w3
  Workers = {w1, w2, w3}
  NMap = 2
  NReduce = 2
  Limit <- Mixed
  Keyless = {}
  Slow = FALSE
INVARIANTS
  TypeOK
PROPERTIES
  ImplementsJob
  JobFinishes
CHECK_DEADLOCK FALSE
