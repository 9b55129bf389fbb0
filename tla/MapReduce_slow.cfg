SPECIFICATION Spec
CONSTANTS
  w1 = w1
  w2 = w2
  w3 = w3
  Workers = {w1, w2}
  NMap = 2
  NReduce = 2
  Limit <- Mixed
  Keyless = {1}
  Slow = TRUE
INVARIANTS
  SlowCallsAreSafe
CHECK_DEADLOCK FALSE
