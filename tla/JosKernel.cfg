SPECIFICATION Spec
CONSTANTS
  NENV = 3
  CPUs = {0, 1}
  Boot = 1
  MaxForks = 2
INVARIANTS
  TypeOK
  SlotsAreAccountedFor
  WaitersAreBlocked
PROPERTIES
  ImplementsEnvService
  RunnableRuns
CHECK_DEADLOCK FALSE
