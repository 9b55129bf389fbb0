SPECIFICATION Spec
CONSTANTS
  Procs = {1, 2, 3}
  MAXJOBS = 2
  MaxKeys = 2
INVARIANTS
  TypeOK
  JobListIsExact
  AtMostOneFg
  StoppedIsStopped
PROPERTIES
  ChildrenAreReaped
CHECK_DEADLOCK FALSE
