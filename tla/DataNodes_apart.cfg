SPECIFICATION FairSpec
CONSTANTS
  Nodes = {1, 2, 3}
  Master = 2
  Blocks = {1, 2}
  MaxStarts = 2
  Late = 1
  Apart = TRUE
INVARIANTS TypeOK MasterHasAll UpToDate
PROPERTIES DeathIsDetected Recovers
