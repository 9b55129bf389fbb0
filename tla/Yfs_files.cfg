SPECIFICATION FairSpec
CONSTANTS
  c1 = c1
  c2 = c2
  a = a
  b = b
  Clients <- TwoClients
  Names <- TwoNames
  MaxInum = 5
  Dirs <- Root
  OpsOn <- Apart
  NoFile = NoFile
  Absent = Absent
INVARIANTS TypeOK  
PROPERTIES  LocksComeBack
CHECK_DEADLOCK FALSE
