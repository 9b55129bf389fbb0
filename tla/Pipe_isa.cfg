SPECIFICATION Spec
CONSTANTS
  rax = rax
  rsp = rsp
  none = none
  Length = 3
  Regs <- TwoRegs
  RSP <- rsp
  RNONE <- none
  Size = 8
  CodeLen = 7
  DataLen = 4
  Programs <- AllPrograms
  InitMem <- Data
INVARIANTS
  TypeOK
PROPERTIES
  ImplementsIsa
  Progress
CHECK_DEADLOCK FALSE
