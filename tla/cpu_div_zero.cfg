\* A division by zero leaves no trace.
SPECIFICATION Spec
CONSTANTS
  NReg = 4
  DwordBits = 16
  AndByte <- MCAndByte
  OrByte <- MCOrByte
  XorByte <- MCXorByte
  MemSize = 16
  LoadAddr = 8
  InitSP = 3
  InitSSP = 8
  InitRegs <- ArithRegs
  InitCregs <- ZeroCregs
  Images <- ArithImages
  StepModes = {FALSE}
  OpOf <- ArithOps
  CondOf <- NoConds
  WildBytes = {0, 15}
  MaxCount = 2
PROPERTIES ZeroDivisorFires
\* The emulator ends.
CHECK_DEADLOCK FALSE
