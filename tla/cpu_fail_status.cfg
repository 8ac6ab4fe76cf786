\* FAIL can end with the exit status of success.
SPECIFICATION Spec
CONSTANTS
  NReg = 8
  DwordBits = 24
  AndByte <- MCAndByte
  OrByte <- MCOrByte
  XorByte <- MCXorByte
  MemSize = 32
  LoadAddr = 16
  InitSP = 11
  InitSSP = 8
  InitRegs <- MachineRegs
  InitCregs <- ZeroCregs
  Images <- MachineImages
  StepModes = {FALSE}
  OpOf <- MachineOps
  CondOf <- OrderConds
  WildBytes = {0, 17}
  MaxCount = 4
PROPERTIES FailSignalsFailure
\* The emulator ends.
CHECK_DEADLOCK FALSE
