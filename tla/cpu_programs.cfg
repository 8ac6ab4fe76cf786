\* Whole programs: a loop, nested calls, stacks.
SPECIFICATION PSpec
CONSTANTS
  NReg = 4
  DwordBits = 16
  AndByte <- MCAndByte
  OrByte <- MCOrByte
  XorByte <- MCXorByte
  MemSize = 56
  LoadAddr = 16
  InitSP = 11
  InitSSP = 8
  InitRegs <- ProgramRegs
  InitCregs <- ZeroCregs
  Images <- Programs
  StepModes = {FALSE}
  OpOf <- ProgramOps
  CondOf <- LoopConds
  WildBytes = {0, 15}
  MaxCount = 60
INVARIANTS StackRoundTrip
PROPERTIES ImplementsStack LoopComputes CallsReturn
\* The emulator ends.
CHECK_DEADLOCK FALSE
