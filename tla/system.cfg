\* From assembler sources to the end of their execution.
SPECIFICATION SysSpec
CONSTANTS
  NReg = 8
  DwordBits = 24
  AndByte <- MCAndByte
  OrByte <- MCOrByte
  XorByte <- MCXorByte
  MemSize = 116
  LoadAddr = 16
  InitSP = 12
  InitSSP = 16
  InitRegs <- MCRegs
  InitCregs <- MCCregs
  Images = {}
  StepModes = {FALSE}
  OpOf <- MCOps
  CondOf <- MCConds
  WildBytes = {0, 63}
  MaxCount = 24
  Programs <- MCPrograms
  StackRoom = 4
  Block = 64
  FixedSizes = {24}
  Labels = {"a", "b"}
  MaxStatements = 13
  Zero = Zero
  Unset = Unset
PROPERTIES ImplementsProgram ForwardProgramsEnd
\* The emulator ends, or turns on.
CHECK_DEADLOCK FALSE
