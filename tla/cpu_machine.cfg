\* Memory, stack ranges, jumps, ports, control registers, bits, the end of a run.
SPECIFICATION Spec
CONSTANTS
  NReg = 8
  DwordBits = 24
  AndByte <- MCAndByte
  OrByte <- MCOrByte
  XorByte <- MCXorByte
  MemSize = 32
  LoadAddr = 16
  InitSP = 11
  InitSSP = 8
  InitRegs <- MachineRegs
  InitCregs <- ZeroCregs
  Images <- MachineImages
  StepModes = {TRUE, FALSE}
  OpOf <- MachineOps
  CondOf <- OrderConds
  WildBytes = {0, 17}
  MaxCount = 4
INVARIANTS TypeOK EndIsFinal
PROPERTIES StoreConfined NarrowWritesIsolated CmpXchgRetries BitwiseExact
\* The emulator ends.
CHECK_DEADLOCK FALSE
