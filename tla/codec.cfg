\* The assembler and the disassembler on the real VA.
SPECIFICATION Spec
CONSTANTS
  NReg = 16
  Sources <- MCSources
  Garbage = {0, 255}
INVARIANTS
  TypeOK ListingIsSource Reassembles ListingStable OverreadsOnlyOddSizes
\* The listing has been assembled.
CHECK_DEADLOCK FALSE
