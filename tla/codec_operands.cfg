\* Operands that are not the ones written.
SPECIFICATION Spec
CONSTANTS
  NReg = 16
  Sources <- MCSources
  Garbage = {0, 255}
INVARIANT OperandsAsWritten
\* The listing has been assembled.
CHECK_DEADLOCK FALSE
