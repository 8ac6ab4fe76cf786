\* A growing buffer, any program.
SPECIFICATION Spec
CONSTANTS
  Block = 8
  AddrSize = 64
  FixedSizes = {}
  Labels = {l1}
  Data = {d1}
  Hows = {h1}
  DefaultOffset = 32
  Offsets = {}
  Targets = {}
  Aligns = {0}
  MaxStatements = 3
  Careful = FALSE
  Zero = Zero
  Unset = Unset
INVARIANT GrowthFits
\* The assembler ends.
CHECK_DEADLOCK FALSE
