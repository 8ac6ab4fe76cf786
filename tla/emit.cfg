\* Both kinds of buffer, programs that fit their assumptions.
SPECIFICATION HSpec
CONSTANTS
  Block = 8
  AddrSize = 64
  FixedSizes = {20}
  Labels = {l1, l2}
  Data = {d1}
  Hows = {h1, h2}
  DefaultOffset = 32
  Offsets = {60}
  Targets = {0, 12}
  Aligns = {0, 3, 4}
  MaxStatements = 5
  Careful = TRUE
  Zero = Zero
  Unset = Unset
SYMMETRY Symmetry
INVARIANTS
  TypeOK BufferLayout NeverOverruns RefsResolved ImageInitialised ImageIsEmitted
\* The assembler ends.
CHECK_DEADLOCK FALSE
