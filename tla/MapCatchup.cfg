\* Two joiners, two cells, a journal of two rows: overflow, reuse of a slot and
\* of prepared chunks, cascades and the pruning of a shared journal all happen.
\* Loaders may keep authored content of destroyed cells, and the air replay
\* drains over several frames.
CONSTANTS
  c1 = c1
  c2 = c2
  x1 = x1
  x2 = x2
  red = red
  Air = Air
  None = None
  Conn = {c1, c2}
  Cell = {x1, x2}
  Colour = {red}
  Pristine <- MCPristine
  JournalLimit = 2
  AirCatchup = TRUE
  AirBatch = 1
  MaxSequence = 3
  MaxFaults = 0
SPECIFICATION Spec
SYMMETRY Symmetry
INVARIANTS
  TypeOK
  AdmittedSeesCanonical
  JournalCoversJoiners
PROPERTIES
  ImplementsTerrainView
