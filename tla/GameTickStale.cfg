SPECIFICATION Spec
CONSTANTS
  Conn = {a, b}
  Ids = {1, 2}
  Cells = {x}
  None = None
  NoLoop = NoLoop
  ConnectionCap = 1
  MaxPending = 2
  DrainBudget = 2
  MutationLimit = 2
  MutationBudget = 1
  CellBudget = 1
  Timeout = 2
  Wallet = 1
  MaxLoop = 1
  MaxEdits = 1
  MaxJoins = 2
  MaxResets = 1
  MaxFaults = 1
PROPERTIES
  OldTimelineIsDropped
CHECK_DEADLOCK FALSE
