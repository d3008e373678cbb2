\* Two joiners that share the compression lock and a journal of one row, with
\* exact loaders; one send of a reveal may fail half way.
CONSTANTS
  c1 = c1
  c2 = c2
  x1 = x1
  x2 = x2
  red = red
  Air = Air
  None = None
  Conn = {c1, c2}
  Cell = {x1}
  Colour = {red}
  Pristine <- MCOneSolid
  JournalLimit = 1
  AirCatchup = FALSE
  AirBatch = 1
  MaxSequence = 2
  MaxFaults = 1
SPECIFICATION FairSpec
PROPERTY JoinResolves
