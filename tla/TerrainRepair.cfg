\* One player, with bots that build, and three voxels of two colours; lanes that
\* hold two entries, so that they overflow; a quiet period longer than the delay
\* of a confirmation; a tick sends one cell of each lane.
CONSTANTS
  Conn = {a}
  Cell = {x, y, z}
  Colour = {red, blue}
  Air = Air
  Limit = 2
  Delay = 2
  CollapseDelay = 1
  Batch = 1
  CollapseBatch = 1
  Interval = 1
  MaxEdits = 3
SPECIFICATION FairSpec
INVARIANT WrongCellsAreQueued
PROPERTY WrongCellsHeal
