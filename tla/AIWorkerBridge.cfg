\* One bot and two cells with two contents, pipes of two records, a snapshot of
\* a header and one chunk, a full snapshot at two pending cells; two events of
\* the game (a commit, a frame, a new map) and two troubles (a discard, a
\* recycle, a child that dies, hangs or is killed while healthy).
CONSTANTS
  Bots = {1}
  Cells = {1, 2}
  Values = {1, 2}
  FileContent = 1
  NoFrame = NoFrame
  InLimit = 2
  OutLimit = 2
  DeltaCells = 1
  FrameBatch = 1
  Threshold = 2
  Chunks = 1
  MaxEvents = 2
  MaxTroubles = 2
SPECIFICATION FairSpec
INVARIANTS TypeOK StreamEndsCanonical WatchdogHasCause
PROPERTIES FramesInOrder WorkerConverges
CHECK_DEADLOCK FALSE
