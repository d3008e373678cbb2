\* One bot that joins once and is reconnected, two cells, one fault, one
\* rollover; a commit writes both cells, one notification after the other.
SPECIFICATION FairSpec
CONSTANTS
  Bots = {b1}
  Cells = {c1, c2}
  IntentLimit = 1
  NoFrame = NoFrame
  NoRoute = NoRoute
  DrainLimit = 1
  CommitSizes = {2}
  MaxMaps = 2
  MaxGames = 1
  MaxCommits = 1
  MaxFrames = 2
  MaxJoins = 1
  MaxFaults = 1
  NoBot = NoBot
  NoIntent = NoIntent
INVARIANTS
  TypeOK
  NoChangeIsLost
  BotsFollowOwnFrames
  DecisionsInOrder
PROPERTY
  WorkerConverges
CHECK_DEADLOCK FALSE
