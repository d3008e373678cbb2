SPECIFICATION Spec
CONSTANTS
  Conn = {c1, c2, c3}
  MaxPlayers = 3
  MaxBots = 2
  Bot = Bot
  Nobody = Nobody
  MaxRollovers = 2
SYMMETRY ConnSymmetry
INVARIANTS
  TypeOK
  RosterHasNoGhosts
  IdsAreExclusiveAtFirst
  PromisesAreReleasedAtFirst
