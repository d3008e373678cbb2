SPECIFICATION Spec
CONSTANTS
  Conn = {c1, c2}
  MaxPlayers = 2
  MaxBots = 0
  Bot = Bot
  Nobody = Nobody
  MaxRollovers = 1
SYMMETRY ConnSymmetry
INVARIANT IdsAreExclusive
