SPECIFICATION Spec
CONSTANTS
  Conn = {a, b, c}
  Ids = {1, 2, 3}
  None = None
  MinTeam = 2
  MaxJoins = 5
  MaxBallots = 3
  MaxRounds = 3
SYMMETRY ConnSymmetry
INVARIANTS
  TypeOK
  BallotNamesItsPeople
  RoundEndsWithItsVote
CHECK_DEADLOCK FALSE
