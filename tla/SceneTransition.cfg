SPECIFICATION FairSpec
CONSTANTS
  Conn = {c1, c2}
  MaxWorlds = 2
INVARIANTS
  TypeOK
  SettledScenes
  SingleFlight
PROPERTIES
  CarriedPeersSettle
  OperationsEnd
