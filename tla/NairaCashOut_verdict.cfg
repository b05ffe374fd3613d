CONSTANTS
  Workers = {w1, w2}
  MayDie = {w2}
  Scenes <- Dying
  MaxOrders = 2
  MaxSubmits = 2
SPECIFICATION FairSpec
PROPERTIES
  VerdictHeard
CHECK_DEADLOCK FALSE
