CONSTANTS
  Workers = {w1, w2}
  MayDie = {w2}
  Scenes <- EachFault
  MaxOrders = 2
  MaxSubmits = 2
SPECIFICATION FairSpec
INVARIANTS
  MoneyInOnePlace
PROPERTIES
  CashOutEnds
CHECK_DEADLOCK FALSE
